----------------------- MODULE BroadcastServerProofs -----------------------
(***************************************************************************)
(* Safety of BroadcastServer for every number of connections, addresses    *)
(* and requests, and for both ways of running handlers.                    *)
(***************************************************************************)
EXTENDS BroadcastServer, TLAPS

-----------------------------------------------------------------------------
(* The inductive invariants                                                *)

\* The accept loop's client is accepted, and neither run nor watched yet.
CurInv ==
    /\ cur # None <=> acc \in {"register", "start"}
    /\ \A c \in Conn : cur = c => /\ sock[c] \in {"open", "closed"}
                                  /\ runner[c] = "off"

\* A connection is run only after it is accepted.
AcceptedInv ==
    \A c \in Conn : sock[c] \in {"free", "backlog"} => runner[c] = "off"

\* Before shutdown RunClient alone closes its client, as its last step.
ExitInv == ~closed => \A c \in Conn : exit[c] <=> runner[c] = "done"

ClosedInv == closed <=> closer \notin {"idle", "event", "set"}

SessionInv == /\ CurInv /\ AcceptedInv /\ ExitInv /\ ClosedInv
              /\ HandlersSerialized /\ PanicOnlyInShutdown

\* A client is watched when it is run, and deleted when it has exited.
WatchInv ==
    \A c \in Conn : /\ watcher[c] = "off" <=> runner[c] = "off"
                    /\ watcher[c] \in {"delete", "done"} => exit[c]

\* app.clients holds clients under their own address, from registration to
\* deletion.
EntryInv ==
    \A c \in Conn :
        /\ sock[c] = "free" <=> addr[c] = None
        /\ \A a \in Addr : clients[a] = c => addr[c] = a
        /\ Registered(c) /\ watcher[c] = "off" => cur = c /\ acc = "start"
        /\ watcher[c] = "done" => ~Registered(c)

\* SessionsRegistered, from the moment of registration on.
PresentInv ==
    \A c \in Conn :
        /\ \/ runner[c] # "off" /\ watcher[c] = "wait"
           \/ cur = c /\ acc = "start"
        /\ \A d \in Conn \ {c} : addr[d] # addr[c]
        => clients[addr[c]] = c

RegistryInv == /\ CurInv /\ AcceptedInv
               /\ WatchInv /\ EntryInv /\ PresentInv

\* A client is closed only after its registration; once accepted, its socket
\* is closed only together with its channels; of two connections with one
\* address one is closed or has lost its peer, and if one is being registered
\* it is the other, or the other is still to be accepted.
ClosedTogether ==
    \A c \in Conn :
        /\ exit[c] => runner[c] # "off" \/ (cur = c /\ acc = "start")
        /\ sock[c] = "closed" /\ (runner[c] # "off" \/ cur = c) => exit[c]
        /\ \A d \in Conn \ {c} : addr[c] = addr[d] /\ addr[c] # None =>
             /\ Vacated(c) \/ Vacated(d)
             /\ cur = c => sock[d] = "backlog" \/ Vacated(d)

-----------------------------------------------------------------------------

\* The variables of every tuple, so that an UNCHANGED can be used.
USE DEF appVars, accVars, closeVars, netVars, chanVars, runVars, mainVars,
        sessVars, vars

\* The sets of control states.
USE DEF ProcStates, SockStates, AccStates, CloserStates, LoggerStates,
        RunnerStates, WatcherStates

\* The bound on requests as a fact that the provers can use.
LEMMA MaxRequestsNat == MaxRequests \in Nat
  BY ConstantsAssumption DEF ConstantsAssumption

\* Every action keeps every variable in its type.
LEMMA TypeStep == TypeOK /\ [Next]_vars => TypeOK'
<1> SUFFICES ASSUME TypeOK, [Next]_vars PROVE TypeOK'
  OBVIOUS
<1>1. CASE LoggerTest
  BY <1>1 DEF TypeOK, LoggerTest
<1>2. CASE AcceptInfo
  BY <1>2 DEF TypeOK, AcceptInfo, LoggerReceive
<1>3. CASE AcceptTest
  BY <1>3 DEF TypeOK, AcceptTest
<1>4. CASE AcceptFails
  BY <1>4 DEF TypeOK, AcceptFails
<1>5. CASE AcceptEvent
  BY <1>5 DEF TypeOK, AcceptEvent, LoggerReceive
<1>6. CASE RegisterClient
  BY <1>6, ZenonT(60) DEF TypeOK, RegisterClient
<1>7. CASE StartClient
  BY <1>7 DEF TypeOK, StartClient
<1>8. CASE Signal
  BY <1>8 DEF TypeOK, Signal
<1>9. CASE CloseEvent
  BY <1>9 DEF TypeOK, CloseEvent, LoggerReceive
<1>10. CASE SetClosed
  BY <1>10 DEF TypeOK, SetClosed
<1>11. CASE RangeDone
  BY <1>11 DEF TypeOK, RangeDone
<1>12. CASE UnloadAndCloseListener
  BY <1>12, ZenonT(60) DEF TypeOK, UnloadAndCloseListener
<1>13. CASE CloseQuit
  BY <1>13 DEF TypeOK, CloseQuit
<1>14. CASE QuitExit
  BY <1>14 DEF TypeOK, QuitExit
<1>15. CASE MapRace
  BY <1>15 DEF TypeOK, MapRace
<1>16. ASSUME NEW c \in Conn, AcceptTCP(c) PROVE TypeOK'
  BY <1>16 DEF TypeOK, AcceptTCP
<1>17. ASSUME NEW c \in Conn, ReadRequest(c) PROVE TypeOK'
  <2>1. requests' \in 0..MaxRequests
    BY <1>17, MaxRequestsNat DEF TypeOK, ReadRequest
  <2>2. runner' \in [Conn -> RunnerStates] /\ hrun' \in [Conn -> Nat]
    BY <1>17 DEF TypeOK, ReadRequest
  <2> QED
    BY <1>17, <2>1, <2>2 DEF TypeOK, ReadRequest
<1>18. ASSUME NEW c \in Conn, ReadEOF(c) PROVE TypeOK'
  BY <1>18 DEF TypeOK, ReadEOF
<1>19. ASSUME NEW c \in Conn, ReadClosed(c) PROVE TypeOK'
  BY <1>19 DEF TypeOK, ReadClosed
<1>20. ASSUME NEW c \in Conn, ReadError(c) PROVE TypeOK'
  BY <1>20 DEF TypeOK, ReadError
<1>21. ASSUME NEW c \in Conn, InlineHandler(c) PROVE TypeOK'
  BY <1>21 DEF TypeOK, InlineHandler
<1>22. ASSUME NEW c \in Conn, RunnerEvent(c) PROVE TypeOK'
  BY <1>22 DEF TypeOK, RunnerEvent, LoggerReceive
<1>23. ASSUME NEW c \in Conn, RunnerClose(c) PROVE TypeOK'
  BY <1>23 DEF TypeOK, RunnerClose, NetworkClientClose
<1>24. ASSUME NEW c \in Conn, AwaitClosed(c) PROVE TypeOK'
  BY <1>24 DEF TypeOK, AwaitClosed
<1>25. ASSUME NEW c \in Conn, HandlerReturns(c) PROVE TypeOK'
  BY <1>25 DEF TypeOK, HandlerReturns
<1>26. ASSUME NEW c \in Conn, HandlerReply(c) PROVE TypeOK'
  BY <1>26 DEF TypeOK, HandlerReply
<1>27. ASSUME NEW c \in Conn, HandlerSendPanics(c) PROVE TypeOK'
  BY <1>27 DEF TypeOK, HandlerSendPanics
<1>28. ASSUME NEW c \in Conn, WatchExit(c) PROVE TypeOK'
  BY <1>28 DEF TypeOK, WatchExit
<1>29. ASSUME NEW c \in Conn, WatchDelete(c) PROVE TypeOK'
  <2>1. clients' \in [Addr -> Conn \cup {None}]
    BY <1>29 DEF TypeOK, WatchDelete
  <2>2. visited' \in SUBSET Addr /\ ranged' \in SUBSET Addr
    BY <1>29 DEF TypeOK, WatchDelete
  <2>3. watcher' \in [Conn -> WatcherStates]
    BY <1>29 DEF TypeOK, WatchDelete
  <2> QED
    BY <1>29, <2>1, <2>2, <2>3 DEF TypeOK, WatchDelete
<1>30. ASSUME NEW c \in Conn, HangUp(c) PROVE TypeOK'
  BY <1>30 DEF TypeOK, HangUp
<1>31. ASSUME NEW a \in Addr, CloseNext(a) PROVE TypeOK'
  BY <1>31 DEF TypeOK, CloseNext, NetworkClientClose
<1>32. ASSUME NEW c \in Conn, NEW a \in Addr, Dial(c, a) PROVE TypeOK'
  BY <1>32 DEF TypeOK, Dial
<1>33. CASE UNCHANGED vars
  BY <1>33 DEF TypeOK
<1> QED
  BY <1>1, <1>2, <1>3, <1>4, <1>5, <1>6, <1>7, <1>8, <1>9, <1>10, <1>11, <1>12, <1>13, <1>14, <1>15, <1>16, <1>17, <1>18, <1>19, <1>20, <1>21, <1>22, <1>23, <1>24, <1>25, <1>26, <1>27, <1>28, <1>29, <1>30, <1>31, <1>32, <1>33
     DEF Next, Accepting, Session, Closing, Terminated

\* TypeOK is an invariant of the server.
THEOREM TypeCorrect == Spec => []TypeOK
<1>1. Init => TypeOK
  <2>1. MaxRequests \in 0..MaxRequests
    BY MaxRequestsNat
  <2> SUFFICES ASSUME Init PROVE TypeOK
    OBVIOUS
  <2>2. /\ proc \in ProcStates /\ acc \in AccStates /\ cur \in Conn \cup {None}
        /\ closer \in CloserStates /\ logger \in LoggerStates
        /\ visited \in SUBSET Addr /\ ranged \in SUBSET Addr
    BY DEF Init
  <2>3. /\ clients \in [Addr -> Conn \cup {None}] /\ sock \in [Conn -> SockStates]
        /\ peer \in [Conn -> {"up", "gone"}] /\ exit \in [Conn -> BOOLEAN]
        /\ addr \in [Conn -> Addr \cup {None}]
    BY DEF Init
  <2>4. /\ runner \in [Conn -> RunnerStates] /\ hrun \in [Conn -> Nat]
        /\ hsend \in [Conn -> Nat] /\ watcher \in [Conn -> WatcherStates]
    BY DEF Init
  <2> QED
    BY <2>1, <2>2, <2>3, <2>4 DEF Init, TypeOK
<1> QED
  BY <1>1, TypeStep, PTL DEF Spec

-----------------------------------------------------------------------------
\* Sessions: before app.Close starts closing clients, RunClient is the only
\* one that closes its client, which it does last, when no handler is left.
LEMMA SessionStep == TypeOK /\ SessionInv /\ [Next]_vars => SessionInv'
<1> SUFFICES ASSUME TypeOK, SessionInv, [Next]_vars PROVE SessionInv'
  OBVIOUS
<1> USE ConstantsAssumption
    DEF TypeOK, SessionInv, CurInv, AcceptedInv, ExitInv, ClosedInv,
        HandlersSerialized, PanicOnlyInShutdown
<1>1. CASE LoggerTest
  BY <1>1 DEF LoggerTest
<1>2. CASE AcceptInfo
  BY <1>2 DEF AcceptInfo, LoggerReceive
<1>3. CASE AcceptTest
  BY <1>3 DEF AcceptTest
<1>4. CASE AcceptFails
  BY <1>4 DEF AcceptFails
<1>5. CASE AcceptEvent
  BY <1>5 DEF AcceptEvent, LoggerReceive
<1>6. CASE RegisterClient
  BY <1>6 DEF RegisterClient
<1>7. CASE StartClient
  BY <1>7 DEF StartClient
<1>8. CASE Signal
  BY <1>8 DEF Signal
<1>9. CASE CloseEvent
  BY <1>9 DEF CloseEvent, LoggerReceive
<1>10. CASE SetClosed
  BY <1>10 DEF SetClosed
<1>11. CASE RangeDone
  BY <1>11 DEF RangeDone
<1>12. CASE UnloadAndCloseListener
  BY <1>12 DEF UnloadAndCloseListener
<1>13. CASE CloseQuit
  BY <1>13 DEF CloseQuit
<1>14. CASE QuitExit
  BY <1>14 DEF QuitExit
<1>15. CASE MapRace
  BY <1>15 DEF MapRace
<1>16. ASSUME NEW c \in Conn, AcceptTCP(c) PROVE SessionInv'
  BY <1>16 DEF AcceptTCP
<1>17. ASSUME NEW c \in Conn, ReadRequest(c) PROVE SessionInv'
  <2>1. CASE UNCHANGED hrun
    <3>1. PICK s \in {"close", "evAccept", "evFatal", "handle", "read"} :
            runner' = [runner EXCEPT ![c] = s]
      BY <1>17, <2>1 DEF ReadRequest
    <3> QED
      BY <1>17, <2>1, <3>1 DEF ReadRequest
  <2>2. CASE /\ runner' = [runner EXCEPT ![c] = "await"]
             /\ hrun' = [hrun EXCEPT ![c] = @ + 1]
    BY <1>17, <2>2 DEF ReadRequest
  <2> QED
    BY <1>17, <2>1, <2>2 DEF ReadRequest
<1>18. ASSUME NEW c \in Conn, ReadEOF(c) PROVE SessionInv'
  BY <1>18 DEF ReadEOF
<1>19. ASSUME NEW c \in Conn, ReadClosed(c) PROVE SessionInv'
  BY <1>19 DEF ReadClosed
<1>20. ASSUME NEW c \in Conn, ReadError(c) PROVE SessionInv'
  BY <1>20 DEF ReadError
<1>21. ASSUME NEW c \in Conn, InlineHandler(c) PROVE SessionInv'
  BY <1>21 DEF InlineHandler
<1>22. ASSUME NEW c \in Conn, RunnerEvent(c) PROVE SessionInv'
  BY <1>22 DEF RunnerEvent, LoggerReceive
<1>23. ASSUME NEW c \in Conn, RunnerClose(c) PROVE SessionInv'
  BY <1>23 DEF RunnerClose, NetworkClientClose
<1>24. ASSUME NEW c \in Conn, AwaitClosed(c) PROVE SessionInv'
  BY <1>24 DEF AwaitClosed
<1>25. ASSUME NEW c \in Conn, HandlerReturns(c) PROVE SessionInv'
  BY <1>25 DEF HandlerReturns
<1>26. ASSUME NEW c \in Conn, HandlerReply(c) PROVE SessionInv'
  BY <1>26 DEF HandlerReply
<1>27. ASSUME NEW c \in Conn, HandlerSendPanics(c) PROVE SessionInv'
  BY <1>27 DEF HandlerSendPanics, Running
<1>28. ASSUME NEW c \in Conn, WatchExit(c) PROVE SessionInv'
  BY <1>28 DEF WatchExit
<1>29. ASSUME NEW c \in Conn, WatchDelete(c) PROVE SessionInv'
  BY <1>29 DEF WatchDelete
<1>30. ASSUME NEW c \in Conn, HangUp(c) PROVE SessionInv'
  BY <1>30 DEF HangUp
<1>31. ASSUME NEW a \in Addr, CloseNext(a) PROVE SessionInv'
  BY <1>31 DEF CloseNext, NetworkClientClose
<1>32. ASSUME NEW c \in Conn, NEW a \in Addr, Dial(c, a) PROVE SessionInv'
  BY <1>32 DEF Dial
<1>33. CASE UNCHANGED vars
  BY <1>33
<1> QED
  BY <1>1, <1>2, <1>3, <1>4, <1>5, <1>6, <1>7, <1>8, <1>9, <1>10, <1>11,
     <1>12, <1>13, <1>14, <1>15, <1>16, <1>17, <1>18, <1>19, <1>20, <1>21,
     <1>22, <1>23, <1>24, <1>25, <1>26, <1>27, <1>28, <1>29, <1>30, <1>31,
     <1>32, <1>33
     DEF Next, Accepting, Session, Closing, Terminated

\* SessionInv is an invariant of the server.
LEMMA SessionCorrect == Spec => []SessionInv
<1>1. Init => SessionInv
  BY ConstantsAssumption
     DEF Init, SessionInv, CurInv, AcceptedInv, ExitInv, ClosedInv,
         HandlersSerialized, PanicOnlyInShutdown
<1> QED
  BY <1>1, SessionStep, TypeCorrect, PTL DEF Spec

\* No session can panic the process until app.Close begins to close clients:
\* no client is closed twice and no handler sends on a closed reqErr.
THEOREM NoPanicBeforeShutdown == Spec => []PanicOnlyInShutdown
<1>1. SessionInv => PanicOnlyInShutdown
  BY DEF SessionInv
<1> QED
  BY <1>1, SessionCorrect, PTL

\* Until then, a client's handler goroutine exists exactly while RunClient
\* waits for its answer: requests of one connection never run concurrently.
THEOREM RequestsSerialized == Spec => []HandlersSerialized
<1>1. SessionInv => HandlersSerialized
  BY DEF SessionInv
<1> QED
  BY <1>1, SessionCorrect, PTL

-----------------------------------------------------------------------------
\* The registry: an entry of app.clients is under its client's address and is
\* there from registration until the client's watcher deletes it, or the
\* address is used again.
LEMMA RegistryStep == TypeOK /\ RegistryInv /\ [Next]_vars => RegistryInv'
<1> SUFFICES ASSUME TypeOK, RegistryInv, [Next]_vars PROVE RegistryInv'
  OBVIOUS
<1> USE ConstantsAssumption
    DEF TypeOK, RegistryInv, CurInv, AcceptedInv, WatchInv, EntryInv,
        PresentInv, Registered
<1>1. CASE LoggerTest
  BY <1>1 DEF LoggerTest
<1>2. CASE AcceptInfo
  BY <1>2 DEF AcceptInfo, LoggerReceive
<1>3. CASE AcceptTest
  BY <1>3 DEF AcceptTest
<1>4. CASE AcceptFails
  BY <1>4 DEF AcceptFails
<1>5. CASE AcceptEvent
  BY <1>5 DEF AcceptEvent, LoggerReceive
<1>6. CASE RegisterClient
  BY <1>6 DEF RegisterClient
<1>7. CASE StartClient
  BY <1>7 DEF StartClient
<1>8. CASE Signal
  BY <1>8 DEF Signal
<1>9. CASE CloseEvent
  BY <1>9 DEF CloseEvent, LoggerReceive
<1>10. CASE SetClosed
  BY <1>10 DEF SetClosed
<1>11. CASE RangeDone
  BY <1>11 DEF RangeDone
<1>12. CASE UnloadAndCloseListener
  BY <1>12 DEF UnloadAndCloseListener
<1>13. CASE CloseQuit
  BY <1>13 DEF CloseQuit
<1>14. CASE QuitExit
  BY <1>14 DEF QuitExit
<1>15. CASE MapRace
  BY <1>15 DEF MapRace
<1>16. ASSUME NEW c \in Conn, AcceptTCP(c) PROVE RegistryInv'
  BY <1>16 DEF AcceptTCP
<1>17. ASSUME NEW c \in Conn, ReadRequest(c) PROVE RegistryInv'
  BY <1>17 DEF ReadRequest
<1>18. ASSUME NEW c \in Conn, ReadEOF(c) PROVE RegistryInv'
  BY <1>18 DEF ReadEOF
<1>19. ASSUME NEW c \in Conn, ReadClosed(c) PROVE RegistryInv'
  BY <1>19 DEF ReadClosed
<1>20. ASSUME NEW c \in Conn, ReadError(c) PROVE RegistryInv'
  BY <1>20 DEF ReadError
<1>21. ASSUME NEW c \in Conn, InlineHandler(c) PROVE RegistryInv'
  BY <1>21 DEF InlineHandler
<1>22. ASSUME NEW c \in Conn, RunnerEvent(c) PROVE RegistryInv'
  BY <1>22 DEF RunnerEvent, LoggerReceive
<1>23. ASSUME NEW c \in Conn, RunnerClose(c) PROVE RegistryInv'
  BY <1>23 DEF RunnerClose, NetworkClientClose
<1>24. ASSUME NEW c \in Conn, AwaitClosed(c) PROVE RegistryInv'
  BY <1>24 DEF AwaitClosed
<1>25. ASSUME NEW c \in Conn, HandlerReturns(c) PROVE RegistryInv'
  BY <1>25 DEF HandlerReturns
<1>26. ASSUME NEW c \in Conn, HandlerReply(c) PROVE RegistryInv'
  BY <1>26 DEF HandlerReply
<1>27. ASSUME NEW c \in Conn, HandlerSendPanics(c) PROVE RegistryInv'
  BY <1>27 DEF HandlerSendPanics, Running
<1>28. ASSUME NEW c \in Conn, WatchExit(c) PROVE RegistryInv'
  BY <1>28 DEF WatchExit
<1>29. ASSUME NEW c \in Conn, WatchDelete(c) PROVE RegistryInv'
  BY <1>29 DEF WatchDelete
<1>30. ASSUME NEW c \in Conn, HangUp(c) PROVE RegistryInv'
  BY <1>30 DEF HangUp
<1>31. ASSUME NEW a \in Addr, CloseNext(a) PROVE RegistryInv'
  BY <1>31 DEF CloseNext, NetworkClientClose
<1>32. ASSUME NEW c \in Conn, NEW a \in Addr, Dial(c, a) PROVE RegistryInv'
  BY <1>32 DEF Dial
<1>33. CASE UNCHANGED vars
  BY <1>33
<1> QED
  BY <1>1, <1>2, <1>3, <1>4, <1>5, <1>6, <1>7, <1>8, <1>9, <1>10, <1>11,
     <1>12, <1>13, <1>14, <1>15, <1>16, <1>17, <1>18, <1>19, <1>20, <1>21,
     <1>22, <1>23, <1>24, <1>25, <1>26, <1>27, <1>28, <1>29, <1>30, <1>31,
     <1>32, <1>33
     DEF Next, Accepting, Session, Closing, Terminated

\* RegistryInv is an invariant of the server.
LEMMA RegistryCorrect == Spec => []RegistryInv
<1>1. Init => RegistryInv
  BY ConstantsAssumption
     DEF Init, RegistryInv, CurInv, AcceptedInv, WatchInv, EntryInv,
         PresentInv, Registered
<1> QED
  BY <1>1, RegistryStep, TypeCorrect, PTL DEF Spec

\* A closed client is in app.clients only while its watcher has still to
\* delete it, and a watcher that has finished left no entry of it behind.
THEOREM DeadEntriesWatched == Spec => []ClosedClientsReaped
<1>1. TypeOK /\ RegistryInv => ClosedClientsReaped
  BY DEF TypeOK, RegistryInv, CurInv, WatchInv, EntryInv, ClosedClientsReaped
<1> QED
  BY <1>1, RegistryCorrect, TypeCorrect, PTL

\* A session that has not been closed is in app.clients under its address,
\* unless some other connection had the same address.
THEOREM LiveSessionsRegistered == Spec => []SessionsRegistered
<1>1. TypeOK /\ RegistryInv => SessionsRegistered
  BY DEF TypeOK, RegistryInv, WatchInv, PresentInv, SessionsRegistered
<1> QED
  BY <1>1, RegistryCorrect, TypeCorrect, PTL

-----------------------------------------------------------------------------
(* The server implements the abstract registry.                            *)

\* A socket of an accepted connection is closed together with its channels,
\* and an address is dialled from again only after that or after its peer has
\* left.
LEMMA ClosedStep ==
    TypeOK /\ RegistryInv /\ ClosedTogether /\ [Next]_vars => ClosedTogether'
<1> SUFFICES ASSUME TypeOK, RegistryInv, ClosedTogether, [Next]_vars
             PROVE  ClosedTogether'
  OBVIOUS
<1> USE ConstantsAssumption
    DEF TypeOK, RegistryInv, CurInv, AcceptedInv, WatchInv, EntryInv,
        Registered, ClosedTogether, Vacated
<1>1. CASE LoggerTest
  BY <1>1 DEF LoggerTest
<1>2. CASE AcceptInfo
  BY <1>2 DEF AcceptInfo, LoggerReceive
<1>3. CASE AcceptTest
  BY <1>3 DEF AcceptTest
<1>4. CASE AcceptFails
  BY <1>4 DEF AcceptFails
<1>5. CASE AcceptEvent
  BY <1>5 DEF AcceptEvent, LoggerReceive
<1>6. CASE RegisterClient
  BY <1>6 DEF RegisterClient
<1>7. CASE StartClient
  BY <1>7 DEF StartClient
<1>8. CASE Signal
  BY <1>8 DEF Signal
<1>9. CASE CloseEvent
  BY <1>9 DEF CloseEvent, LoggerReceive
<1>10. CASE SetClosed
  BY <1>10 DEF SetClosed
<1>11. CASE RangeDone
  BY <1>11 DEF RangeDone
<1>12. CASE UnloadAndCloseListener
  BY <1>12 DEF UnloadAndCloseListener
<1>13. CASE CloseQuit
  BY <1>13 DEF CloseQuit
<1>14. CASE QuitExit
  BY <1>14 DEF QuitExit
<1>15. CASE MapRace
  BY <1>15 DEF MapRace
<1>16. ASSUME NEW c \in Conn, AcceptTCP(c) PROVE ClosedTogether'
  BY <1>16 DEF AcceptTCP
<1>17. ASSUME NEW c \in Conn, ReadRequest(c) PROVE ClosedTogether'
  BY <1>17 DEF ReadRequest
<1>18. ASSUME NEW c \in Conn, ReadEOF(c) PROVE ClosedTogether'
  BY <1>18 DEF ReadEOF
<1>19. ASSUME NEW c \in Conn, ReadClosed(c) PROVE ClosedTogether'
  BY <1>19 DEF ReadClosed
<1>20. ASSUME NEW c \in Conn, ReadError(c) PROVE ClosedTogether'
  BY <1>20 DEF ReadError
<1>21. ASSUME NEW c \in Conn, InlineHandler(c) PROVE ClosedTogether'
  BY <1>21 DEF InlineHandler
<1>22. ASSUME NEW c \in Conn, RunnerEvent(c) PROVE ClosedTogether'
  BY <1>22 DEF RunnerEvent, LoggerReceive
<1>23. ASSUME NEW c \in Conn, RunnerClose(c) PROVE ClosedTogether'
  BY <1>23 DEF RunnerClose, NetworkClientClose
<1>24. ASSUME NEW c \in Conn, AwaitClosed(c) PROVE ClosedTogether'
  BY <1>24 DEF AwaitClosed
<1>25. ASSUME NEW c \in Conn, HandlerReturns(c) PROVE ClosedTogether'
  BY <1>25 DEF HandlerReturns
<1>26. ASSUME NEW c \in Conn, HandlerReply(c) PROVE ClosedTogether'
  BY <1>26 DEF HandlerReply
<1>27. ASSUME NEW c \in Conn, HandlerSendPanics(c) PROVE ClosedTogether'
  BY <1>27 DEF HandlerSendPanics
<1>28. ASSUME NEW c \in Conn, WatchExit(c) PROVE ClosedTogether'
  BY <1>28 DEF WatchExit
<1>29. ASSUME NEW c \in Conn, WatchDelete(c) PROVE ClosedTogether'
  BY <1>29 DEF WatchDelete
<1>30. ASSUME NEW c \in Conn, HangUp(c) PROVE ClosedTogether'
  BY <1>30 DEF HangUp
<1>31. ASSUME NEW a \in Addr, CloseNext(a) PROVE ClosedTogether'
  BY <1>31 DEF CloseNext, NetworkClientClose
<1>32. ASSUME NEW c \in Conn, NEW a \in Addr, Dial(c, a) PROVE ClosedTogether'
  BY <1>32 DEF Dial
<1>33. CASE UNCHANGED vars
  BY <1>33
<1> QED
  BY <1>1, <1>2, <1>3, <1>4, <1>5, <1>6, <1>7, <1>8, <1>9, <1>10, <1>11,
     <1>12, <1>13, <1>14, <1>15, <1>16, <1>17, <1>18, <1>19, <1>20, <1>21,
     <1>22, <1>23, <1>24, <1>25, <1>26, <1>27, <1>28, <1>29, <1>30, <1>31,
     <1>32, <1>33
     DEF Next, Accepting, Session, Closing, Terminated

\* ClosedTogether is an invariant of the server.
LEMMA ClosedCorrect == Spec => []ClosedTogether
<1>1. Init => ClosedTogether
  BY ConstantsAssumption DEF Init, ClosedTogether, Vacated
<1> QED
  BY <1>1, ClosedStep, TypeCorrect, RegistryCorrect, PTL DEF Spec

-----------------------------------------------------------------------------
\* A client that is closed, by its RunClient or by app.Close, ends its
\* connection in the registry, or is closed a second time and changes nothing
\* there.
LEMMA CloseImplemented ==
    ASSUME TypeOK, RegistryInv, ClosedTogether, NEW c \in Conn,
           NetworkClientClose(c),
           UNCHANGED <<clients, addr, peer, accVars, watcher>>,
           runner' = runner \/ (runner[c] = "close"
                                /\ runner' = [runner EXCEPT ![c] = "done"]),
           runner[c] = "close" \/ Registered(c)
    PROVE  [Reg!RegNext]_(Reg!regVars)
<1> USE ConstantsAssumption
    DEF TypeOK, RegistryInv, CurInv, AcceptedInv, WatchInv, EntryInv,
        Registered, ClosedTogether, phaseBar, addrBar, Reg!Open
<1>0. \A d \in Conn : runner'[d] = "off" <=> runner[d] = "off"
  OBVIOUS
<1>1. runner[c] # "off" \/ (cur = c /\ acc = "start")
  OBVIOUS
<1>2. CASE exit[c]
  BY <1>1, <1>2 DEF NetworkClientClose, Reg!regVars
<1>3. CASE ~exit[c]
  <2>1. phaseBar[c] \in Reg!Open
    BY <1>1, <1>3
  <2>2. phaseBar' = [phaseBar EXCEPT ![c] = "ended"]
    <3>1. watcher[c] # "done" /\ exit'[c]
      BY <1>3 DEF NetworkClientClose
    <3>2. \A d \in Conn \ {c} : exit'[d] = exit[d]
      BY DEF NetworkClientClose
    <3>3. phaseBar'[c] = "ended"
      BY <3>1
    <3>4. \A d \in Conn \ {c} : phaseBar'[d] = phaseBar[d]
      BY <1>0, <3>2
    <3>5. phaseBar = [d \in Conn |-> phaseBar[d]]
      OBVIOUS
    <3>6. phaseBar' = [d \in Conn |-> phaseBar'[d]]
      OBVIOUS
    <3> HIDE DEF phaseBar
    <3> QED
      BY <3>3, <3>4, <3>5, <3>6
  <2>3. addrBar' = addrBar
    BY <1>1, <1>3 DEF NetworkClientClose
  <2>4. Reg!End(c)
    BY <2>1, <2>2, <2>3 DEF Reg!End
  <2> QED
    BY <2>4 DEF Reg!RegNext
<1> QED
  BY <1>2, <1>3

\* Every step of the server is a step of the registry or leaves it as it is.
LEMMA RegistryImplemented ==
    /\ TypeOK /\ RegistryInv /\ ClosedTogether /\ [Next]_vars
    => [Reg!RegNext]_(Reg!regVars)
<1> SUFFICES ASSUME TypeOK, RegistryInv, ClosedTogether, [Next]_vars
             PROVE  [Reg!RegNext]_(Reg!regVars)
  OBVIOUS
<1> USE ConstantsAssumption
    DEF TypeOK, RegistryInv, CurInv, AcceptedInv, WatchInv, EntryInv,
        Registered, ClosedTogether, Vacated, phaseBar, addrBar, Reg!regVars,
        Reg!Open
<1>1. CASE LoggerTest
  BY <1>1 DEF LoggerTest
<1>2. CASE AcceptInfo
  BY <1>2 DEF AcceptInfo, LoggerReceive
<1>3. CASE AcceptTest
  BY <1>3 DEF AcceptTest
<1>4. CASE AcceptFails
  BY <1>4 DEF AcceptFails
<1>5. CASE AcceptEvent
  BY <1>5 DEF AcceptEvent, LoggerReceive
<1>6. CASE RegisterClient
  <2>1. PICK c \in Conn, a \in Addr : c = cur /\ a = addr[c]
    BY <1>6 DEF RegisterClient
  <2>2. runner[c] = "off" /\ watcher[c] = "off" /\ ~exit[c]
    BY <1>6, <2>1 DEF RegisterClient
  <2>3. phaseBar[c] = "off"
    BY <1>6, <2>1, <2>2 DEF RegisterClient
  <2>4. ASSUME NEW d \in Conn, addrBar[d] = a PROVE phaseBar[d] # "up"
    BY <1>6, <2>1, <2>2, <2>4 DEF RegisterClient
  <2>5. phaseBar' = [phaseBar EXCEPT ![c] =
                       IF peer[c] = "up" THEN "up" ELSE "lost"]
    <3>1. phaseBar'[c] = IF peer[c] = "up" THEN "up" ELSE "lost"
      BY <1>6, <2>1, <2>2 DEF RegisterClient
    <3>2. \A d \in Conn \ {c} : phaseBar'[d] = phaseBar[d]
      BY <1>6, <2>1 DEF RegisterClient
    <3>3. phaseBar = [d \in Conn |-> phaseBar[d]]
      OBVIOUS
    <3>4. phaseBar' = [d \in Conn |-> phaseBar'[d]]
      OBVIOUS
    <3> HIDE DEF phaseBar
    <3> QED
      BY <3>1, <3>2, <3>3, <3>4
  <2>6. addrBar' = [addrBar EXCEPT ![c] = a]
    BY <1>6, <2>1, <2>2 DEF RegisterClient
  <2>7. clients' = [clients EXCEPT ![a] = c]
    BY <1>6, <2>1 DEF RegisterClient
  <2>8. Reg!Register(c, a)
    BY <2>3, <2>4, <2>5, <2>6, <2>7 DEF Reg!Register
  <2> QED
    BY <2>8 DEF Reg!RegNext
<1>7. CASE StartClient
  BY <1>7 DEF StartClient
<1>8. CASE Signal
  BY <1>8 DEF Signal
<1>9. CASE CloseEvent
  BY <1>9 DEF CloseEvent, LoggerReceive
<1>10. CASE SetClosed
  BY <1>10 DEF SetClosed
<1>11. CASE RangeDone
  BY <1>11 DEF RangeDone
<1>12. CASE UnloadAndCloseListener
  BY <1>12 DEF UnloadAndCloseListener
<1>13. CASE CloseQuit
  BY <1>13 DEF CloseQuit
<1>14. CASE QuitExit
  BY <1>14 DEF QuitExit
<1>15. CASE MapRace
  BY <1>15 DEF MapRace
<1>16. ASSUME NEW c \in Conn, AcceptTCP(c) PROVE [Reg!RegNext]_(Reg!regVars)
  BY <1>16 DEF AcceptTCP
<1>17. ASSUME NEW c \in Conn, ReadRequest(c) PROVE [Reg!RegNext]_(Reg!regVars)
  BY <1>17 DEF ReadRequest
<1>18. ASSUME NEW c \in Conn, ReadEOF(c) PROVE [Reg!RegNext]_(Reg!regVars)
  BY <1>18 DEF ReadEOF
<1>19. ASSUME NEW c \in Conn, ReadClosed(c) PROVE [Reg!RegNext]_(Reg!regVars)
  BY <1>19 DEF ReadClosed
<1>20. ASSUME NEW c \in Conn, ReadError(c) PROVE [Reg!RegNext]_(Reg!regVars)
  BY <1>20 DEF ReadError
<1>21. ASSUME NEW c \in Conn, InlineHandler(c) PROVE [Reg!RegNext]_(Reg!regVars)
  BY <1>21 DEF InlineHandler
<1>22. ASSUME NEW c \in Conn, RunnerEvent(c) PROVE [Reg!RegNext]_(Reg!regVars)
  BY <1>22 DEF RunnerEvent, LoggerReceive
<1>23. ASSUME NEW c \in Conn, RunnerClose(c) PROVE [Reg!RegNext]_(Reg!regVars)
  BY <1>23, CloseImplemented DEF RunnerClose
<1>24. ASSUME NEW c \in Conn, AwaitClosed(c) PROVE [Reg!RegNext]_(Reg!regVars)
  BY <1>24 DEF AwaitClosed
<1>25. ASSUME NEW c \in Conn, HandlerReturns(c) PROVE [Reg!RegNext]_(Reg!regVars)
  BY <1>25 DEF HandlerReturns
<1>26. ASSUME NEW c \in Conn, HandlerReply(c) PROVE [Reg!RegNext]_(Reg!regVars)
  BY <1>26 DEF HandlerReply
<1>27. ASSUME NEW c \in Conn, HandlerSendPanics(c) PROVE [Reg!RegNext]_(Reg!regVars)
  BY <1>27 DEF HandlerSendPanics
<1>28. ASSUME NEW c \in Conn, WatchExit(c) PROVE [Reg!RegNext]_(Reg!regVars)
  BY <1>28 DEF WatchExit
<1>29. ASSUME NEW c \in Conn, WatchDelete(c) PROVE [Reg!RegNext]_(Reg!regVars)
  <2>1. exit[c] /\ runner[c] # "off" /\ sock[c] # "free" /\ addr[c] \in Addr
    BY <1>29 DEF WatchDelete
  <2>2. phaseBar[c] = "ended" /\ addrBar[c] = addr[c]
    BY <1>29, <2>1 DEF WatchDelete
  <2>3. phaseBar' = [phaseBar EXCEPT ![c] = "gone"]
    BY <1>29 DEF WatchDelete
  <2>4. addrBar' = addrBar
    BY <1>29, <2>1 DEF WatchDelete
  <2>5. Reg!Unregister(c)
    BY <1>29, <2>2, <2>3, <2>4 DEF Reg!Unregister, WatchDelete
  <2> QED
    BY <2>5 DEF Reg!RegNext
<1>30. ASSUME NEW c \in Conn, HangUp(c) PROVE [Reg!RegNext]_(Reg!regVars)
  <2>1. CASE phaseBar[c] # "up"
    BY <1>30, <2>1 DEF HangUp
  <2>2. CASE phaseBar[c] = "up"
    <3>1. phaseBar' = [phaseBar EXCEPT ![c] = "lost"]
      <4>1. phaseBar'[c] = "lost"
        BY <1>30, <2>2 DEF HangUp
      <4>2. \A d \in Conn \ {c} : phaseBar'[d] = phaseBar[d]
        BY <1>30 DEF HangUp
      <4>3. phaseBar = [d \in Conn |-> phaseBar[d]]
        OBVIOUS
      <4>4. phaseBar' = [d \in Conn |-> phaseBar'[d]]
        OBVIOUS
      <4> HIDE DEF phaseBar
      <4> QED
        BY <4>1, <4>2, <4>3, <4>4
    <3>2. addrBar' = addrBar
      BY <1>30, <2>2 DEF HangUp
    <3>3. Reg!Leave(c)
      BY <1>30, <2>2, <3>1, <3>2 DEF HangUp, Reg!Leave
    <3> QED
      BY <3>3 DEF Reg!RegNext
  <2> QED
    BY <2>1, <2>2
<1>31. ASSUME NEW a \in Addr, CloseNext(a) PROVE [Reg!RegNext]_(Reg!regVars)
  <2>1. clients[a] \in Conn
    BY <1>31 DEF CloseNext
  <2> QED
    BY <1>31, <2>1, CloseImplemented DEF CloseNext
<1>32. ASSUME NEW c \in Conn, NEW a \in Addr, Dial(c, a) PROVE [Reg!RegNext]_(Reg!regVars)
  BY <1>32 DEF Dial
<1>33. CASE UNCHANGED vars
  BY <1>33
<1> QED
  BY <1>1, <1>2, <1>3, <1>4, <1>5, <1>6, <1>7, <1>8, <1>9, <1>10, <1>11,
     <1>12, <1>13, <1>14, <1>15, <1>16, <1>17, <1>18, <1>19, <1>20, <1>21,
     <1>22, <1>23, <1>24, <1>25, <1>26, <1>27, <1>28, <1>29, <1>30, <1>31,
     <1>32, <1>33
     DEF Next, Accepting, Session, Closing, Terminated

\* app.clients, with its accept loop, sessions, watchers and app.Close,
\* implements the abstract registry.
THEOREM ServerImplementsRegistry == Spec => RegistrySpec
<1>1. Init => Reg!RegInit
  BY ConstantsAssumption DEF Init, Reg!RegInit, phaseBar, addrBar
<1> QED
  BY <1>1, RegistryImplemented, TypeCorrect, RegistryCorrect, ClosedCorrect, PTL
     DEF Spec, RegistrySpec, Reg!RegSpec
=============================================================================
