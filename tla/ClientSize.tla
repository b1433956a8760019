----------------------------- MODULE ClientSize -----------------------------
(***************************************************************************)
(* ctx.ClientSize, the number of connected clients that INFO reports.      *)
(* The accept loop counts a client in, its exit watcher counts it out, and *)
(* app.Close counts out every client it closes, all without a lock: each   *)
(* ++ and -- is a load and a store.                                        *)
(*                                                                         *)
(* The life of a client is BroadcastServer's, reduced to what reaches the  *)
(* counter: addresses are not reused, and closing a client twice, which    *)
(* ends the process, is left to that module.                               *)
(***************************************************************************)
EXTENDS Integers, FiniteSets

CONSTANTS Client,   \* clients, each accepted at most once
          None      \* no client

ASSUME ClientAssumption == IsFiniteSet(Client) /\ None \notin Client

VARIABLES
    size,     \* ctx.ClientSize
    acc,      \* accept loop: "test", "accept", "load", "store", "left"
    cur,      \* the client it has just registered
    accReg,   \* the value it has loaded
    stage,    \* each client: "new", "mapped" (in app.clients), "closed"
    watch,    \* its exit watcher: "off", "wait", "load", "store", "done"
    watchReg, \* the value that watcher has loaded
    closing,  \* app.Close: "no", "range", "load", "store", "done"
    owed,     \* clients its range loop is sure to produce
    ranged,   \* clients that app.Close has closed and counted out
    closeReg, \* the value it has loaded
    raced     \* history: an update overwrote one made since it loaded

accVars   == <<acc, cur, accReg>>
watchVars == <<watch, watchReg>>
closeVars == <<closing, owed, ranged, closeReg>>
vars == <<size, accVars, stage, watchVars, closeVars, raced>>

TypeOK ==
    /\ size \in Int
    /\ acc \in {"test", "accept", "load", "store", "left"}
    /\ cur \in Client \cup {None}
    /\ accReg \in Int
    /\ stage \in [Client -> {"new", "mapped", "closed"}]
    /\ watch \in [Client -> {"off", "wait", "load", "store", "done"}]
    /\ watchReg \in [Client -> Int]
    /\ closing \in {"no", "range", "load", "store", "done"}
    /\ owed \in SUBSET Client
    /\ ranged \in SUBSET Client
    /\ closeReg \in Int
    /\ raced \in BOOLEAN

Init ==
    /\ size = 0
    /\ acc = "test" /\ cur = None /\ accReg = 0
    /\ stage = [c \in Client |-> "new"]
    /\ watch = [c \in Client |-> "off"]
    /\ watchReg = [c \in Client |-> 0]
    /\ closing = "no" /\ owed = {} /\ ranged = {} /\ closeReg = 0
    /\ raced = FALSE

\* Once the accept loop has returned from main the process is gone.
Alive == acc # "left"

\* The store of an update by n whose load gave r.
Store(r, n) == size' = r + n /\ raced' = (raced \/ size # r)

-----------------------------------------------------------------------------
(* AcceptConnections                                                       *)

AcceptTest ==
    /\ acc = "test"
    /\ acc' = IF closing = "no" THEN "accept" ELSE "left"
    /\ UNCHANGED <<size, cur, accReg, stage, watchVars, closeVars, raced>>

Register(c) ==
    /\ acc = "accept" /\ stage[c] = "new"
    /\ stage' = [stage EXCEPT ![c] = "mapped"]
    /\ cur' = c
    /\ acc' = "load"
    /\ UNCHANGED <<size, accReg, watchVars, closeVars, raced>>

AcceptLoad ==
    /\ acc = "load"
    /\ accReg' = size
    /\ acc' = "store"
    /\ UNCHANGED <<size, cur, stage, watchVars, closeVars, raced>>

\* The store of ClientSize++; then the watcher and RunClient are started.
AcceptStore ==
    /\ acc = "store"
    /\ Store(accReg, 1)
    /\ watch' = [watch EXCEPT ![cur] = "wait"]
    /\ cur' = None
    /\ acc' = "test"
    /\ UNCHANGED <<accReg, stage, watchReg, closeVars>>

\* RunClient returns and closes its client.
SessionEnds(c) ==
    /\ Alive
    /\ watch[c] = "wait" /\ stage[c] = "mapped"
    /\ stage' = [stage EXCEPT ![c] = "closed"]
    /\ UNCHANGED <<size, accVars, watchVars, closeVars, raced>>

-----------------------------------------------------------------------------
(* The exit watcher                                                        *)

\* <-client.WaitExit() and the delete from app.clients.
WatchDelete(c) ==
    /\ Alive
    /\ watch[c] = "wait" /\ stage[c] = "closed"
    /\ watch' = [watch EXCEPT ![c] = "load"]
    /\ UNCHANGED <<size, accVars, stage, watchReg, closeVars, raced>>

WatchLoad(c) ==
    /\ Alive
    /\ watch[c] = "load"
    /\ watchReg' = [watchReg EXCEPT ![c] = size]
    /\ watch' = [watch EXCEPT ![c] = "store"]
    /\ UNCHANGED <<size, accVars, stage, closeVars, raced>>

\* Variant: the watcher forgets ClientSize--.
WatchStoreForgets(c) ==
    /\ Alive
    /\ watch[c] = "store"
    /\ Store(watchReg[c], 0)
    /\ watch' = [watch EXCEPT ![c] = "done"]
    /\ UNCHANGED <<accVars, stage, watchReg, closeVars>>

WatchStore(c) ==
    /\ Alive
    /\ watch[c] = "store"
    /\ Store(watchReg[c], -1)
    /\ watch' = [watch EXCEPT ![c] = "done"]
    /\ UNCHANGED <<accVars, stage, watchReg, closeVars>>

-----------------------------------------------------------------------------
(* app.Close                                                               *)

CloseBegins ==
    /\ Alive
    /\ closing = "no"
    /\ closing' = "range"
    /\ owed' = {c \in Client : stage[c] = "mapped"}
    /\ UNCHANGED <<size, accVars, stage, watchVars, ranged, closeReg, raced>>

CloseClient(c) ==
    /\ Alive
    /\ closing = "range" /\ stage[c] = "mapped"
    /\ stage' = [stage EXCEPT ![c] = "closed"]
    /\ ranged' = ranged \cup {c}
    /\ closing' = "load"
    /\ UNCHANGED <<size, accVars, watchVars, owed, closeReg, raced>>

CloseLoad ==
    /\ Alive
    /\ closing = "load"
    /\ closeReg' = size
    /\ closing' = "store"
    /\ UNCHANGED <<size, accVars, stage, watchVars, owed, ranged, raced>>

CloseStore ==
    /\ Alive
    /\ closing = "store"
    /\ Store(closeReg, -1)
    /\ closing' = "range"
    /\ UNCHANGED <<accVars, stage, watchVars, owed, ranged, closeReg>>

\* The range loop may miss a client that was registered after it began.
CloseEnds ==
    /\ Alive
    /\ closing = "range"
    /\ \A c \in owed : stage[c] # "mapped"
    /\ closing' = "done"
    /\ UNCHANGED <<size, accVars, stage, watchVars, owed, ranged, closeReg,
                   raced>>

-----------------------------------------------------------------------------
Next == \/ AcceptTest \/ AcceptLoad \/ AcceptStore
        \/ CloseBegins \/ CloseLoad \/ CloseStore \/ CloseEnds
        \/ \E c \in Client : \/ Register(c) \/ SessionEnds(c) \/ CloseClient(c)
                             \/ WatchDelete(c) \/ WatchLoad(c) \/ WatchStore(c)

Spec == Init /\ [][Next]_vars

\* Clients counted in and not yet counted out by their watchers.
Counted == {c \in Client : watch[c] \in {"wait", "load", "store"}}

\* Clients counted out by app.Close.
CountedOut == IF closing \in {"load", "store"} THEN Cardinality(ranged) - 1
                                               ELSE Cardinality(ranged)

\* As long as no two updates overlapped, the counter is the clients counted
\* in and not out by their watcher, less those that app.Close has counted
\* out as well: overlapping updates are the only thing that can make it wrong
\* before shutdown, and shutdown makes it wrong by the clients it closes.
SizeAccounting == ~raced => size = Cardinality(Counted) - CountedOut

\* Inductive strengthening (proofs: module ClientSizeProofs): a client is
\* watched once it is counted in, and closed once before it is counted out.
CountInv ==
    /\ cur # None <=> acc \in {"load", "store"}
    /\ \A c \in Client : /\ cur = c \/ stage[c] = "new" => watch[c] = "off"
                         /\ cur = c => stage[c] # "new"
    /\ \A c \in ranged : stage[c] = "closed"
=============================================================================
