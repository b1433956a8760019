------------------------------ MODULE Registry ------------------------------
(***************************************************************************)
(* What the server's map of clients promises to those that use it: a       *)
(* connection is registered under its address, loses its peer, is closed   *)
(* by the server (at once or later), and its entry is taken out later      *)
(* still, by address, even if another connection has been registered there *)
(* since.  An address is free again, as far as the kernel is concerned,    *)
(* when the connection that had it was closed or lost its peer (by a reset *)
(* for instance): the server may register it while the session of its      *)
(* former holder still runs.                                               *)
(*                                                                         *)
(* BroadcastServer implements this specification (RegistrySpec there), and *)
(* PubSub takes its connections from it.                                   *)
(***************************************************************************)
CONSTANTS
    Conn,   \* connections, each used at most once
    Addr,   \* their addresses; a later connection may reuse one
    None    \* no connection, no address

ASSUME RegistryAssumption == None \notin Conn /\ None \notin Addr

VARIABLES
    clients,   \* address -> connection registered there
    phase,     \* of each connection: "off", "up", "lost" (its peer is gone,
               \* its session runs on), "ended" (closed), "gone" (taken out)
    addr       \* address of each connection that was registered

regVars == <<clients, phase, addr>>

\* The session runs.
Open == {"up", "lost"}

RegTypeOK ==
    /\ clients \in [Addr -> Conn \cup {None}]
    /\ phase \in [Conn -> {"off", "ended", "gone"} \cup Open]
    /\ addr \in [Conn -> Addr \cup {None}]

RegInit ==
    /\ clients = [a \in Addr |-> None]
    /\ phase = [c \in Conn |-> "off"]
    /\ addr = [c \in Conn |-> None]

\* The peer may have left before its connection is registered.
Register(c, a) ==
    /\ phase[c] = "off"
    /\ \A d \in Conn : addr[d] = a => phase[d] # "up"
    /\ \E p \in Open : phase' = [phase EXCEPT ![c] = p]
    /\ addr' = [addr EXCEPT ![c] = a]
    /\ clients' = [clients EXCEPT ![a] = c]

\* The peer is gone.
Leave(c) ==
    /\ phase[c] = "up"
    /\ phase' = [phase EXCEPT ![c] = "lost"]
    /\ UNCHANGED <<clients, addr>>

\* The server closes its end.
End(c) ==
    /\ phase[c] \in Open
    /\ phase' = [phase EXCEPT ![c] = "ended"]
    /\ UNCHANGED <<clients, addr>>

\* Variant: the watcher leaves the entry in the map.
UnregisterLeaves(c) ==
    /\ phase[c] = "ended"
    /\ phase' = [phase EXCEPT ![c] = "gone"]
    /\ UNCHANGED <<clients, addr>>

Unregister(c) ==
    /\ phase[c] = "ended"
    /\ phase' = [phase EXCEPT ![c] = "gone"]
    /\ clients' = [clients EXCEPT ![addr[c]] = None]
    /\ UNCHANGED addr

RegNext == \E c \in Conn : \/ Leave(c) \/ End(c) \/ Unregister(c)
                           \/ \E a \in Addr : Register(c, a)

RegSpec == RegInit /\ [][RegNext]_regVars

-----------------------------------------------------------------------------
(* What follows for the users of the map                                   *)

\* An entry is under its connection's address, and stays no longer than until
\* the connection is taken out: GetClient finds nobody who is gone.
EntriesCurrent ==
    \A a \in Addr : clients[a] # None =>
        /\ addr[clients[a]] = a
        /\ phase[clients[a]] \in Open \cup {"ended"}

\* A connection that is up is found under its address, unless an earlier
\* connection with that address has been taken out.
FoundUnlessShadowed ==
    \A c \in Conn : phase[c] = "up" /\ clients[addr[c]] # c
        => \E d \in Conn \ {c} : addr[d] = addr[c] /\ phase[d] = "gone"

\* An address identifies one connection that is up (and still has its peer).
AddressesExclusive ==
    \A c, d \in Conn : phase[c] = "up" /\ phase[d] = "up" /\ addr[c] = addr[d]
        => c = d

\* The entry under the address of a connection that is up is its own, or has
\* been taken out: nobody else's is found there.
EntryIsOwn ==
    \A c \in Conn : phase[c] = "up" => clients[addr[c]] \in {c, None}

\* The promises together, with the order of a connection's life.
RegistryOK == /\ RegTypeOK
              /\ \A c \in Conn : phase[c] # "off" <=> addr[c] \in Addr
              /\ EntriesCurrent /\ FoundUnlessShadowed /\ AddressesExclusive
              /\ EntryIsOwn
=============================================================================
