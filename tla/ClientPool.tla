----------------------------- MODULE ClientPool -----------------------------
(***************************************************************************)
(* The Go client: a pool of idle connections to the server, and callers    *)
(* that take a connection out, send commands, read replies and put it      *)
(* back.  A ClientConnection dials when it is first used and drops its     *)
(* netClient (finalize) after an error, to dial again at its next use.     *)
(*                                                                         *)
(* Callers are the program's own: Client.Do and Client.DoAsync; the        *)
(* benchmark, which keeps a connection for several commands, one by one,   *)
(* pipelined, or without reading (fire and forget); and SUBSCRIBE of       *)
(* broadcast-cli, which reads for ever.  The pool has a mutex and a        *)
(* connection out of the pool has one user, so a locked call, or one read  *)
(* or write, is one action.                                                *)
(***************************************************************************)
EXTENDS Integers, Sequences, SequencesExt, FiniteSets

CONSTANTS
    Caller,    \* goroutines that use the client
    Conn,      \* ClientConnection objects
    MaxIdle,   \* client.maxIdle
    MaxBatch,  \* bound: commands that a caller sends on one connection
    MaxCmds    \* bound: commands in all

ASSUME PoolAssumption ==
    /\ MaxIdle \in Nat /\ MaxBatch \in Nat /\ MaxCmds \in Nat

VARIABLES
    pool,      \* client.connections, front first
    job,       \* what each caller is doing
    net,       \* c.netClient: "nil", "up", or "down" (the server hung up)
    session,   \* the dial that made it
    inbox,     \* replies sent to it and not yet read, by command
    leaked,    \* connections that Client.DoAsync took and dropped
    planned,   \* commands that callers have set out to send
    sent,      \* commands written so far; names a command
    dials,     \* successful dials so far
    panicked,  \* Read was called without a netClient
    dirty,     \* history: sessions in which a fire-and-forget command was
               \* answered, with an error, or a reply was read in part
    wrong      \* history: sessions in which a caller read another's reply

netVars  == <<net, session, inbox>>
histVars == <<dirty, wrong>>
vars == <<pool, job, netVars, leaked, planned, sent, dials, panicked, histVars>>

Idle == [at |-> "idle"]

\* "single": Do, once or repeatedly; "pipelined": all DoAsync, then all Read;
\* "forget": DoAsync only; "drop": Client.DoAsync, which puts nothing back;
\* "subscribe": DoAsync, whose error is ignored, then Read without end.
Mode == {"single", "pipelined", "forget", "drop", "subscribe"}

Once == {"drop", "subscribe"}               \* one command only
Unanswered == {"forget", "drop", "subscribe"}   \* unless the server rejects it

Job == {Idle} \cup [at : {"send", "read", "put"}, mode : Mode, conn : Conn,
                    left : 0..MaxBatch, owed : Seq(1..MaxCmds)]

Busy == {k \in Caller : job[k] # Idle}
Held == {job[k].conn : k \in Busy}

TypeOK ==
    /\ pool \in Seq(Conn)
    /\ job \in [Caller -> Job]
    /\ net \in [Conn -> {"nil", "up", "down"}]
    /\ session \in [Conn -> 0..dials]
    /\ inbox \in [Conn -> Seq(1..MaxCmds)]
    /\ leaked \subseteq Conn
    /\ planned \in 0..MaxCmds
    /\ sent \in 0..planned
    /\ dials \in Nat
    /\ panicked \in BOOLEAN
    /\ dirty \subseteq 1..dials
    /\ wrong \subseteq 1..dials

Init ==
    /\ pool = <<>>
    /\ job = [k \in Caller |-> Idle]
    /\ net = [o \in Conn |-> "nil"]
    /\ session = [o \in Conn |-> 0]
    /\ inbox = [o \in Conn |-> <<>>]
    /\ leaked = {}
    /\ planned = 0 /\ sent = 0 /\ dials = 0
    /\ panicked = FALSE
    /\ dirty = {} /\ wrong = {}

-----------------------------------------------------------------------------
(* The pool                                                                *)

\* get: the front of the list, or a new object.
Taken == IF pool # <<>> THEN {Head(pool)}
         ELSE Conn \ (Held \cup leaked)

Start(k, mode, n, o) ==
    /\ job' = [job EXCEPT ![k] = [at |-> "send", mode |-> mode, conn |-> o,
                                  left |-> n, owed |-> <<>>]]
    /\ planned' = planned + n
    /\ UNCHANGED <<netVars, leaked, sent, dials, panicked, histVars>>

\* Variant: the connection stays in the list.
GetKeeps(k, mode, n) ==
    /\ ~panicked /\ job[k] = Idle /\ planned + n <= MaxCmds
    /\ \E o \in Taken : Start(k, mode, n, o)
    /\ UNCHANGED pool

Get(k, mode, n) ==
    /\ ~panicked /\ job[k] = Idle /\ planned + n <= MaxCmds
    /\ \E o \in Taken : Start(k, mode, n, o)
    /\ pool' = IF pool = <<>> THEN pool ELSE Tail(pool)

\* finalize of the connections in S.
Finalize(S) ==
    /\ net' = [o \in Conn |-> IF o \in S THEN "nil" ELSE net[o]]
    /\ inbox' = [o \in Conn |-> IF o \in S THEN <<>> ELSE inbox[o]]
    /\ UNCHANGED session

\* Variant: a connection that does not fit is dropped as it is.
PutDrops(k) ==
    /\ ~panicked /\ job[k].at = "put" /\ job[k].mode # "drop"
    /\ pool' = IF Len(pool) >= MaxIdle THEN pool ELSE <<job[k].conn>> \o pool
    /\ job' = [job EXCEPT ![k] = Idle]
    /\ UNCHANGED <<netVars, leaked, planned, sent, dials, panicked, histVars>>

\* put: a connection that does not fit is finalized and dropped.
Put(k) ==
    /\ ~panicked /\ job[k].at = "put" /\ job[k].mode # "drop"
    /\ IF Len(pool) >= MaxIdle
         THEN Finalize({job[k].conn}) /\ UNCHANGED pool
         ELSE pool' = <<job[k].conn>> \o pool /\ UNCHANGED netVars
    /\ job' = [job EXCEPT ![k] = Idle]
    /\ UNCHANGED <<leaked, planned, sent, dials, panicked, histVars>>

\* Client.DoAsync returns without put.
Drop(k) ==
    /\ ~panicked /\ job[k].at = "put" /\ job[k].mode = "drop"
    /\ leaked' = leaked \cup {job[k].conn}
    /\ job' = [job EXCEPT ![k] = Idle]
    /\ UNCHANGED <<pool, netVars, planned, sent, dials, panicked, histVars>>

\* Client.Close finalizes the connections in the pool, not those taken out.
Close ==
    /\ ~panicked /\ pool # <<>>
    /\ Finalize(ToSet(pool))
    /\ pool' = <<>>
    /\ UNCHANGED <<job, leaked, planned, sent, dials, panicked, histVars>>

-----------------------------------------------------------------------------
(* ClientConnection.DoAsync                                                *)

\* DoAsync returns an error; the caller gives up, but for a subscriber.
Fails(k) == job' = [job EXCEPT ![k].at =
                      IF job[k].mode = "subscribe" THEN "read" ELSE "put"]

\* connect dials, or fails and leaves netClient nil.
Connect(k) ==
    /\ ~panicked /\ job[k].at = "send" /\ net[job[k].conn] = "nil"
    /\ LET o == job[k].conn
       IN  \/ /\ net' = [net EXCEPT ![o] = "up"]
              /\ session' = [session EXCEPT ![o] = dials + 1]
              /\ dials' = dials + 1
              /\ UNCHANGED <<job, inbox>>
           \/ Fails(k) /\ UNCHANGED <<netVars, dials>>
    /\ UNCHANGED <<pool, leaked, planned, sent, panicked, histVars>>

\* Variant: the loop writes one command too many.
WrittenTwice(j) ==
    LET left == j.left - 1
        owed == IF j.mode \in Unanswered THEN <<>>
                ELSE Append(j.owed, sent + 1)
    IN  [j EXCEPT !.left = left, !.owed = owed,
                  !.at = IF left >= 0 THEN "send" ELSE "put"]

\* After a command is written: read, write the next, or be done.
Written(j) ==
    LET left == j.left - 1
        owed == IF j.mode \in Unanswered THEN <<>>
                ELSE Append(j.owed, sent + 1)
    IN  [j EXCEPT !.left = left, !.owed = owed,
                  !.at = IF j.mode \in {"single", "subscribe"} THEN "read"
                         ELSE IF left > 0 THEN "send"
                         ELSE IF owed # <<>> THEN "read" ELSE "put"]

\* WriteCommand and Flush succeed.  The server answers a command; one that is
\* sent to be forgotten it answers only if it rejects it.  A connection that
\* the server has closed may accept a command, too.
Write(k) ==
    /\ ~panicked /\ job[k].at = "send" /\ net[job[k].conn] # "nil"
    /\ LET o == job[k].conn
           answered == [inbox EXCEPT ![o] = Append(@, sent + 1)]
       IN  \/ /\ net[o] = "up" /\ inbox' = answered
              /\ dirty' = IF job[k].mode \in Unanswered
                            THEN dirty \cup {session[o]} ELSE dirty
           \/ /\ net[o] = "down" \/ job[k].mode \in Unanswered
              /\ UNCHANGED <<inbox, dirty>>
    /\ job' = [job EXCEPT ![k] = Written(@)]
    /\ sent' = sent + 1
    /\ UNCHANGED <<pool, net, session, leaked, planned, dials, panicked, wrong>>

\* Variant: Do reads although DoAsync has failed.
WriteFailsReads(k) ==
    /\ ~panicked /\ job[k].at = "send" /\ net[job[k].conn] = "down"
    /\ Finalize({job[k].conn})
    /\ job' = [job EXCEPT ![k].at = IF job[k].mode = "single" THEN "read" ELSE "put"]
    /\ UNCHANGED <<pool, leaked, planned, sent, dials, panicked, histVars>>

\* WriteCommand or Flush fails.
WriteFails(k) ==
    /\ ~panicked /\ job[k].at = "send" /\ net[job[k].conn] = "down"
    /\ Finalize({job[k].conn})
    /\ Fails(k)
    /\ UNCHANGED <<pool, leaked, planned, sent, dials, panicked, histVars>>

-----------------------------------------------------------------------------
(* ClientConnection.Read                                                   *)

\* After a reply: read the next, send the next, or be done.
WasRead(j) ==
    LET owed == Tail(j.owed)
    IN  IF j.mode = "subscribe" THEN j
        ELSE [j EXCEPT !.owed = owed,
                       !.at = IF owed # <<>> THEN "read"
                              ELSE IF j.left > 0 THEN "send" ELSE "put"]

\* ReadInterface returns a reply, or the first line of one whose text has line
\* breaks (module Conversation): the rest is left, and read as a reply.  A
\* request that the server takes for several leaves as many replies.
Read(k) ==
    /\ ~panicked /\ job[k].at = "read"
    /\ LET o == job[k].conn
       IN  /\ net[o] # "nil" /\ inbox[o] # <<>>
           /\ \/ inbox' = [inbox EXCEPT ![o] = Tail(@)] /\ UNCHANGED dirty
              \/ dirty' = dirty \cup {session[o]} /\ UNCHANGED inbox
           /\ wrong' = IF \/ job[k].mode = "subscribe"
                          \/ Head(inbox[o]) = Head(job[k].owed)
                         THEN wrong ELSE wrong \cup {session[o]}
    /\ job' = [job EXCEPT ![k] = WasRead(@)]
    /\ UNCHANGED <<pool, net, session, leaked, planned, sent, dials, panicked>>

\* Variant: the connection is kept after a read error.
ReadFailsKeeps(k) ==
    /\ ~panicked /\ job[k].at = "read" /\ net[job[k].conn] # "nil"
    /\ inbox[job[k].conn] # <<>> \/ net[job[k].conn] = "down"
    /\ IF job[k].mode \in {"pipelined", "subscribe"}
         THEN job' = [job EXCEPT ![k] = WasRead(@)] ELSE Fails(k)
    /\ UNCHANGED <<pool, netVars, leaked, planned, sent, dials, panicked,
                   histVars>>

\* ReadInterface fails: on a reply it cannot parse (one longer than the read
\* buffer, say), or at the end of a closed connection.  Do returns the error;
\* the benchmark's pipeline and the subscriber ignore it and read on.
ReadFails(k) ==
    /\ ~panicked /\ job[k].at = "read" /\ net[job[k].conn] # "nil"
    /\ inbox[job[k].conn] # <<>> \/ net[job[k].conn] = "down"
    /\ Finalize({job[k].conn})
    /\ IF job[k].mode \in {"pipelined", "subscribe"}
         THEN job' = [job EXCEPT ![k] = WasRead(@)] ELSE Fails(k)
    /\ UNCHANGED <<pool, leaked, planned, sent, dials, panicked, histVars>>

\* c.netClient.ReadInterface() on a nil netClient.
ReadPanics(k) ==
    /\ ~panicked /\ job[k].at = "read" /\ net[job[k].conn] = "nil"
    /\ panicked' = TRUE
    /\ UNCHANGED <<pool, job, netVars, leaked, planned, sent, dials, histVars>>

-----------------------------------------------------------------------------
\* The server (external) hangs up; replies that are under way may be lost.
HangUp(o) ==
    /\ ~panicked /\ net[o] = "up"
    /\ net' = [net EXCEPT ![o] = "down"]
    /\ \E n \in 0..Len(inbox[o]) :
         inbox' = [inbox EXCEPT ![o] = SubSeq(@, 1, n)]
    /\ UNCHANGED <<pool, job, session, leaked, planned, sent, dials, panicked,
                   histVars>>

\* The server (external) sends a subscriber a message.
Push(k) ==
    /\ ~panicked /\ job[k].at = "read" /\ job[k].mode = "subscribe"
    /\ net[job[k].conn] = "up" /\ inbox[job[k].conn] = <<>>
    /\ inbox' = [inbox EXCEPT ![job[k].conn] = <<sent>>]
    /\ UNCHANGED <<pool, job, net, session, leaked, planned, sent, dials,
                   panicked, histVars>>

Next == \/ Close
        \/ \E k \in Caller :
             \/ \E mode \in Mode, n \in 1..MaxBatch :
                  (mode \in Once => n = 1) /\ Get(k, mode, n)
             \/ Put(k) \/ Drop(k) \/ Connect(k)
             \/ Write(k) \/ WriteFails(k)
             \/ Read(k) \/ ReadFails(k) \/ ReadPanics(k) \/ Push(k)
        \/ \E o \in Conn : HangUp(o)

Spec == Init /\ [][Next]_vars

-----------------------------------------------------------------------------
(* Properties                                                              *)

\* A connection has one user at most: it is not in the pool twice, nor in the
\* pool and in use, nor used by two callers, nor used after it was dropped.
Exclusive ==
    /\ IsInjective(pool)
    /\ ToSet(pool) \cap (Held \cup leaked) = {}
    /\ Held \cap leaked = {}
    /\ \A k, l \in Busy : k # l => job[k].conn # job[l].conn

\* A caller reads the replies to its own commands, whatever failed before on
\* the connection and whoever used it, unless a fire-and-forget command was
\* answered with an error, which stays unread on the connection, or a reply
\* with a line break was read in part.
OwnReplies == wrong \subseteq dirty

\* Do never calls Read on a connection without a netClient: whatever fails, and
\* whoever puts, drops or finalizes connections meanwhile.  Only the
\* benchmark's pipeline and the subscriber of broadcast-cli, which read on
\* after a failed call, can.
DoHasNetClient ==
    \A k \in Busy : job[k].at = "read" /\ net[job[k].conn] = "nil"
                     => job[k].mode \in {"pipelined", "subscribe"}

\* The sockets that are open are those of the idle connections, at most
\* maxIdle, one per busy caller, and the ones Client.DoAsync left behind.
SocketsBounded ==
    Cardinality({o \in Conn : net[o] # "nil"})
      <= MaxIdle + Cardinality(Busy) + Cardinality(leaked)
=============================================================================
