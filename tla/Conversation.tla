---------------------------- MODULE Conversation ----------------------------
(***************************************************************************)
(* One caller, a Go program that uses the client library or broadcast-cli, *)
(* talks to a server over the wire format of module Codec.  The caller     *)
(* asks with Client.Do, which writes a command and reads one reply, or     *)
(* with Client.DoAsync, which reads none and abandons its connection.  The *)
(* server reads a request, runs its handler (the default backend, KEYS and *)
(* COUNT) and flushes the reply.                                           *)
(*                                                                         *)
(* The pool keeps one idle connection (module ClientPool has the others),  *)
(* and what may go wrong around a session is in module BroadcastServer:    *)
(* here every step succeeds unless what is on the wire makes it fail.      *)
(***************************************************************************)
EXTENDS Codec, FiniteSets

CONSTANTS
    Protocols,   \* protocols both sides may use: "redis", "line", "interface"
    Items,       \* texts typed at the prompt of broadcast-cli
    Values,      \* arguments a Go program passes
    MaxKeys,     \* bound: keys in the stats backend
    MaxCalls     \* bound: calls the caller makes

Connections == 1..MaxCalls + 1

VARIABLES
    protocol,    \* the protocol of client and server
    cli,         \* the caller is broadcast-cli
    keys,        \* number of keys in the stats backend
    known,       \* the caller knows the fire-and-forget commands
    at,          \* caller: "start" (of the cli), "prompt", "await"
    calls,       \* calls so far
    conn,        \* connection in use or pooled, 0 if there is none
    used,        \* connections dialled so far
    hung,        \* connections the client has closed
    req, rep,    \* bytes on their way to the server, to the client
    session,     \* RunClient of each connection: "run" or "over"
    asked,       \* history: the last call
    result,      \* history: what it returned
    sent,        \* history: calls the server has still to read
    misread,     \* history: connections on which it read something else
    texts        \* history: texts sent on each connection

netVars  == <<req, rep, session, hung>>
histVars == <<sent, misread, texts>>
vars == <<protocol, cli, keys, known, at, calls, conn, used, netVars, asked,
          result, histVars>>

Nothing == [type |-> "none"]      \* no result yet
Failed  == [type |-> "failed"]    \* Do returned an error

\* Command names, of more than one byte.
PING  == <<"PI", "NG">>
ECHO  == <<"EC", "HO">>
INFO  == <<"IN", "FO">>
CMDS  == <<"CM", "DS">>
KEYS  == <<"KE", "YS">>
COUNT == <<"CO", "UNT">>
QUIT  == <<"QU", "IT">>
NOPE  == <<"NO", "PE">>   \* a command that is not registered
Commands == {PING, ECHO, INFO, CMDS, KEYS, COUNT, QUIT}

Call(cmd, args) == [cmd |-> cmd, args |-> args]

\* What the cli makes of an item of the line, without its quotes (floats as
\* in Codec).
CliArg(item) ==
    IF IsInt(item) THEN Int64(ParseInt64(item))
    ELSE IF IsFloat(item) THEN Float(ParseFloat64(item))
    ELSE IF item \in {<<"t">>, <<"T">>, <<"true">>, <<"True">>, <<"TRUE">>}
      THEN Bool(TRUE)
    ELSE IF item \in {<<"f">>, <<"F">>, <<"false">>, <<"False">>, <<"FALSE">>}
      THEN Bool(FALSE)
    ELSE String(item)

\* The calls of interest: ECHO with up to two arguments, COUNT rightly and
\* wrongly used, and commands that take none.
Calls(values) ==
    {Call(cmd, <<>>) : cmd \in {PING, ECHO, INFO, KEYS, COUNT, QUIT, NOPE}}
    \cup {Call(ECHO, <<v>>) : v \in values}
    \cup {Call(ECHO, <<v, w>>) : v, w \in {u \in values : u.type = "string"}}
    \cup {Call(COUNT, <<v, w>>) : v, w \in {String(<<"a">>), Int64(12)}}

FireForget == {COUNT}

\* What the handlers write, and the key that COUNT is given.
Words == <<"PONG", "OK", "{", "}", "key", "arguments", "not found", "a">>

\* The values that Go programs, the cli and COUNT pass, and all calls.
CliValues == {CliArg(t) : t \in Items}
AllValues == CliValues \cup Values \cup {String(<<"a">>), Int64(12)}
AllCalls  == Calls(CliValues) \cup Calls(Values) \cup {Call(CMDS, <<>>)}

ASSUME ConversationAssumption ==
    /\ Protocols \subseteq {"redis", "line", "interface"}
    /\ MaxKeys \in Nat /\ MaxCalls \in Nat
    /\ Values \subseteq Scalar
    /\ ToSet(Words) \cup UNION {ToSet(cmd) : cmd \in Commands \cup {NOPE}}
         \subseteq Symbols
    \* The line editor returns one line.
    /\ \A t \in Items : t \in Text /\ LF \notin ToSet(t) /\ CR \notin ToSet(t)
    /\ 3 <= MaxLength /\ MaxKeys <= MaxLength
    /\ \A v \in AllValues :
         /\ Len(Fprint(v)) <= MaxLength
         /\ v.type = "bytes" => Len(v.text) <= MaxLength

TypeOK ==
    /\ protocol \in Protocols /\ cli \in BOOLEAN /\ known \in BOOLEAN
    /\ keys \in 0..MaxKeys /\ calls \in 0..MaxCalls
    /\ at \in {"start", "prompt", "await"}
    /\ used \in 0..MaxCalls + 1 /\ conn \in 0..used
    /\ hung \subseteq 1..used /\ misread \subseteq 1..used
    /\ at = "await" => conn # 0
    /\ session \in [Connections -> {"run", "over"}]

Init ==
    /\ protocol \in Protocols /\ keys = 0
    /\ cli \in BOOLEAN /\ known = ~cli
    /\ at = IF cli THEN "start" ELSE "prompt"
    /\ calls = 0 /\ conn = 0 /\ used = 0 /\ hung = {}
    /\ req = [k \in Connections |-> <<>>] /\ rep = req
    /\ session = [k \in Connections |-> "run"]
    /\ asked = Nothing /\ result = Nothing
    /\ sent = [k \in Connections |-> <<>>]
    /\ misread = {} /\ texts = [k \in Connections |-> {}]

-----------------------------------------------------------------------------
(* The caller                                                              *)

\* The argument and the request as the handler should see it, p being the
\* protocol.
Received(p, v) == IF p = "interface"
                    THEN IF v.type = "other" THEN Bytes(v.text) ELSE v
                    ELSE Bytes(Fprint(v))
Request(p, call) ==
    Array(<<Bytes(call.cmd)>> \o Map(LAMBDA v : Received(p, v), call.args))

\* The texts that are put on the wire as they are.
TextsOf(p, call) == {Fprint(v) : v \in {u \in ToSet(call.args) :
                                          p # "interface" \/ u.type = "string"}}

\* Client.Do puts its connection back, Client.DoAsync does not.
Pooled(k, async) == IF async THEN 0 ELSE k

\* connect, WriteCommand and Flush on the pooled connection or a new one.
Write(call, async) ==
    LET k == IF conn = 0 THEN used + 1 ELSE conn
    IN  /\ used' = IF conn = 0 THEN used + 1 ELSE used
        /\ conn' = Pooled(k, async)
        /\ req' = [req EXCEPT ![k] =
                     @ \o WriteCommand(protocol, call.cmd, call.args)]
        /\ asked' = [call |-> call, on |-> k, late |-> session[k] = "over"]
        /\ result' = Nothing
        /\ sent' = [sent EXCEPT ![k] = Append(@, call)]
        /\ texts' = [texts EXCEPT ![k] = @ \cup TextsOf(protocol, call)]

\* broadcast-cli asks for the commands, unless it was started with -skipcmds.
Start ==
    /\ at = "start"
    /\ \/ /\ Write(Call(CMDS, <<>>), FALSE)
          /\ at' = "await"
       \/ /\ at' = "prompt"
          /\ UNCHANGED <<used, conn, req, asked, result, sent, texts>>
    /\ UNCHANGED <<protocol, cli, keys, known, calls, rep, session, hung,
                   misread>>

\* Variant: the cli does not ask whether a command is fire and forget.
IsCmdAsyncNever(cmd) == FALSE

\* isCmdAsync of the cli, from the reply to CMDS; a program just knows.
IsCmdAsync(cmd) == known /\ cmd \in FireForget

\* A call; before KEYS, other clients have stored some number of keys.
Ask(call) ==
    /\ at = "prompt" /\ calls < MaxCalls
    /\ calls' = calls + 1
    /\ Write(call, IsCmdAsync(call.cmd))
    /\ at' = IF IsCmdAsync(call.cmd) THEN "prompt" ELSE "await"
    /\ keys' \in IF call.cmd = KEYS THEN 0..MaxKeys ELSE {keys}
    /\ UNCHANGED <<protocol, cli, known, rep, session, hung, misread>>

\* Writing to a connection that the server has closed may fail at once; the
\* connection is finalized.
WriteFails(call) ==
    /\ at = "prompt" /\ calls < MaxCalls
    /\ conn # 0 /\ session[conn] = "over"
    /\ calls' = calls + 1
    /\ asked' = [call |-> call, on |-> conn, late |-> TRUE]
    /\ result' = Failed
    /\ conn' = 0 /\ hung' = hung \cup {conn}
    /\ UNCHANGED <<protocol, cli, keys, known, at, used, req, rep, session,
                   histVars>>

\* ClientConnection.Read; the reply to CMDS tells the cli the commands.
ReadReply ==
    /\ at = "await"
    /\ \E r \in {ReadInterface(rep[conn])} :
         /\ r.st = "ok"
         /\ result' = r.val
         /\ rep' = [rep EXCEPT ![conn] = r.rest]
         /\ known' = (known \/ (asked.call.cmd = CMDS /\ r.val = Json))
    /\ at' = "prompt"
    /\ UNCHANGED <<protocol, cli, keys, calls, conn, used, req, session, hung,
                   asked, histVars>>

\* Variant: the caller of a failed read reads on, as the benchmark does.
ReadFailsReadsOn ==
    /\ at = "await"
    /\ \E r \in {ReadInterface(rep[conn])} :
         r.st = "err" \/ (r.st = "more" /\ session[conn] = "over")
    /\ result' = Failed
    /\ conn' = 0 /\ hung' = hung \cup {conn}
    /\ UNCHANGED <<protocol, cli, keys, known, at, calls, used, req, rep,
                   session, asked, histVars>>

\* An unreadable reply or the end of the connection: it is finalized.
ReadFails ==
    /\ at = "await"
    /\ \E r \in {ReadInterface(rep[conn])} :
         r.st = "err" \/ (r.st = "more" /\ session[conn] = "over")
    /\ result' = Failed
    /\ at' = "prompt"
    /\ conn' = 0 /\ hung' = hung \cup {conn}
    /\ UNCHANGED <<protocol, cli, keys, known, calls, used, req, rep, session,
                   asked, histVars>>

-----------------------------------------------------------------------------
(* The handlers, of protocol p.  args are values; redis and line have      *)
(* bytes only.                                                             *)

Echo(p, args) ==
    IF args = <<>> THEN WriteString(<<>>)
    ELSE IF p # "interface" THEN WriteString(Join(Map(LAMBDA v : v.text, args)))
    ELSE IF Len(args) = 1 THEN WriteInterface(args[1]) ELSE WriteArray(args)

\* KEYS without a pattern: every key is stored in the first slot of the list.
Keys(n) == WriteLen("*", n)
           \o FlattenSeq([i \in 1..n |->
                WriteString(IF i = 1 THEN <<"key">> ELSE <<>>)])

\* COUNT replies only to what it rejects.  Like all of the stats backend it
\* expects bytes and sees no arguments in the interface protocol.
Count(p, args) ==
    IF /\ p # "interface" /\ args # <<>>
       /\ Len(args) > 1 => IsInt(args[2].text)
      THEN <<>> ELSE WriteError(<<"arguments">>)

\* The command of a request: its first item, which is bytes or a string.  An
\* empty array, or redis' null, is the command of no name.
CmdOf(items) ==
    IF items # <<>> /\ items[1].type \in {"bytes", "string"}
      THEN items[1].text ELSE <<>>

\* handleData takes the first item of an empty request of redis, or for a
\* string what is neither that nor bytes.
Panics(p, items) == IF items = <<>> THEN p = "redis"
                    ELSE /\ p = "interface"
                         /\ items[1].type \notin {"bytes", "string"}

\* handleData: what a command makes the server write and flush; n is the
\* number of keys.
HandleData(p, n, cmd, args) ==
    CASE cmd = PING -> WriteString(<<"PONG">>)
      [] cmd \in {INFO, CMDS} -> WriteJson(<<"{", "}">>)
      [] cmd = ECHO -> Echo(p, args)
      [] cmd = KEYS -> Keys(n)
      [] cmd = COUNT -> Count(p, args)
      [] cmd = QUIT -> IF p = "line" THEN <<>> ELSE WriteString(<<"OK">>)
      [] cmd \notin Commands -> WriteError(<<"not found">>)

\* What the request v makes the server write, and whether it ends the session;
\* a value that is no array is passed over.
Reply(p, n, v) ==
    IF v.type # "array" \/ Panics(p, v.items) THEN <<>>
    ELSE HandleData(p, n, CmdOf(v.items), Tail(v.items))
Ends(p, v) == v.type = "array" /\ (Panics(p, v.items) \/ CmdOf(v.items) = QUIT)

\* One turn of the loop of RunClient.
Serve(k) ==
    /\ k <= used /\ session[k] = "run"
    /\ \E r \in {ReadRequest(protocol, req[k])} :
         /\ r.st = "ok"
         /\ req' = [req EXCEPT ![k] = r.rest]
         /\ rep' = [rep EXCEPT ![k] = @ \o Reply(protocol, keys, r.val)]
         /\ session' = [session EXCEPT ![k] =
                          IF Ends(protocol, r.val) THEN "over" ELSE @]
         /\ misread' = IF sent[k] # <<>> /\ r.val = Request(protocol, Head(sent[k]))
                         THEN misread ELSE misread \cup {k}
    /\ sent' = [sent EXCEPT ![k] = IF @ = <<>> THEN @ ELSE Tail(@)]
    /\ UNCHANGED <<protocol, cli, keys, known, at, calls, conn, used, hung,
                   asked, result, texts>>

\* A request that cannot be read, or the end of the connection.
SessionEnds(k) ==
    /\ k <= used /\ session[k] = "run"
    /\ \E r \in {ReadRequest(protocol, req[k])} :
         r.st = "err" \/ (r.st = "more" /\ k \in hung)
    /\ session' = [session EXCEPT ![k] = "over"]
    /\ UNCHANGED <<protocol, cli, keys, known, at, calls, conn, used, req, rep,
                   hung, asked, result, histVars>>

-----------------------------------------------------------------------------
Arguments == IF cli THEN CliValues ELSE Values

Next == \/ Start \/ ReadReply \/ ReadFails
        \/ \E call \in Calls(Arguments) : Ask(call) \/ WriteFails(call)
        \/ \E k \in Connections : Serve(k) \/ SessionEnds(k)

\* The goroutines of the caller and of each session go on while they can.
Spec == /\ Init /\ [][Next]_vars
        /\ WF_vars(ReadReply \/ ReadFails)
        /\ \A k \in Connections : WF_vars(Serve(k) \/ SessionEnds(k))

-----------------------------------------------------------------------------
(* Properties                                                              *)

HasCRLF(t) == \E i \in 1..Len(t) - 1 : t[i] = CR /\ t[i + 1] = LF

\* A line break inside a text ends the line that carries it: in a request of
\* the line protocol, and in a string of the others.
Breaks(p, t) == IF p = "line" THEN LF \in ToSet(t) ELSE HasCRLF(t)

Unbroken(k) == \A t \in texts[k] : ~Breaks(protocol, t)

\* The server's readers recover each request from what the client's writers
\* put on the wire, arguments included, whatever redis is given; the line
\* protocol takes a space inside an argument for the end of it.
ReadAsSent ==
    \A k \in misread : /\ protocol # "redis"
                       /\ \/ ~Unbroken(k)
                          \/ /\ protocol = "line"
                             /\ \E t \in texts[k] : SP \in ToSet(t)

\* Between calls nothing is left on the pooled connection, in either
\* direction: the next call reads its own reply.  Each request gets exactly
\* one reply, and reading the reply consumes it exactly.
InStep ==
    at = "prompt" /\ conn # 0 /\ Unbroken(conn)
        => rep[conn] = <<>> /\ (session[conn] = "run" => req[conn] = <<>>)

\* A string can be read back: not the empty one (its line is too short), nor
\* one with a LF, nor one whose line exceeds the reader's buffer.
Readable(s) == s # <<>> /\ LF \notin ToSet(s) /\ Len(s) + 3 <= BufferSize

CanReceive(v) ==
    CASE v.type = "string"  -> Readable(v.text)
      [] v.type = "byte"    -> v.byte # LF
      [] v.type = "int64"   -> Readable(AppendInt(v.int))
      [] v.type = "float64" -> Readable(AppendFloat(v.tenths))
      [] v.type \in {"bytes", "other", "bool", "nil"} -> TRUE

\* The request is one the server can read.
Arrives(p, call) ==
    CASE p = "redis" -> TRUE
      [] p = "line"  ->
           Len(Join(<<call.cmd>> \o Map(Fprint, call.args))) + 2 <= BufferSize
      [] p = "interface" -> \A v \in ToSet(call.args) : CanReceive(v)

StringOrFailed(s) == IF Readable(s) THEN String(s) ELSE Failed

\* What ECHO returns to the caller, and what any call should, n being the
\* number of keys.
EchoAnswer(p, args) ==
    IF args = <<>> THEN Failed
    ELSE IF p # "interface" THEN StringOrFailed(Join(Map(Fprint, args)))
    ELSE IF Len(args) = 1 THEN Received(p, args[1])
    ELSE Array(Map(LAMBDA v : Received(p, v), args))

Answer(p, n, call) ==
    IF ~Arrives(p, call) THEN Failed
    ELSE CASE call.cmd = PING -> String(<<"PONG">>)
           [] call.cmd \in {INFO, CMDS} -> Json
           [] call.cmd = ECHO -> EchoAnswer(p, call.args)
           [] call.cmd = KEYS -> IF n > 1 THEN Failed
                                 ELSE Array([i \in 1..n |-> String(<<"key">>)])
           [] call.cmd = QUIT -> IF p = "line" THEN Failed
                                 ELSE String(<<"OK">>)
           [] call.cmd = COUNT -> Error(<<"ERR ", "arguments">>)
           [] call.cmd = NOPE -> Error(<<"ERR ", "not found">>)

\* A call returns the answer to its own command, complete and of the right
\* type, or an error exactly where the format cannot carry the request or the
\* answer (KEYS with two keys and ECHO of nothing among them) or where the
\* session was over before, whatever was asked before on the connection.
Answered ==
    result # Nothing /\ Unbroken(asked.on)
        => result = IF asked.late THEN Failed
                     ELSE Answer(protocol, keys, asked.call)

\* Every call returns on a connection that no line break has put out of step
\* (what is left after one may begin like an array, and then the client, or in
\* the interface protocol the server, waits for items that nobody sends),
\* unless broadcast-cli waits for the answer to a command that has none
\* because it has not got the list of commands.
CallsReturn ==
    (at = "await" /\ Unbroken(conn) /\ ~(asked.call.cmd = COUNT /\ ~known))
        ~> at = "prompt"
=============================================================================
