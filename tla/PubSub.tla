------------------------------- MODULE PubSub -------------------------------
(***************************************************************************)
(* The pubsub backend: topics that hold the addresses of their             *)
(* subscribers, and publish, which looks every address up in the server's  *)
(* map of clients and starts a goroutine per subscriber that writes the    *)
(* message to it.                                                          *)
(*                                                                         *)
(* A topic has a mutex; the map of topics, the server's map of clients and *)
(* the buffers of the subscribers have none.  Commands with several topics *)
(* repeat the steps below; SUBSCRIBE and UNSUBSCRIBE are modelled with one *)
(* topic each.  A command with too few arguments returns at once and       *)
(* changes nothing.                                                        *)
(***************************************************************************)
EXTENDS Registry, Integers, Sequences, FiniteSets

CONSTANTS
    Topic,     \* names of topics
    Aliased,   \* TRUE: line protocol, whose arguments are slices of the
               \* publisher's read buffer; FALSE: redis, which copies them
    MaxCmds    \* bound: commands in all

ASSUME PubSubAssumption == Aliased \in BOOLEAN /\ MaxCmds \in Nat

\* TopicChannel objects, in the order of their allocation.
Obj == 1..MaxCmds

VARIABLES
    topics,    \* b.topics: name -> TopicChannel
    size,      \* size of each TopicChannel
    members,   \* clients of each TopicChannel
    lock,      \* connection whose command holds its mutex
    h,         \* the command each connection runs
    buf,       \* the command whose text is in each connection's read buffer
    sending,   \* goroutines that deliver a message
    wire,      \* what has been written to each connection
    cmds,      \* commands so far; also names a message
    threw,     \* the runtime noticed a concurrent use of a map
    subs,      \* history: <<connection, topic>> of completed subscriptions
               \* that no session with the same address has ended
    replaced,  \* history: topics whose TopicChannel was replaced by another
    missed,    \* history: <<subscriber, topic>> a publish passed over
    uninvited  \* history: <<connection, topic>> reached without subscription
               \* of the connection or of an earlier one with its address

topicVars == <<topics, size, members, lock>>
outVars   == <<sending, wire>>
histVars  == <<subs, replaced, missed, uninvited>>
vars == <<regVars, topicVars, h, buf, outVars, cmds, threw, histVars>>

Idle == [at |-> "idle"]

\* What a command keeps: after the lookup, and in the loop of publish (with
\* the subscribers it has still to visit, those it found gone, and, as
\* history, those that ought to be reached).
Command ==
    {Idle}
    \cup [at : {"create"}, topic : Topic, obj : {0}, msg : Obj]
    \cup [at : {"sub", "unsub", "pub"}, topic : Topic, obj : Obj, msg : Obj]
    \cup [at : {"loop"}, topic : Topic, obj : Obj, msg : Obj,
          todo : SUBSET Addr, gone : SUBSET Addr, owed : SUBSET Conn]

TypeOK ==
    /\ RegTypeOK
    /\ topics \in [Topic -> Obj \cup {0}]
    /\ size \in [Obj -> Nat]
    /\ members \in [Obj -> SUBSET Addr]
    /\ lock \in [Obj -> Conn \cup {None}]
    /\ h \in [Conn -> Command]
    /\ buf \in [Conn -> 0..MaxCmds]
    /\ sending \in SUBSET [to : Conn, msg : Obj, from : Conn, part : 1..2]
    /\ wire \in [Conn -> Seq([msg : Obj, part : 1..2, text : 0..MaxCmds])]
    /\ cmds \in 0..MaxCmds
    /\ threw \in BOOLEAN

Init ==
    /\ RegInit
    /\ topics = [t \in Topic |-> 0]
    /\ size = [o \in Obj |-> 0]
    /\ members = [o \in Obj |-> {}]
    /\ lock = [o \in Obj |-> None]
    /\ h = [c \in Conn |-> Idle]
    /\ buf = [c \in Conn |-> 0]
    /\ sending = {}
    /\ wire = [c \in Conn |-> <<>>]
    /\ cmds = 0
    /\ threw = FALSE
    /\ subs = {} /\ replaced = {} /\ missed = {} /\ uninvited = {}

-----------------------------------------------------------------------------
(* The server (modules Registry and BroadcastServer): connections are      *)
(* registered under their address, lose their peer at any time, end        *)
(* between two commands, and are taken out of app.clients some time later. *)

Connect(c, a) ==
    /\ ~threw /\ Register(c, a)
    /\ UNCHANGED <<topicVars, h, buf, outVars, cmds, threw, histVars>>

HangUp(c) ==
    /\ ~threw /\ Leave(c)
    /\ UNCHANGED <<topicVars, h, buf, outVars, cmds, threw, histVars>>

Disconnect(c) ==
    /\ ~threw /\ h[c] = Idle /\ End(c)
    /\ UNCHANGED <<topicVars, h, buf, outVars, cmds, threw, histVars>>

Forget(c) ==
    /\ ~threw /\ Unregister(c)
    /\ UNCHANGED <<topicVars, h, buf, outVars, cmds, threw, histVars>>

-----------------------------------------------------------------------------
(* The commands: first topic, ok := b.topics[key], without a lock          *)

\* Variant: UNSUBSCRIBE and PUBLISH do not ask whether the topic exists.
LookupUnchecked(c, op, t) ==
    /\ ~threw /\ phase[c] \in Open /\ h[c] = Idle /\ cmds < MaxCmds
    /\ cmds' = cmds + 1
    /\ buf' = [buf EXCEPT ![c] = cmds + 1]
    /\ h' = [h EXCEPT ![c] =
               [at |-> IF topics[t] = 0 /\ op = "sub" THEN "create" ELSE op,
                topic |-> t, obj |-> topics[t], msg |-> cmds + 1]]
    /\ subs' = IF op = "unsub" THEN subs \ {<<c, t>>} ELSE subs
    /\ UNCHANGED <<regVars, topicVars, outVars, threw, replaced, missed,
                   uninvited>>

\* A command is read, over the text of the one before, and looks its topic
\* up.  UNSUBSCRIBE and PUBLISH end there if the topic does not exist.
Lookup(c, op, t) ==
    /\ ~threw /\ phase[c] \in Open /\ h[c] = Idle /\ cmds < MaxCmds
    /\ cmds' = cmds + 1
    /\ buf' = [buf EXCEPT ![c] = cmds + 1]
    /\ h' = [h EXCEPT ![c] =
               IF topics[t] = 0 /\ op # "sub" THEN Idle
               ELSE [at |-> IF topics[t] = 0 THEN "create" ELSE op,
                     topic |-> t, obj |-> topics[t], msg |-> cmds + 1]]
    /\ subs' = IF op = "unsub" THEN subs \ {<<c, t>>} ELSE subs
    /\ UNCHANGED <<regVars, topicVars, outVars, threw, replaced, missed,
                   uninvited>>

\* A new TopicChannel with this subscriber; one that another command has put
\* into the map since the lookup is replaced.
CreateTopic(c) ==
    /\ ~threw /\ h[c].at = "create"
    /\ LET o == h[c].msg
       IN  /\ topics' = [topics EXCEPT ![h[c].topic] = o]
           /\ size' = [size EXCEPT ![o] = 1]
           /\ members' = [members EXCEPT ![o] = {addr[c]}]
    /\ replaced' = IF topics[h[c].topic] = 0 THEN replaced
                                            ELSE replaced \cup {h[c].topic}
    /\ subs' = subs \cup {<<c, h[c].topic>>}
    /\ h' = [h EXCEPT ![c] = Idle]
    /\ UNCHANGED <<regVars, lock, buf, outVars, cmds, threw, missed,
                   uninvited>>

\* The locked section of subscribe.
Subscribe(c) ==
    /\ ~threw /\ h[c].at = "sub" /\ lock[h[c].obj] = None
    /\ LET o == h[c].obj
       IN  /\ members' = [members EXCEPT ![o] = @ \cup {addr[c]}]
           /\ size' = [size EXCEPT ![o] =
                         IF addr[c] \in members[o] THEN @ ELSE @ + 1]
    /\ subs' = subs \cup {<<c, h[c].topic>>}
    /\ h' = [h EXCEPT ![c] = Idle]
    /\ UNCHANGED <<regVars, topics, lock, buf, outVars, cmds, threw, replaced,
                   missed, uninvited>>

\* Variant: size goes down whether or not the client was subscribed.
UnsubscribeAlways(c) ==
    /\ ~threw /\ h[c].at = "unsub" /\ lock[h[c].obj] = None
    /\ LET o == h[c].obj
       IN  /\ members' = [members EXCEPT ![o] = @ \ {addr[c]}]
           /\ size' = [size EXCEPT ![o] = @ - 1]
    /\ h' = [h EXCEPT ![c] = Idle]
    /\ UNCHANGED <<regVars, topics, lock, buf, outVars, cmds, threw, histVars>>

\* Variant: the client is counted out and stays in the topic.
UnsubscribeKeeps(c) ==
    /\ ~threw /\ h[c].at = "unsub" /\ lock[h[c].obj] = None
    /\ h' = [h EXCEPT ![c] = Idle]
    /\ UNCHANGED <<regVars, topicVars, buf, outVars, cmds, threw, histVars>>

\* The locked section of unsubscribe.  It goes by address: the session of a
\* lost connection also unsubscribes a later one with its address.
Unsubscribe(c) ==
    /\ ~threw /\ h[c].at = "unsub" /\ lock[h[c].obj] = None
    /\ LET o == h[c].obj
       IN  /\ members' = [members EXCEPT ![o] = @ \ {addr[c]}]
           /\ size' = [size EXCEPT ![o] =
                         IF addr[c] \in members[o] THEN @ - 1 ELSE @]
    /\ subs' = {s \in subs : s[2] # h[c].topic \/ addr[s[1]] # addr[c]}
    /\ h' = [h EXCEPT ![c] = Idle]
    /\ UNCHANGED <<regVars, topics, lock, buf, outVars, cmds, threw, replaced,
                   missed, uninvited>>

-----------------------------------------------------------------------------
(* publish, which holds the topic's mutex over its loop                    *)

\* c ought to get a message on t now: it is subscribed and GetClient finds it.
Reachable(c, t) ==
    phase[c] = "up" /\ <<c, t>> \in subs /\ clients[addr[c]] = c

Subscribers(t) == {c \in Conn : Reachable(c, t)}

\* Message m was written to c, or a goroutine is about to write it.
Reached(c, m) == \/ \E s \in sending : s.to = c /\ s.msg = m
                 \/ \E i \in DOMAIN wire[c] : wire[c][i].msg = m

\* Neither subscribed to t nor just unsubscribing.
Stranger(c, t) == <<c, t>> \notin subs /\ ~(h[c].at = "unsub" /\ h[c].topic = t)

\* c has its address from a connection that has not unsubscribed from t.
Heir(c, t) == \E e \in Conn \ {c} : /\ addr[e] = addr[c] /\ phase[e] # "up"
                                    /\ ~Stranger(e, t)

PublishLocks(c) ==
    /\ ~threw /\ h[c].at = "pub" /\ lock[h[c].obj] = None
    /\ lock' = [lock EXCEPT ![h[c].obj] = c]
    /\ h' = [h EXCEPT ![c] =
               [at |-> "loop", topic |-> h[c].topic, obj |-> h[c].obj,
                msg |-> h[c].msg, gone |-> {},
                todo |-> IF size[h[c].obj] > 0 THEN members[h[c].obj] ELSE {},
                owed |-> Subscribers(h[c].topic)]]
    /\ UNCHANGED <<regVars, topics, size, members, buf, outVars, cmds, threw,
                   histVars>>

\* Variant: a subscriber that is gone ends the loop.
PublishNextStops(c, a) ==
    /\ ~threw /\ h[c].at = "loop" /\ a \in h[c].todo
    /\ IF clients[a] # None
         THEN /\ sending' = sending \cup {[to |-> clients[a], msg |-> h[c].msg,
                                           from |-> c, part |-> 1]}
              /\ h' = [h EXCEPT ![c].todo = @ \ {a}]
         ELSE /\ h' = [h EXCEPT ![c].todo = {}, ![c].gone = @ \cup {a}]
              /\ UNCHANGED sending
    /\ UNCHANGED <<regVars, topicVars, buf, wire, cmds, threw, histVars>>

\* app.GetClient of the next subscriber: deliver to it, or note that it is
\* gone.
PublishNext(c, a) ==
    /\ ~threw /\ h[c].at = "loop" /\ a \in h[c].todo
    /\ IF clients[a] # None
         THEN /\ sending' = sending \cup {[to |-> clients[a], msg |-> h[c].msg,
                                           from |-> c, part |-> 1]}
              /\ h' = [h EXCEPT ![c].todo = @ \ {a}]
              /\ uninvited' =
                   IF /\ Stranger(clients[a], h[c].topic)
                      /\ ~Heir(clients[a], h[c].topic)
                     THEN uninvited \cup {<<clients[a], h[c].topic>>}
                     ELSE uninvited
         ELSE /\ h' = [h EXCEPT ![c].todo = @ \ {a}, ![c].gone = @ \cup {a}]
              /\ UNCHANGED <<sending, uninvited>>
    /\ UNCHANGED <<regVars, topicVars, buf, wire, cmds, threw, subs, replaced,
                   missed>>

\* The subscribers that are gone are deleted (size is left as it is) and the
\* mutex is released.
PublishUnlocks(c) ==
    /\ ~threw /\ h[c].at = "loop" /\ h[c].todo = {}
    /\ LET o == h[c].obj
           reached == {d \in Conn : Reached(d, h[c].msg)}
       IN  /\ members' = [members EXCEPT ![o] = @ \ h[c].gone]
           /\ lock' = [lock EXCEPT ![o] = None]
           /\ missed' = missed \cup
                (((h[c].owed \cap Subscribers(h[c].topic)) \ reached)
                   \X {h[c].topic})
    /\ h' = [h EXCEPT ![c] = Idle]
    /\ UNCHANGED <<regVars, topics, size, buf, outVars, cmds, threw, subs,
                   replaced, uninvited>>

\* Variant: the arguments are slices of the read buffer in every protocol.
DeliverSlice(s) ==
    /\ ~threw
    /\ wire' = [wire EXCEPT ![s.to] =
                  IF phase[s.to] \notin Open THEN @
                  ELSE Append(@, [msg |-> s.msg, part |-> s.part,
                                  text |-> buf[s.from]])]
    /\ sending' = (sending \ {s})
                    \cup (IF s.part = 2 THEN {} ELSE {[s EXCEPT !.part = 2]})
    /\ UNCHANGED <<regVars, topicVars, h, buf, cmds, threw, histVars>>

\* A delivery goroutine writes a message in parts (WriteBulk writes a length,
\* then each argument) into the subscriber's buffer, without a lock.  A slice
\* of a read buffer may show what the publisher has read since.
Deliver(s) ==
    /\ ~threw
    /\ \E text \in IF Aliased THEN {s.msg, buf[s.from]} ELSE {s.msg} :
         wire' = [wire EXCEPT ![s.to] =
                    IF phase[s.to] \notin Open THEN @
                    ELSE Append(@, [msg |-> s.msg, part |-> s.part,
                                    text |-> text])]
    /\ sending' = (sending \ {s})
                    \cup (IF s.part = 2 THEN {} ELSE {[s EXCEPT !.part = 2]})
    /\ UNCHANGED <<regVars, topicVars, h, buf, cmds, threw, histVars>>

\* b.topics is a plain map: a command that stores into it while another
\* looks a topic up or stores one is a data race, which the runtime may
\* notice.
TopicsRace ==
    /\ ~threw
    /\ \E c, d \in Conn :
         /\ c # d /\ h[c].at = "create" /\ phase[d] \in Open
         /\ h[d].at = "create" \/ (h[d] = Idle /\ cmds < MaxCmds)
    /\ threw' = TRUE
    /\ UNCHANGED <<regVars, topicVars, h, buf, outVars, cmds, histVars>>

-----------------------------------------------------------------------------
RunCommand(c) ==
    \/ \E op \in {"sub", "unsub", "pub"}, t \in Topic : Lookup(c, op, t)
    \/ CreateTopic(c) \/ Subscribe(c) \/ Unsubscribe(c)
    \/ PublishLocks(c) \/ PublishUnlocks(c)
    \/ \E a \in Addr : PublishNext(c, a)

Next == \/ TopicsRace
        \/ \E s \in sending : Deliver(s)
        \/ \E c \in Conn : HangUp(c) \/ Disconnect(c) \/ Forget(c)
        \/ \E c \in Conn : RunCommand(c)
        \/ \E c \in Conn, a \in Addr : Connect(c, a)

Spec == Init /\ [][Next]_vars

-----------------------------------------------------------------------------
(* Properties                                                              *)

\* publish looks at size before it looks at the clients, and deletes clients
\* that are gone without counting them: size may exceed the number of
\* subscribers and never falls below it, so no subscriber is passed over.
SizeCoversMembers ==
    \A o \in Obj : size[o] >= Cardinality(members[o])

\* A publish reaches every connected peer that was subscribed to the topic
\* (and not unsubscribed by the session of an earlier connection with its
\* address), and in app.clients, from before it took the topic's mutex until it
\* released it, unless two commands created the topic concurrently and one
\* TopicChannel was lost.
ReachedUnlessReplaced == \A m \in missed : m[2] \in replaced

\* A message reaches a connection that did not subscribe to its topic only
\* because an earlier connection with the same address did and has not
\* unsubscribed (topics hold addresses, and nothing removes one when its
\* connection ends), or because the topic was created twice.
OnlySubscribersReached == \A u \in uninvited : u[2] \in replaced

\* What a subscriber is sent is what was published, however late the delivery
\* goroutine runs.  It holds for redis (Aliased = FALSE).  In the line
\* protocol the published text is a slice of the publisher's read buffer,
\* which the publisher's next command overwrites.
DeliveredAsPublished ==
    \A c \in Conn : \A i \in DOMAIN wire[c] : wire[c][i].text = wire[c][i].msg

-----------------------------------------------------------------------------
(* What a comment in the code says and the code does not do                *)

\* publish: messages are sent "should the channel exist and be subscribed
\* to".  Two first subscriptions at once create two TopicChannels, and the
\* subscriber in the one that is replaced gets nothing.
SubscribersReached == missed = {}
=============================================================================
