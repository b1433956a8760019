---------------------------- MODULE PubSubProofs ----------------------------
(***************************************************************************)
(* The pubsub backend, for any number of connections, addresses, topics    *)
(* and commands.  SizeInv: a topic's size, which publish tests, never      *)
(* falls below the number of its subscribers.  DeliveryInv: a publish      *)
(* passes over none of them, and reaches nobody else, but for addresses    *)
(* used again and topics created twice.                                    *)
(***************************************************************************)
EXTENDS PubSub, RegistryProofs, FiniteSetTheorems, TLAPS

-----------------------------------------------------------------------------
(* The inductive invariants                                                *)

\* A command runs on a registered connection, and the sets of subscribers are
\* finite.
CommandInv == \A c \in Conn : h[c].at # "idle" => phase[c] \in Open

SizeInv == /\ TypeOK /\ RegistryOK /\ CommandInv /\ SizeCoversMembers
           /\ \A o \in Obj : IsFiniteSet(members[o])

\* Objects and messages are named once.  The object that a command looked up
\* belongs to its topic alone, and stays there unless the topic is replaced.
Running(c) == h[c].at # "idle"
Found(c) == h[c].at \in {"sub", "unsub", "pub", "loop"}

NamesInv ==
    /\ \A t \in Topic : topics[t] <= cmds
    /\ \A t, u \in Topic : topics[t] = topics[u] /\ topics[t] # 0 => t = u
    /\ \A c \in Conn : Running(c) => h[c].msg <= cmds
    /\ \A c, d \in Conn :
         Running(c) /\ Running(d) /\ h[c].msg = h[d].msg => c = d
    /\ \A c \in Conn, t \in Topic : h[c].at = "create" => topics[t] # h[c].msg

FoundInv ==
    \A c \in Conn : Found(c) =>
        /\ h[c].obj <= cmds
        /\ \A t \in Topic \ {h[c].topic} : topics[t] # h[c].obj
        /\ h[c].topic \notin replaced => topics[h[c].topic] = h[c].obj
        /\ \A e \in Conn : h[e].at = "create" => h[e].msg # h[c].obj

LockInv == \A c \in Conn : h[c].at = "loop" => lock[h[c].obj] = c

\* subs and the topic's clients agree: whoever is subscribed and can be found
\* is among them, and every address there is of one who subscribed.
SubsInv ==
    /\ subs \subseteq Conn \X Topic
    /\ \A c \in Conn, t \in Topic : <<c, t>> \in subs => phase[c] # "off"
    /\ \A c \in Conn : h[c].at = "unsub" => <<c, h[c].topic>> \notin subs
    /\ \A t \in Topic \ replaced :
         /\ \A c \in Conn : Reachable(c, t) =>
               topics[t] # 0 /\ addr[c] \in members[topics[t]]
         /\ topics[t] # 0 => \A a \in members[topics[t]] :
               \E c \in Conn : addr[c] = a /\ ~Stranger(c, t)

\* While publish has the mutex, whoever ought to be reached is still to be
\* visited or has a delivery under way, and nobody subscribes whose address
\* was found gone.
LoopOK(p) ==
    /\ h[p].todo \subseteq members[h[p].obj]
    /\ \A c \in Conn : Reachable(c, h[p].topic) =>
         /\ addr[c] \notin h[p].gone
         /\ c \in h[p].owed => addr[c] \in h[p].todo \/ Reached(c, h[p].msg)

LoopInv == \A p \in Conn : h[p].at = "loop" /\ h[p].topic \notin replaced
                             => LoopOK(p)

DeliveryInv ==
    /\ SizeInv /\ NamesInv /\ FoundInv /\ LockInv /\ SubsInv /\ LoopInv
    /\ uninvited \subseteq Conn \X Topic
    /\ ReachedUnlessReplaced /\ OnlySubscribersReached

-----------------------------------------------------------------------------

\* The bound on commands as a fact that the provers can use.
LEMMA MaxCmdsNat == MaxCmds \in Nat
  BY PubSubAssumption

\* A subscriber enters a set: the cardinality grows by one if it is new.
LEMMA AddSize ==
    ASSUME NEW S, IsFiniteSet(S), NEW a, NEW n \in Nat, n >= Cardinality(S)
    PROVE  /\ IsFiniteSet(S \cup {a})
           /\ (IF a \in S THEN n ELSE n + 1) >= Cardinality(S \cup {a})
<1>1. IsFiniteSet(S \cup {a}) /\ Cardinality(S) \in Nat
      /\ Cardinality(S \cup {a}) =
           IF a \in S THEN Cardinality(S) ELSE Cardinality(S) + 1
  BY FS_AddElement, FS_CardinalityType
<1> QED
  BY <1>1

\* A subscriber leaves a set: the size can follow without becoming negative.
LEMMA RemoveSize ==
    ASSUME NEW S, IsFiniteSet(S), NEW a, NEW n \in Nat, n >= Cardinality(S)
    PROVE  /\ IsFiniteSet(S \ {a})
           /\ (IF a \in S THEN n - 1 ELSE n) \in Nat
           /\ (IF a \in S THEN n - 1 ELSE n) >= Cardinality(S \ {a})
<1>1. IsFiniteSet(S \ {a}) /\ Cardinality(S) \in Nat
      /\ Cardinality(S \ {a}) =
           IF a \in S THEN Cardinality(S) - 1 ELSE Cardinality(S)
  BY FS_RemoveElement, FS_CardinalityType
<1>2. Cardinality(S \ {a}) \in Nat
  BY <1>1, FS_CardinalityType
<1> QED
  BY <1>1, <1>2

\* A step of the backend is a step of the registry or leaves it as it is.
LEMMA UsesRegistry == [Next]_vars => [RegNext]_regVars
  BY ZenonT(60) DEF Next, RunCommand, vars, regVars, RegNext, Connect, HangUp,
     Disconnect, Forget, Lookup, CreateTopic, Subscribe, Unsubscribe, PublishLocks,
     PublishNext, PublishUnlocks, Deliver, TopicsRace

\* A connection whose session runs has an address.
LEMMA OpenHasAddress ==
    ASSUME RegistryOK, NEW c \in Conn, phase[c] \in Open
    PROVE  addr[c] \in Addr
  BY DEF RegistryOK, Open

\* The strengthened invariant holds in the initial states.
LEMMA SizeInit == Init => SizeInv
<1> SUFFICES ASSUME Init PROVE SizeInv
  OBVIOUS
<1>1. IsFiniteSet({}) /\ Cardinality({}) = 0
  BY FS_EmptySet
<1>2. TypeOK
  <2>1. h \in [Conn -> Command]
    BY DEF Init, Command
  <2>2. wire \in [Conn -> Seq([msg : Obj, part : 1..2, text : 0..MaxCmds])]
    BY DEF Init
  <2>3. cmds \in 0..MaxCmds /\ buf \in [Conn -> 0..MaxCmds]
    BY MaxCmdsNat DEF Init
  <2> QED
    BY <2>1, <2>2, <2>3, RegistryStarts DEF Init, TypeOK, RegistryOK
<1>3. CommandInv /\ SizeCoversMembers /\ \A o \in Obj : IsFiniteSet(members[o])
  BY <1>1 DEF Init, CommandInv, SizeCoversMembers, Idle
<1> QED
  BY <1>2, <1>3, RegistryStarts DEF SizeInv, Init

\* The part of the invariant about sizes does not change with a step that
\* leaves the topics' members alone.
LEMMA SizesUnchanged ==
    ASSUME SizeInv, UNCHANGED <<size, members>>
    PROVE  SizeCoversMembers' /\ \A o \in Obj : IsFiniteSet(members'[o])
  BY DEF SizeInv, SizeCoversMembers

\* A command ends, on a connection that stays as it is.
LEMMA CommandEnds ==
    ASSUME TypeOK, CommandInv, NEW c \in Conn, h' = [h EXCEPT ![c] = Idle],
           UNCHANGED regVars
    PROVE  h' \in [Conn -> Command] /\ CommandInv'
<1>1. Idle \in Command /\ Idle.at = "idle"
  BY DEF Idle, Command
<1>2. h' \in [Conn -> Command]
  BY <1>1 DEF TypeOK
<1>3. CommandInv'
  BY <1>1 DEF TypeOK, CommandInv, regVars
<1> QED
  BY <1>2, <1>3

\* Every step preserves the strengthened invariant.
LEMMA SizeStep == SizeInv /\ [Next]_vars => SizeInv'
<1> SUFFICES ASSUME SizeInv, [Next]_vars PROVE SizeInv'
  OBVIOUS
<1> USE MaxCmdsNat
<1> DEFINE Sizes == SizeCoversMembers' /\ \A o \in Obj : IsFiniteSet(members'[o])
<1>0. TypeOK /\ RegistryOK /\ CommandInv /\ SizeCoversMembers
      /\ \A o \in Obj : IsFiniteSet(members[o])
  BY DEF SizeInv
<1>reg. RegistryOK' /\ RegTypeOK'
  BY <1>0, UsesRegistry, RegistryKeeps DEF RegistryOK
<1>1. CASE UNCHANGED vars
  BY <1>0, <1>reg, <1>1 DEF SizeInv, TypeOK, CommandInv, SizeCoversMembers, vars,
     regVars, topicVars, outVars, histVars
<1>2. ASSUME NEW c \in Conn, NEW a \in Addr, Connect(c, a) PROVE SizeInv'
  <2>1. TypeOK' /\ CommandInv'
    BY <1>0, <1>2, <1>reg DEF Connect, Register, TypeOK, CommandInv, RegTypeOK,
       Open, topicVars, outVars
  <2> QED
    BY <1>2, <1>reg, <2>1, SizesUnchanged DEF SizeInv, Connect, topicVars
<1>3. ASSUME NEW c \in Conn, HangUp(c) \/ Disconnect(c) \/ Forget(c)
      PROVE  SizeInv'
  <2>1. /\ UNCHANGED <<h, topicVars, outVars, buf, cmds, threw>>
        /\ h[c].at # "idle" => phase'[c] \in Open
        /\ \A d \in Conn \ {c} : phase'[d] = phase[d]
    BY <1>0, <1>3 DEF HangUp, Disconnect, Forget, Leave, End, Unregister, Idle,
       CommandInv, TypeOK, RegTypeOK, Open
  <2>2. TypeOK'
    BY <1>0, <1>reg, <2>1 DEF TypeOK, topicVars, outVars
  <2>3. CommandInv'
    BY <1>0, <2>1 DEF CommandInv
  <2> QED
    BY <1>reg, <2>1, <2>2, <2>3, SizesUnchanged DEF SizeInv, topicVars
<1>4. ASSUME NEW c \in Conn, NEW op \in {"sub", "unsub", "pub"},
             NEW t \in Topic, Lookup(c, op, t)
      PROVE  SizeInv'
  <2>1. cmds + 1 \in Obj /\ topics[t] \in Obj \cup {0}
    BY <1>0, <1>reg, <1>4 DEF Lookup, TypeOK, Obj
  <2>2. h' \in [Conn -> Command]
    BY <1>0, <1>reg, <1>4, <2>1 DEF Lookup, TypeOK, Command, Idle
  <2>3. TypeOK'
    <3>1. cmds' \in 0..MaxCmds /\ buf' \in [Conn -> 0..MaxCmds]
      BY <1>0, <1>reg, <1>4 DEF Lookup, TypeOK
    <3> QED
      BY <1>0, <1>reg, <1>4, <2>2, <3>1 DEF Lookup, TypeOK, regVars, topicVars, outVars
  <2>4. CommandInv'
    BY <1>0, <1>reg, <1>4 DEF Lookup, TypeOK, CommandInv, Idle, regVars
  <2> QED
    BY <1>reg, <1>4, <2>3, <2>4, SizesUnchanged DEF SizeInv, Lookup, topicVars
<1>5. ASSUME NEW c \in Conn, CreateTopic(c) PROVE SizeInv'
  <2>1. h[c].msg \in Obj /\ addr[c] \in Addr
    BY <1>0, <1>5, OpenHasAddress DEF CreateTopic, TypeOK, CommandInv, Command, Idle
  <2>2. h' \in [Conn -> Command] /\ CommandInv'
    BY <1>0, <1>reg, <1>5, CommandEnds DEF CreateTopic
  <2>3. TypeOK'
    BY <1>0, <1>reg, <1>5, <2>1, <2>2 DEF CreateTopic, TypeOK, regVars, outVars
  <2>4. Sizes
    <3> SUFFICES ASSUME NEW o \in Obj
                 PROVE  /\ IsFiniteSet(members'[o])
                        /\ size'[o] >= Cardinality(members'[o])
      BY DEF SizeCoversMembers
    <3>1. CASE o = h[c].msg
      <4>1. members'[o] = {addr[c]} /\ size'[o] = 1
        BY <1>0, <1>reg, <1>5, <3>1 DEF CreateTopic, TypeOK
      <4>2. IsFiniteSet({addr[c]}) /\ Cardinality({addr[c]}) = 1
        BY FS_Singleton
      <4> QED
        BY <4>1, <4>2
    <3>2. CASE o # h[c].msg
      BY <1>0, <1>reg, <1>5, <3>2 DEF CreateTopic, TypeOK, SizeCoversMembers
    <3> QED
      BY <3>1, <3>2
  <2> QED
    BY <1>reg, <2>2, <2>3, <2>4 DEF SizeInv
<1>6. ASSUME NEW c \in Conn, Subscribe(c) PROVE SizeInv'
  <2>1. addr[c] \in Addr
    BY <1>0, <1>6, OpenHasAddress DEF Subscribe, CommandInv
  <2>2. h' \in [Conn -> Command] /\ CommandInv'
    BY <1>0, <1>reg, <1>6, CommandEnds DEF Subscribe
  <2>3. TypeOK'
    <3>1. members' \in [Obj -> SUBSET Addr]
      <4>1. members' = [members EXCEPT ![h[c].obj] = @ \cup {addr[c]}]
        BY <1>6 DEF Subscribe
      <4> QED
        BY <1>0, <2>1, <4>1 DEF TypeOK
    <3>2. size' \in [Obj -> Nat]
      <4> DEFINE n == IF addr[c] \in members[h[c].obj] THEN size[h[c].obj]
                                                     ELSE size[h[c].obj] + 1
      <4>1. size' = [size EXCEPT ![h[c].obj] = n]
        BY <1>6 DEF Subscribe
      <4>2. h[c].obj \in Obj
        <5>1. h[c] \in Command /\ h[c].at = "sub"
          BY <1>0, <1>reg, <1>6 DEF Subscribe, TypeOK
        <5> QED
          BY <5>1 DEF Command, Idle
      <4>3. n \in Nat
        BY <1>0, <4>2 DEF TypeOK
      <4> HIDE DEF n
      <4> QED
        BY <1>0, <4>1, <4>3 DEF TypeOK
    <3> QED
      BY <1>0, <1>reg, <1>6, <2>2, <3>1, <3>2 DEF Subscribe, TypeOK, regVars, outVars
  <2>4. Sizes
    <3> SUFFICES ASSUME NEW o \in Obj
                 PROVE  /\ IsFiniteSet(members'[o])
                        /\ size'[o] >= Cardinality(members'[o])
      BY DEF SizeCoversMembers
    <3>1. CASE o = h[c].obj
      <4>1. /\ members'[o] = members[o] \cup {addr[c]}
            /\ size'[o] = IF addr[c] \in members[o] THEN size[o]
                                                   ELSE size[o] + 1
        BY <1>0, <1>reg, <1>6, <3>1 DEF Subscribe, TypeOK
      <4>2. /\ IsFiniteSet(members[o]) /\ size[o] \in Nat
            /\ size[o] >= Cardinality(members[o])
        BY <1>0 DEF TypeOK, SizeCoversMembers
      <4>3. /\ IsFiniteSet(members[o] \cup {addr[c]})
            /\ (IF addr[c] \in members[o] THEN size[o] ELSE size[o] + 1)
                 >= Cardinality(members[o] \cup {addr[c]})
        BY <4>2, AddSize
      <4> QED
        BY <4>1, <4>3
    <3>2. CASE o # h[c].obj
      BY <1>0, <1>reg, <1>6, <3>2 DEF Subscribe, TypeOK, SizeCoversMembers
    <3> QED
      BY <3>1, <3>2
  <2> QED
    BY <1>reg, <2>2, <2>3, <2>4 DEF SizeInv
<1>7. ASSUME NEW c \in Conn, Unsubscribe(c) PROVE SizeInv'
  <2>1. \A o \in Obj : /\ IsFiniteSet(members'[o])
                       /\ size'[o] \in Nat
                       /\ size'[o] >= Cardinality(members'[o])
    <3> SUFFICES ASSUME NEW o \in Obj
                 PROVE  /\ IsFiniteSet(members'[o])
                        /\ size'[o] \in Nat
                        /\ size'[o] >= Cardinality(members'[o])
      OBVIOUS
    <3>1. CASE o = h[c].obj
      <4>1. /\ members'[o] = members[o] \ {addr[c]}
            /\ size'[o] = IF addr[c] \in members[o] THEN size[o] - 1
                                                   ELSE size[o]
        BY <1>0, <1>reg, <1>7, <3>1 DEF Unsubscribe, TypeOK
      <4>2. /\ IsFiniteSet(members[o]) /\ size[o] \in Nat
            /\ size[o] >= Cardinality(members[o])
        BY <1>0 DEF TypeOK, SizeCoversMembers
      <4>3. /\ IsFiniteSet(members[o] \ {addr[c]})
            /\ (IF addr[c] \in members[o] THEN size[o] - 1 ELSE size[o]) \in Nat
            /\ (IF addr[c] \in members[o] THEN size[o] - 1 ELSE size[o])
                 >= Cardinality(members[o] \ {addr[c]})
        BY <4>2, RemoveSize
      <4> QED
        BY <4>1, <4>3
    <3>2. CASE o # h[c].obj
      BY <1>0, <1>reg, <1>7, <3>2 DEF Unsubscribe, TypeOK, SizeCoversMembers
    <3> QED
      BY <3>1, <3>2
  <2>2. h' \in [Conn -> Command] /\ CommandInv'
    BY <1>0, <1>reg, <1>7, CommandEnds DEF Unsubscribe
  <2>3. size' \in [Obj -> Nat]
    BY <1>0, <1>reg, <1>7, <2>1 DEF Unsubscribe, TypeOK
  <2>4. TypeOK'
    BY <1>0, <1>reg, <1>7, <2>2, <2>3 DEF Unsubscribe, TypeOK, regVars, outVars
  <2> QED
    BY <1>reg, <2>1, <2>2, <2>4 DEF SizeInv, SizeCoversMembers
<1>8. ASSUME NEW c \in Conn, PublishLocks(c) PROVE SizeInv'
  <2>1. h' \in [Conn -> Command]
    <3>1. h[c].topic \in Topic /\ h[c].obj \in Obj /\ h[c].msg \in Obj
      BY <1>0, <1>reg, <1>8 DEF PublishLocks, TypeOK, Command, Idle
    <3> QED
      BY <1>0, <1>reg, <1>8, <3>1 DEF PublishLocks, TypeOK, Command, Subscribers
  <2>2. TypeOK' /\ CommandInv'
    BY <1>0, <1>reg, <1>8, <2>1 DEF PublishLocks, TypeOK, CommandInv, regVars, outVars
  <2> QED
    BY <1>reg, <1>8, <2>2, SizesUnchanged DEF SizeInv, PublishLocks
<1>9. ASSUME NEW c \in Conn, NEW a \in Addr, PublishNext(c, a) PROVE SizeInv'
  <2>1. h[c] \in [at : {"loop"}, topic : Topic, obj : Obj, msg : Obj,
                  todo : SUBSET Addr, gone : SUBSET Addr, owed : SUBSET Conn]
    <3>1. h[c] \in Command /\ h[c].at = "loop"
      BY <1>0, <1>reg, <1>9 DEF PublishNext, TypeOK
    <3> QED
      BY <3>1 DEF Command, Idle
  <2>2. h' \in [Conn -> Command] /\ \A d \in Conn \ {c} : h'[d] = h[d]
    <3> DEFINE seen == [h[c] EXCEPT !.todo = @ \ {a}]
               lost == [h[c] EXCEPT !.todo = @ \ {a}, !.gone = @ \cup {a}]
    <3>1. seen \in Command /\ lost \in Command
      BY <2>1 DEF Command
    <3>2. h' = [h EXCEPT ![c] = seen] \/ h' = [h EXCEPT ![c] = lost]
      BY <1>0, <1>reg, <1>9 DEF PublishNext, TypeOK
    <3> HIDE DEF seen, lost
    <3> QED
      BY <1>0, <3>1, <3>2 DEF TypeOK
  <2>3. sending' \in SUBSET [to : Conn, msg : Obj, from : Conn, part : 1..2]
    BY <1>0, <1>9, <2>1 DEF PublishNext, TypeOK, RegTypeOK
  <2>4. TypeOK'
    BY <1>0, <1>reg, <1>9, <2>2, <2>3 DEF PublishNext, TypeOK, regVars, topicVars
  <2>5. CommandInv'
    BY <1>0, <1>reg, <1>9, <2>1, <2>2 DEF PublishNext, CommandInv, regVars
  <2> QED
    BY <1>reg, <1>9, <2>4, <2>5, SizesUnchanged DEF SizeInv, PublishNext, topicVars
<1>10. ASSUME NEW c \in Conn, PublishUnlocks(c) PROVE SizeInv'
  <2>1. TypeOK' /\ CommandInv'
    BY <1>0, <1>reg, <1>10 DEF PublishUnlocks, TypeOK, CommandInv, Command, Idle,
       regVars, outVars
  <2>2. Sizes
    <3> SUFFICES ASSUME NEW o \in Obj
                 PROVE  /\ IsFiniteSet(members'[o])
                        /\ size'[o] >= Cardinality(members'[o])
      BY DEF SizeCoversMembers
    <3>1. members'[o] \in SUBSET members[o] /\ size'[o] = size[o]
      BY <1>0, <1>reg, <1>10 DEF PublishUnlocks, TypeOK
    <3>2. /\ IsFiniteSet(members'[o])
          /\ Cardinality(members'[o]) <= Cardinality(members[o])
      BY <1>0, <3>1, FS_Subset
    <3>3. Cardinality(members[o]) \in Nat /\ Cardinality(members'[o]) \in Nat
      BY <1>0, <3>2, FS_CardinalityType
    <3> QED
      BY <1>0, <3>1, <3>2, <3>3 DEF SizeCoversMembers, TypeOK
  <2> QED
    BY <1>reg, <2>1, <2>2 DEF SizeInv
<1>11. ASSUME NEW s \in sending, Deliver(s) PROVE SizeInv'
  <2> DEFINE Frame == [msg : Obj, part : 1..2, text : 0..MaxCmds]
  <2>1. s \in [to : Conn, msg : Obj, from : Conn, part : 1..2]
    BY <1>0 DEF TypeOK
  <2>2. sending' \in SUBSET [to : Conn, msg : Obj, from : Conn, part : 1..2]
    <3>1. [s EXCEPT !.part = 2] \in [to : Conn, msg : Obj, from : Conn, part : 1..2]
      BY <2>1
    <3>2. sending' \subseteq sending \cup {[s EXCEPT !.part = 2]}
      BY <1>11 DEF Deliver
    <3> QED
      BY <1>0, <3>1, <3>2 DEF TypeOK
  <2>3. wire' \in [Conn -> Seq(Frame)]
    <3>1. PICK text \in (IF Aliased THEN {s.msg, buf[s.from]} ELSE {s.msg}) :
            wire' = [wire EXCEPT ![s.to] =
                       IF phase[s.to] \notin Open THEN @
                       ELSE Append(@, [msg |-> s.msg, part |-> s.part,
                                       text |-> text])]
      BY <1>11 DEF Deliver
    <3>2. text \in 0..MaxCmds
      BY <1>0, <2>1 DEF TypeOK, Obj
    <3>3. [msg |-> s.msg, part |-> s.part, text |-> text] \in Frame
      BY <2>1, <3>2
    <3>4. wire[s.to] \in Seq(Frame)
      BY <1>0, <2>1 DEF TypeOK
    <3>5. Append(wire[s.to], [msg |-> s.msg, part |-> s.part, text |-> text])
            \in Seq(Frame)
      BY <3>3, <3>4
    <3> QED
      BY <1>0, <3>1, <3>5 DEF TypeOK
  <2>4. TypeOK' /\ CommandInv'
    BY <1>0, <1>reg, <1>11, <2>2, <2>3 DEF Deliver, TypeOK, CommandInv, regVars,
       topicVars
  <2> QED
    BY <1>reg, <1>11, <2>4, SizesUnchanged DEF SizeInv, Deliver, topicVars
<1>12. ASSUME TopicsRace PROVE SizeInv'
  <2>1. TypeOK' /\ CommandInv'
    BY <1>0, <1>reg, <1>12 DEF TopicsRace, TypeOK, CommandInv, regVars, topicVars,
       outVars
  <2> QED
    BY <1>reg, <1>12, <2>1, SizesUnchanged DEF SizeInv, TopicsRace, topicVars
<1> QED
  BY <1>1, <1>2, <1>3, <1>4, <1>5, <1>6, <1>7,
     <1>8, <1>9, <1>10, <1>11, <1>12
     DEF Next, RunCommand

\* SizeInv is an invariant of every behaviour of the pubsub backend.
LEMMA SizeInvariant == Spec => []SizeInv
  BY SizeInit, SizeStep, PTL DEF Spec

\* publish tests size > 0 before it looks at the subscribers; size never
\* falls below their number, although stragglers leave without being counted,
\* so the test never hides a subscriber (subscribe, unsubscribe, publish).
THEOREM SizeNeverShort == Spec => []SizeCoversMembers
  BY SizeInvariant, PTL DEF SizeInv

\* Every value of the backend has its type; size is never negative.
THEOREM TypeCorrect == Spec => []TypeOK
  BY SizeInvariant, PTL DEF SizeInv

\* The backend uses the registry only as it promises: publish never finds a
\* connection that is gone, nor, under the address of a connected peer, anybody
\* but its own connection.
THEOREM RegistryUsed == Spec => []RegistryOK
  BY SizeInvariant, PTL DEF SizeInv

-----------------------------------------------------------------------------
\* Delivery appends one frame, or none to a connection that has ended.
LEMMA DeliveryStep ==
    TypeOK /\ ~Aliased /\ DeliveredAsPublished /\ [Next]_vars
      => DeliveredAsPublished'
<1> SUFFICES ASSUME TypeOK, ~Aliased, DeliveredAsPublished, [Next]_vars
             PROVE  DeliveredAsPublished'
  OBVIOUS
<1>1. CASE UNCHANGED wire
  BY <1>1 DEF DeliveredAsPublished
<1>2. ASSUME NEW s \in sending, Deliver(s) PROVE DeliveredAsPublished'
  <2> DEFINE Frame == [msg : Obj, part : 1..2, text : 0..MaxCmds]
             f == [msg |-> s.msg, part |-> s.part, text |-> s.msg]
  <2>1. /\ wire \in [Conn -> Seq(Frame)] /\ s.to \in Conn
        /\ wire' = [wire EXCEPT ![s.to] = IF phase[s.to] \notin Open THEN @
                                          ELSE Append(@, f)]
    BY <1>2 DEF Deliver, TypeOK
  <2> SUFFICES ASSUME NEW c \in Conn, NEW i \in DOMAIN wire'[c]
               PROVE  wire'[c][i].text = wire'[c][i].msg
    BY DEF DeliveredAsPublished
  <2>2. CASE wire'[c] = wire[c]
    BY <2>2 DEF DeliveredAsPublished
  <2>3. CASE wire'[c] = Append(wire[c], f)
    <3>1. wire[c] \in Seq(Frame) /\ f.text = f.msg
      BY <2>1
    <3>2. i \in DOMAIN wire[c] \/ i = Len(wire[c]) + 1
      BY <2>3, <3>1
    <3>3. CASE i \in DOMAIN wire[c]
      BY <2>3, <3>1, <3>3 DEF DeliveredAsPublished
    <3>4. CASE i = Len(wire[c]) + 1
      BY <2>3, <3>1, <3>4
    <3> QED
      BY <3>2, <3>3, <3>4
  <2> QED
    BY <2>1, <2>2, <2>3
<1> QED
  BY <1>1, <1>2
     DEF Next, RunCommand, vars, outVars, Connect, HangUp, Disconnect, Forget,
         Lookup, CreateTopic, Subscribe, Unsubscribe, PublishLocks, PublishNext,
         PublishUnlocks, TopicsRace

\* In the redis protocol, whose arguments are copies, a subscriber is sent
\* what was published however late its delivery goroutine runs and whatever
\* the publisher sends meanwhile.
THEOREM RedisDelivery == ASSUME ~Aliased PROVE Spec => []DeliveredAsPublished
<1>1. Init => DeliveredAsPublished
  BY DEF Init, DeliveredAsPublished
<1>2. TypeOK /\ DeliveredAsPublished /\ [Next]_vars => DeliveredAsPublished'
  BY DeliveryStep
<1> QED
  BY <1>1, <1>2, TypeCorrect, PTL DEF Spec
-----------------------------------------------------------------------------
(* Who is reached by a publish: DeliveryInv is inductive                   *)

\* What the type of a command says of its fields.
LEMMA CommandIs ==
    ASSUME TypeOK, NEW c \in Conn
    PROVE  /\ h[c].at \in {"idle", "create", "sub", "unsub", "pub", "loop"}
           /\ h[c].at = "idle" <=> h[c] = Idle
           /\ Running(c) => h[c].topic \in Topic /\ h[c].msg \in Obj
           /\ Found(c) => h[c].obj \in Obj
           /\ h[c].at = "loop" => /\ h[c].todo \subseteq Addr
                                  /\ h[c].gone \subseteq Addr
                                  /\ h[c].owed \subseteq Conn
  <1>1. h[c] \in Command
    BY DEF TypeOK
  <1>2. CASE h[c] = Idle
    BY <1>2 DEF Idle, Running, Found
  <1>3. CASE h[c] \in [at : {"create"}, topic : Topic, obj : {0}, msg : Obj]
    BY <1>3 DEF Idle, Running, Found
  <1>4. CASE h[c] \in [at : {"sub", "unsub", "pub"}, topic : Topic, obj : Obj,
                       msg : Obj]
    BY <1>4 DEF Idle, Running, Found
  <1>5. CASE h[c] \in [at : {"loop"}, topic : Topic, obj : Obj, msg : Obj,
                       todo : SUBSET Addr, gone : SUBSET Addr, owed : SUBSET Conn]
    BY <1>5 DEF Idle, Running, Found
  <1> QED
    BY <1>1, <1>2, <1>3, <1>4, <1>5 DEF Command

\* The objects of commands that were found are different from 0.
LEMMA ObjIs == \A o \in Obj : o \in Nat /\ o # 0
  BY MaxCmdsNat DEF Obj

\* A step of the registry: connections are registered once, keep their
\* address, and nobody becomes reachable who was not.
LEMMA RegistryStep ==
    ASSUME DeliveryInv, SizeInv',
           UNCHANGED <<topics, size, members, lock, h, sending, wire, cmds,
                       subs, replaced, missed, uninvited>>,
           \A c \in Conn : phase[c] # "off" => /\ addr'[c] = addr[c]
                                               /\ phase'[c] # "off",
           \A c \in Conn, t \in Topic : Reachable(c, t)' => Reachable(c, t)
    PROVE  DeliveryInv'
  <1> USE DEF DeliveryInv
  <1>1. TypeOK /\ RegistryOK
    BY DEF SizeInv
  <1>2. NamesInv' /\ FoundInv' /\ LockInv'
    BY DEF NamesInv, FoundInv, LockInv, Running, Found
  <1>3. \A c \in Conn : addr[c] \in Addr <=> phase[c] # "off"
    BY <1>1 DEF RegistryOK
  <1>4. \A c \in Conn, t \in Topic : Reachable(c, t)' => /\ Reachable(c, t)
                                                        /\ addr'[c] = addr[c]
    BY DEF Reachable
  <1>5. SubsInv'
    <2>1. \A t \in Topic \ replaced' : \A c \in Conn : Reachable(c, t)' =>
            topics'[t] # 0 /\ addr'[c] \in members'[topics'[t]]
      BY <1>4 DEF SubsInv
    <2>2. ASSUME NEW t \in Topic \ replaced', topics'[t] # 0,
                 NEW a \in members'[topics'[t]]
          PROVE  \E c \in Conn : addr'[c] = a /\ ~Stranger(c, t)'
      <3>1. a \in Addr
        BY <1>1, <2>2 DEF TypeOK
      <3>2. PICK c \in Conn : addr[c] = a /\ ~Stranger(c, t)
        BY <2>2 DEF SubsInv
      <3>3. addr'[c] = a
        BY <1>3, <3>1, <3>2
      <3>4. ~Stranger(c, t)'
        BY <3>2 DEF Stranger
      <3> QED
        BY <3>3, <3>4
    <2> QED
      BY <2>1, <2>2 DEF SubsInv
  <1>6. LoopInv'
    <2> SUFFICES ASSUME NEW p \in Conn, h[p].at = "loop", h[p].topic \notin replaced,
                        NEW c \in Conn, Reachable(c, h[p].topic)'
                 PROVE  /\ addr'[c] \notin h[p].gone
                        /\ c \in h[p].owed => \/ addr'[c] \in h[p].todo
                                              \/ Reached(c, h[p].msg)'
      BY DEF LoopInv, LoopOK
    <2>1. h[p].topic \in Topic
      BY <1>1, CommandIs DEF Running
    <2>2. Reachable(c, h[p].topic) /\ addr'[c] = addr[c]
      BY <1>4, <2>1
    <2>3. Reached(c, h[p].msg)' <=> Reached(c, h[p].msg)
      BY DEF Reached
    <2> QED
      BY <2>2, <2>3 DEF LoopInv, LoopOK
  <1>7. OnlySubscribersReached'
    BY DEF OnlySubscribersReached
  <1>8. ReachedUnlessReplaced'
    BY DEF ReachedUnlessReplaced
  <1> QED
    BY <1>2, <1>5, <1>6, <1>7, <1>8

\* Register is such a step.
LEMMA ConnectDelivery ==
    ASSUME DeliveryInv, SizeInv', NEW c \in Conn, NEW a \in Addr, Connect(c, a)
    PROVE  DeliveryInv'
  <1> USE DEF DeliveryInv
  <1>1. TypeOK /\ RegistryOK /\ RegTypeOK
    BY DEF SizeInv, TypeOK
  <1>2. /\ phase[c] = "off" /\ \E p \in Open : phase' = [phase EXCEPT ![c] = p]
        /\ addr' = [addr EXCEPT ![c] = a] /\ clients' = [clients EXCEPT ![a] = c]
        /\ UNCHANGED <<topics, size, members, lock, h, sending, wire, cmds,
                       subs, replaced, missed, uninvited>>
    BY DEF Connect, Register, topicVars, outVars, histVars
  <1>3. \A d \in Conn : phase[d] # "off" => /\ d # c /\ addr'[d] = addr[d]
                                            /\ phase'[d] = phase[d]
    BY <1>1, <1>2 DEF RegTypeOK
  <1>4. ASSUME NEW d \in Conn, NEW t \in Topic, Reachable(d, t)'
        PROVE  Reachable(d, t)
    <2>1. <<d, t>> \in subs /\ clients'[addr'[d]] = d
      BY <1>2, <1>4 DEF Reachable
    <2>2. phase[d] # "off"
      BY <2>1 DEF SubsInv
    <2>3. phase[d] = "up" /\ addr'[d] = addr[d] /\ d # c
      BY <1>3, <1>4, <2>2 DEF Reachable
    <2>4. addr[d] \in Addr
      BY <1>1, <2>2 DEF RegistryOK
    <2>5. clients[addr[d]] = d
      BY <1>1, <1>2, <2>1, <2>3, <2>4 DEF RegTypeOK
    <2> QED
      BY <2>1, <2>3, <2>5 DEF Reachable
  <1> QED
    BY <1>2, <1>3, <1>4, RegistryStep

\* A connection loses its peer, ends, or is taken out by its address.
LEMMA EndDelivery ==
    ASSUME DeliveryInv, SizeInv', NEW c \in Conn,
           HangUp(c) \/ Disconnect(c) \/ Forget(c)
    PROVE  DeliveryInv'
  <1> USE DEF DeliveryInv
  <1>1. TypeOK /\ RegistryOK /\ RegTypeOK
    BY DEF SizeInv, TypeOK
  <1>2. /\ addr' = addr
        /\ \E p \in {"lost", "ended", "gone"} : phase' = [phase EXCEPT ![c] = p]
        /\ UNCHANGED <<topics, size, members, lock, h, sending, wire, cmds,
                       subs, replaced, missed, uninvited>>
    BY DEF HangUp, Disconnect, Forget, Leave, End, Unregister, topicVars,
       outVars, histVars
  <1>3. \A d \in Addr : clients'[d] = clients[d] \/ clients'[d] = None
    BY <1>1 DEF HangUp, Disconnect, Forget, Leave, End, Unregister, RegTypeOK
  <1>4. \A d \in Conn : /\ phase[d] # "off" => phase'[d] # "off"
                        /\ phase'[d] = "up" => phase[d] = "up"
    BY <1>1, <1>2 DEF RegTypeOK
  <1>5. ASSUME NEW d \in Conn, NEW t \in Topic, Reachable(d, t)'
        PROVE  Reachable(d, t)
    <2>1. phase[d] = "up" /\ <<d, t>> \in subs /\ clients'[addr[d]] = d
      BY <1>2, <1>4, <1>5 DEF Reachable
    <2>2. addr[d] \in Addr /\ d # None
      BY <1>1, <2>1, RegistryAssumption DEF RegistryOK
    <2>3. clients[addr[d]] = d
      BY <1>3, <2>1, <2>2
    <2> QED
      BY <2>1, <2>3 DEF Reachable
  <1> QED
    BY <1>2, <1>4, <1>5, RegistryStep

\* What was recorded stays justified.
LEMMA HistoryKept ==
    ASSUME DeliveryInv, UNCHANGED <<missed, uninvited>>,
           replaced \subseteq replaced'
    PROVE  /\ OnlySubscribersReached' /\ ReachedUnlessReplaced'
           /\ uninvited' \subseteq Conn \X Topic
  BY DEF DeliveryInv, OnlySubscribersReached, ReachedUnlessReplaced

\* The loop of publish does not notice a step that takes no client out of its
\* topic, adds no subscription to it and loses no delivery.
LEMMA LoopKept ==
    ASSUME DeliveryInv, NEW p \in Conn, h[p].at = "loop", h'[p] = h[p],
           h[p].topic \notin replaced, UNCHANGED <<clients, phase, addr>>,
           members[h[p].obj] \subseteq members'[h[p].obj],
           \A d \in Conn : <<d, h[p].topic>> \in subs'
                             => <<d, h[p].topic>> \in subs,
           \A d \in Conn : phase[d] = "up" /\ Reached(d, h[p].msg)
                             => Reached(d, h[p].msg)'
    PROVE  LoopOK(p)'
  <1>1. LoopOK(p)
    BY DEF DeliveryInv, LoopInv
  <1>2. \A d \in Conn : Reachable(d, h[p].topic)'
                           => Reachable(d, h[p].topic) /\ phase[d] = "up"
    BY DEF Reachable
  <1> QED
    BY <1>1, <1>2 DEF LoopOK

\* A command is read and looks its topic up.
LEMMA LookupDelivery ==
    ASSUME DeliveryInv, SizeInv', NEW c \in Conn,
           NEW op \in {"sub", "unsub", "pub"}, NEW t \in Topic, Lookup(c, op, t)
    PROVE  DeliveryInv'
  <1> USE DEF DeliveryInv
  <1> DEFINE new == [at |-> IF topics[t] = 0 THEN "create" ELSE op,
                     topic |-> t, obj |-> topics[t], msg |-> cmds + 1]
             ends == topics[t] = 0 /\ op # "sub"
  <1>1. TypeOK /\ RegistryOK /\ TypeOK'
    BY DEF SizeInv
  <1>2. /\ phase[c] \in Open /\ h[c] = Idle /\ cmds' = cmds + 1
        /\ h' = [h EXCEPT ![c] = IF ends THEN Idle ELSE new]
        /\ subs' = IF op = "unsub" THEN subs \ {<<c, t>>} ELSE subs
        /\ UNCHANGED <<clients, phase, addr, topics, size, members, lock,
                       sending, wire, replaced, missed, uninvited>>
    BY DEF Lookup, regVars, topicVars, outVars
  <1>3. \A d \in Conn \ {c} : h'[d] = h[d]
    BY <1>1, <1>2 DEF TypeOK
  <1>4. /\ h'[c].at \in {"idle", "create", op}
        /\ h'[c].at = "idle" <=> ends
        /\ h'[c].at = "create" <=> topics[t] = 0 /\ op = "sub"
        /\ ~ends => h'[c].topic = t /\ h'[c].obj = topics[t] /\ h'[c].msg = cmds + 1
    <2>1. CASE ends
      <3>1. h'[c] = Idle
        BY <1>1, <1>2, <2>1 DEF TypeOK
      <3> QED
        BY <2>1, <3>1 DEF Idle
    <2>2. CASE ~ends
      <3>1. h'[c] = new
        BY <1>1, <1>2, <2>2 DEF TypeOK
      <3> QED
        BY <2>2, <3>1
    <2> QED
      BY <2>1, <2>2
  <1> HIDE DEF new, ends
  <1>5. h[c].at = "idle"
    BY <1>2 DEF Idle
  <1>6. /\ cmds \in Nat /\ \A u \in Topic : topics[u] \in Nat /\ topics[u] <= cmds
        /\ \A d \in Conn : Running(d) => h[d].msg \in Nat /\ h[d].msg <= cmds
        /\ \A d \in Conn : Found(d) => h[d].obj \in Nat /\ h[d].obj <= cmds
    <2>1. cmds \in Nat /\ \A u \in Topic : topics[u] \in Nat
      BY <1>1, MaxCmdsNat, ObjIs DEF TypeOK
    <2> QED
      BY <1>1, <2>1, CommandIs, ObjIs DEF NamesInv, FoundInv
  <1>7. NamesInv'
    <2>1. \A u \in Topic : topics[u] <= cmds + 1
      BY <1>6
    <2>2. \A d \in Conn : Running(d)' => h'[d].msg <= cmds + 1
      BY <1>3, <1>4, <1>6 DEF Running
    <2>3. ASSUME NEW d \in Conn, NEW e \in Conn, Running(d)', Running(e)',
                 h'[d].msg = h'[e].msg
          PROVE  d = e
      <3>1. CASE d # c /\ e # c
        BY <1>3, <2>3, <3>1 DEF NamesInv, Running
      <3>2. CASE d = c /\ e # c
        BY <1>3, <1>4, <1>6, <2>3, <3>2 DEF Running
      <3>3. CASE e = c /\ d # c
        BY <1>3, <1>4, <1>6, <2>3, <3>3 DEF Running
      <3> QED
        BY <3>1, <3>2, <3>3
    <2>4. ASSUME NEW d \in Conn, NEW u \in Topic, h'[d].at = "create"
          PROVE  topics[u] # h'[d].msg
      <3>1. CASE d = c
        BY <1>4, <1>6, <2>4, <3>1
      <3>2. CASE d # c
        BY <1>3, <2>4, <3>2 DEF NamesInv
      <3> QED
        BY <3>1, <3>2
    <2> QED
      BY <1>2, <2>1, <2>2, <2>3, <2>4 DEF NamesInv
  <1>8. FoundInv'
    <2> SUFFICES ASSUME NEW d \in Conn, Found(d)'
                 PROVE  /\ h'[d].obj <= cmds + 1
                        /\ \A u \in Topic \ {h'[d].topic} : topics[u] # h'[d].obj
                        /\ h'[d].topic \notin replaced
                             => topics[h'[d].topic] = h'[d].obj
                        /\ \A e \in Conn : h'[e].at = "create"
                                             => h'[e].msg # h'[d].obj
      BY <1>2 DEF FoundInv
    <2>1. CASE d = c
      <3>1. h'[c].obj = topics[t] /\ h'[c].topic = t /\ topics[t] # 0
        BY <1>4, <2>1 DEF Found, ends
      <3>2. \A u \in Topic \ {t} : topics[u] # topics[t]
        BY <3>1 DEF NamesInv
      <3>3. \A e \in Conn : h'[e].at = "create" => e # c /\ h'[e].msg # topics[t]
        BY <1>3, <1>4, <3>1 DEF NamesInv
      <3>4. topics[t] <= cmds + 1
        BY <1>6
      <3> QED
        BY <2>1, <3>1, <3>2, <3>3, <3>4
    <2>2. CASE d # c
      <3>1. h'[d] = h[d] /\ Found(d)
        BY <1>3, <2>2 DEF Found
      <3>2. h[d].obj \in Nat /\ h[d].obj <= cmds
        BY <1>6, <3>1
      <3>3. \A e \in Conn : h'[e].at = "create" => h'[e].msg # h[d].obj
        <4> SUFFICES ASSUME NEW e \in Conn, h'[e].at = "create"
                     PROVE  h'[e].msg # h[d].obj
          OBVIOUS
        <4>1. CASE e = c
          BY <1>4, <1>6, <3>2, <4>1
        <4>2. CASE e # c
          BY <1>3, <3>1, <4>2 DEF FoundInv
        <4> QED
          BY <4>1, <4>2
      <3> QED
        BY <1>6, <3>1, <3>2, <3>3 DEF FoundInv
    <2> QED
      BY <2>1, <2>2
  <1>9. LockInv'
    BY <1>2, <1>3, <1>4 DEF LockInv
  <1>10. \A d \in Conn, u \in Topic : Reachable(d, u)' => Reachable(d, u)
    BY <1>2 DEF Reachable
  <1>11. SubsInv'
    <2>1. \A d \in Conn : h'[d].at = "unsub" => <<d, h'[d].topic>> \notin subs'
      <3> SUFFICES ASSUME NEW d \in Conn, h'[d].at = "unsub"
                   PROVE  <<d, h'[d].topic>> \notin subs'
        OBVIOUS
      <3>1. CASE d = c
        BY <1>2, <1>4, <3>1
      <3>2. CASE d # c
        BY <1>2, <1>3, <3>2 DEF SubsInv
      <3> QED
        BY <3>1, <3>2
    <2>2. ASSUME NEW u \in Topic \ replaced, topics[u] # 0,
                 NEW a \in members[topics[u]]
          PROVE  \E e \in Conn : addr[e] = a /\ ~Stranger(e, u)'
      <3>1. PICK e \in Conn : addr[e] = a /\ ~Stranger(e, u)
        BY <2>2 DEF SubsInv
      <3>2. CASE e = c /\ u = t /\ op = "unsub"
        <4>1. h'[c].at = "unsub" /\ h'[c].topic = t
          BY <1>4, <2>2, <3>2 DEF ends
        <4> QED
          BY <3>1, <3>2, <4>1 DEF Stranger
      <3>3. CASE ~(e = c /\ u = t /\ op = "unsub")
        <4>1. <<e, u>> \in subs => <<e, u>> \in subs'
          BY <1>2, <3>3
        <4>2. h[e].at = "unsub" => h'[e] = h[e]
          BY <1>3, <1>5
        <4> QED
          BY <3>1, <4>1, <4>2 DEF Stranger
      <3> QED
        BY <3>2, <3>3
    <2>3. subs' \subseteq subs
      BY <1>2
    <2> QED
      BY <1>2, <1>10, <2>1, <2>2, <2>3 DEF SubsInv
  <1>12. LoopInv'
    <2> SUFFICES ASSUME NEW p \in Conn, h'[p].at = "loop", h'[p].topic \notin replaced
                 PROVE  LoopOK(p)'
      BY <1>2 DEF LoopInv
    <2>1. h'[p] = h[p]
      BY <1>3, <1>4
    <2>2. \A d \in Conn : Reached(d, h[p].msg)' <=> Reached(d, h[p].msg)
      BY <1>2, <2>1 DEF Reached
    <2> QED
      BY <1>2, <2>1, <2>2, LoopKept
  <1>13. /\ OnlySubscribersReached' /\ ReachedUnlessReplaced'
         /\ uninvited' \subseteq Conn \X Topic
    BY <1>2, HistoryKept
  <1> QED
    BY <1>7, <1>8, <1>9, <1>11, <1>12, <1>13

\* A command ends: those that still run are as they were.
LEMMA EndsOthers ==
    ASSUME TypeOK, NEW c \in Conn, h' = [h EXCEPT ![c] = Idle]
    PROVE  h'[c].at = "idle" /\ \A d \in Conn \ {c} : h'[d] = h[d]
  <1>1. h'[c] = Idle /\ \A d \in Conn \ {c} : h'[d] = h[d]
    BY DEF TypeOK
  <1> QED
    BY <1>1 DEF Idle

\* A command ends and leaves the map of topics as it was.
LEMMA EndsNames ==
    ASSUME TypeOK, NamesInv, FoundInv, NEW c \in Conn,
           h' = [h EXCEPT ![c] = Idle], UNCHANGED <<topics, cmds, replaced>>
    PROVE  NamesInv' /\ FoundInv'
  <1>1. h'[c].at = "idle" /\ \A d \in Conn \ {c} : h'[d] = h[d]
    BY EndsOthers
  <1>2. \A d \in Conn : /\ Running(d)' => Running(d) /\ h'[d] = h[d]
                        /\ Found(d)' => Found(d) /\ h'[d] = h[d]
                        /\ h'[d].at = "create" => h'[d] = h[d]
    BY <1>1 DEF Running, Found
  <1>3. NamesInv'
    BY <1>2 DEF NamesInv
  <1>4. FoundInv'
    BY <1>2 DEF FoundInv
  <1> QED
    BY <1>3, <1>4

\* A topic that a running command has looked up exists, unless replaced.
LEMMA TopicOf ==
    ASSUME DeliveryInv, NEW d \in Conn, Found(d)
    PROVE  /\ h[d].topic \in Topic /\ h[d].obj \in Obj /\ h[d].obj # 0
           /\ h[d].topic \notin replaced => topics[h[d].topic] = h[d].obj
           /\ \A u \in Topic \ {h[d].topic} : topics[u] # h[d].obj
           /\ Running(d)
  <1>1. TypeOK /\ FoundInv /\ Running(d)
    BY DEF DeliveryInv, SizeInv, Found, Running
  <1> QED
    BY <1>1, CommandIs, ObjIs DEF FoundInv

\* A topic is created, or replaced.
LEMMA CreateDelivery ==
    ASSUME DeliveryInv, SizeInv', NEW c \in Conn, CreateTopic(c)
    PROVE  DeliveryInv'
  <1> USE DEF DeliveryInv
  <1> DEFINE t == h[c].topic
             o == h[c].msg
  <1>1. TypeOK /\ RegistryOK /\ CommandInv
    BY DEF SizeInv
  <1>2. /\ h[c].at = "create"
        /\ topics' = [topics EXCEPT ![t] = o]
        /\ members' = [members EXCEPT ![o] = {addr[c]}]
        /\ replaced' = IF topics[t] = 0 THEN replaced ELSE replaced \cup {t}
        /\ subs' = subs \cup {<<c, t>>} /\ h' = [h EXCEPT ![c] = Idle]
        /\ UNCHANGED <<clients, phase, addr, lock, sending, wire, cmds, missed,
                       uninvited>>
    BY DEF CreateTopic, regVars, outVars
  <1>3. /\ t \in Topic /\ o \in Obj /\ o # 0 /\ o <= cmds /\ Running(c)
        /\ phase[c] # "off"
    BY <1>1, <1>2, CommandIs, ObjIs DEF Running, NamesInv, CommandInv, Open
  <1>4. h'[c].at = "idle" /\ \A d \in Conn \ {c} : h'[d] = h[d]
    BY <1>1, <1>2, EndsOthers
  <1>5. /\ topics'[t] = o /\ \A u \in Topic \ {t} : topics'[u] = topics[u]
        /\ members'[o] = {addr[c]} /\ \A x \in Obj \ {o} : members'[x] = members[x]
    BY <1>1, <1>2, <1>3 DEF TypeOK
  <1>6. \A u \in Topic : topics[u] # o /\ (topics[u] # 0 => topics[u] \in Obj)
    BY <1>1, <1>2 DEF NamesInv, TypeOK
  <1>7. \A d \in Conn : /\ Running(d)' => d # c /\ Running(d) /\ h'[d] = h[d]
                        /\ Found(d)' => d # c /\ Found(d) /\ h'[d] = h[d]
    BY <1>4 DEF Running, Found
  <1>8. replaced \subseteq replaced' /\ (t \notin replaced' => topics[t] = 0)
    BY <1>2
  <1>9. NamesInv'
    <2>1. \A u \in Topic : topics'[u] <= cmds
      BY <1>3, <1>5 DEF NamesInv
    <2>2. \A u, v \in Topic : topics'[u] = topics'[v] /\ topics'[u] # 0 => u = v
      BY <1>5, <1>6 DEF NamesInv
    <2>3. \A d \in Conn : Running(d)' => h'[d].msg <= cmds
      BY <1>7 DEF NamesInv
    <2>4. \A d, e \in Conn :
            Running(d)' /\ Running(e)' /\ h'[d].msg = h'[e].msg => d = e
      BY <1>7 DEF NamesInv
    <2>5. ASSUME NEW d \in Conn, NEW u \in Topic, h'[d].at = "create"
          PROVE  topics'[u] # h'[d].msg
      <3>1. d # c /\ h'[d] = h[d] /\ Running(d)
        BY <1>4, <2>5 DEF Running
      <3>2. h[d].msg # o
        BY <1>3, <3>1 DEF NamesInv
      <3> QED
        BY <1>5, <2>5, <3>1, <3>2 DEF NamesInv
    <2> QED
      BY <1>2, <2>1, <2>2, <2>3, <2>4, <2>5 DEF NamesInv
  <1>10. ASSUME NEW d \in Conn, Found(d)'
         PROVE  /\ Found(d) /\ h'[d] = h[d] /\ h[d].obj # o
                /\ h[d].topic \notin replaced' => h[d].topic # t
    <2>1. Found(d) /\ h'[d] = h[d]
      BY <1>7, <1>10
    <2>2. h[d].obj # o
      BY <1>2, <2>1 DEF FoundInv
    <2>3. h[d].topic \notin replaced' => h[d].topic # t
      BY <1>8, <2>1, TopicOf
    <2> QED
      BY <2>1, <2>2, <2>3
  <1>11. FoundInv'
    <2> SUFFICES ASSUME NEW d \in Conn, Found(d)'
                 PROVE  /\ h'[d].obj <= cmds
                        /\ \A u \in Topic \ {h'[d].topic} : topics'[u] # h'[d].obj
                        /\ h'[d].topic \notin replaced'
                             => topics'[h'[d].topic] = h'[d].obj
                        /\ \A e \in Conn : h'[e].at = "create"
                                             => h'[e].msg # h'[d].obj
      BY <1>2 DEF FoundInv
    <2>1. /\ Found(d) /\ h'[d] = h[d] /\ h[d].obj # o
          /\ h[d].topic \notin replaced' => h[d].topic # t
      BY <1>10
    <2>2. \A u \in Topic \ {h[d].topic} : topics'[u] # h[d].obj
      BY <1>5, <2>1 DEF FoundInv
    <2>3. h[d].topic \notin replaced' => topics'[h[d].topic] = h[d].obj
      BY <1>5, <1>8, <2>1, TopicOf
    <2>4. \A e \in Conn : h'[e].at = "create" => h'[e].msg # h[d].obj
      BY <1>4, <2>1 DEF FoundInv
    <2>5. h[d].obj <= cmds
      BY <2>1 DEF FoundInv
    <2> QED
      BY <2>1, <2>2, <2>3, <2>4, <2>5
  <1>12. LockInv'
    BY <1>2, <1>4 DEF LockInv
  <1>13. SubsInv'
    <2>1. subs' \subseteq Conn \X Topic
      BY <1>2, <1>3 DEF SubsInv
    <2>2. \A d \in Conn, u \in Topic : <<d, u>> \in subs' => phase[d] # "off"
      BY <1>2, <1>3 DEF SubsInv
    <2>3. \A d \in Conn : h'[d].at = "unsub" => <<d, h'[d].topic>> \notin subs'
      BY <1>2, <1>4 DEF SubsInv
    <2>4. ASSUME NEW u \in Topic \ replaced', NEW d \in Conn, Reachable(d, u)'
          PROVE  topics'[u] # 0 /\ addr[d] \in members'[topics'[u]]
      <3>1. CASE d = c /\ u = t
        BY <1>3, <1>5, <3>1
      <3>2. CASE ~(d = c /\ u = t)
        <4>1. Reachable(d, u)
          BY <1>2, <2>4, <3>2 DEF Reachable
        <4>2. topics[u] # 0 /\ addr[d] \in members[topics[u]]
          BY <1>8, <4>1 DEF SubsInv
        <4>3. u # t
          BY <1>8, <4>2
        <4> QED
          BY <1>5, <1>6, <4>2, <4>3
      <3> QED
        BY <3>1, <3>2
    <2>5. ASSUME NEW u \in Topic \ replaced', topics'[u] # 0,
                 NEW a \in members'[topics'[u]]
          PROVE  \E e \in Conn : addr[e] = a /\ ~Stranger(e, u)'
      <3>1. CASE u = t
        <4>1. a = addr[c] /\ <<c, t>> \in subs'
          BY <1>2, <1>5, <2>5, <3>1
        <4> QED
          BY <3>1, <4>1 DEF Stranger
      <3>2. CASE u # t
        <4>1. topics[u] # 0 /\ a \in members[topics[u]] /\ u \notin replaced
          BY <1>5, <1>6, <1>8, <2>5, <3>2
        <4>2. PICK e \in Conn : addr[e] = a /\ ~Stranger(e, u)
          BY <4>1 DEF SubsInv
        <4>3. h[e].at = "unsub" => h'[e] = h[e]
          BY <1>2, <1>4
        <4> QED
          BY <1>2, <4>2, <4>3 DEF Stranger
      <3> QED
        BY <3>1, <3>2
    <2> QED
      BY <1>2, <2>1, <2>2, <2>3, <2>4, <2>5 DEF SubsInv
  <1>14. LoopInv'
    <2> SUFFICES ASSUME NEW p \in Conn, h'[p].at = "loop", h'[p].topic \notin replaced'
                 PROVE  LoopOK(p)'
      BY DEF LoopInv
    <2>1. /\ Found(p) /\ h'[p] = h[p] /\ h[p].obj # o /\ h[p].topic # t
      BY <1>10 DEF Found
    <2>2. members'[h[p].obj] = members[h[p].obj] /\ h[p].topic \notin replaced
      BY <1>5, <1>8, <2>1, TopicOf
    <2>3. \A d \in Conn : <<d, h[p].topic>> \in subs' => <<d, h[p].topic>> \in subs
      BY <1>2, <2>1
    <2>4. \A d \in Conn : Reached(d, h[p].msg)' <=> Reached(d, h[p].msg)
      BY <1>2, <2>1 DEF Reached
    <2> QED
      BY <1>2, <2>1, <2>2, <2>3, <2>4, LoopKept
  <1>15. /\ OnlySubscribersReached' /\ ReachedUnlessReplaced'
         /\ uninvited' \subseteq Conn \X Topic
    BY <1>2, <1>8, HistoryKept
  <1> QED
    BY <1>9, <1>11, <1>12, <1>13, <1>14, <1>15

\* While publish holds the mutex of a topic that was not replaced, a command
\* that needs the mutex of its own topic is on another topic and object.
LEMMA LoopElsewhere ==
    ASSUME DeliveryInv, NEW c \in Conn, Found(c), lock[h[c].obj] = None,
           NEW p \in Conn, h[p].at = "loop", h[p].topic \notin replaced
    PROVE  h[p].obj # h[c].obj /\ h[p].topic # h[c].topic
  <1>1. lock[h[p].obj] = p /\ Found(p) /\ p # None
    BY RegistryAssumption DEF DeliveryInv, LockInv, Found
  <1>2. h[p].obj # h[c].obj
    BY <1>1
  <1> QED
    BY <1>1, <1>2, TopicOf

\* The locked section of subscribe.
LEMMA SubscribeDelivery ==
    ASSUME DeliveryInv, SizeInv', NEW c \in Conn, Subscribe(c)
    PROVE  DeliveryInv'
  <1> USE DEF DeliveryInv
  <1> DEFINE t == h[c].topic
             o == h[c].obj
  <1>1. TypeOK /\ RegistryOK /\ CommandInv
    BY DEF SizeInv
  <1>2. /\ h[c].at = "sub" /\ lock[o] = None
        /\ members' = [members EXCEPT ![o] = @ \cup {addr[c]}]
        /\ subs' = subs \cup {<<c, t>>} /\ h' = [h EXCEPT ![c] = Idle]
        /\ UNCHANGED <<clients, phase, addr, topics, lock, sending, wire, cmds,
                       replaced, missed, uninvited>>
    BY DEF Subscribe, regVars, outVars
  <1>3. Found(c) /\ phase[c] # "off"
    BY <1>1, <1>2 DEF Found, CommandInv, Open
  <1>4. /\ t \in Topic /\ o \in Obj /\ o # 0
        /\ t \notin replaced => topics[t] = o
        /\ \A u \in Topic \ {t} : topics[u] # o
    BY <1>3, TopicOf
  <1>5. h'[c].at = "idle" /\ \A d \in Conn \ {c} : h'[d] = h[d]
    BY <1>1, <1>2, EndsOthers
  <1>6. /\ members'[o] = members[o] \cup {addr[c]}
        /\ \A x \in Obj \ {o} : members'[x] = members[x]
    BY <1>1, <1>2, <1>4 DEF TypeOK
  <1>7. \A u \in Topic : topics[u] # 0 => topics[u] \in Obj
    BY <1>1 DEF TypeOK
  <1>8. NamesInv' /\ FoundInv'
    BY <1>1, <1>2, EndsNames
  <1>9. LockInv'
    BY <1>2, <1>5 DEF LockInv
  <1>10. SubsInv'
    <2>1. subs' \subseteq Conn \X Topic
      BY <1>2, <1>4 DEF SubsInv
    <2>2. \A d \in Conn, u \in Topic : <<d, u>> \in subs' => phase[d] # "off"
      BY <1>2, <1>3 DEF SubsInv
    <2>3. \A d \in Conn : h'[d].at = "unsub" => <<d, h'[d].topic>> \notin subs'
      BY <1>2, <1>5 DEF SubsInv
    <2>4. ASSUME NEW u \in Topic \ replaced, NEW d \in Conn, Reachable(d, u)'
          PROVE  topics[u] # 0 /\ addr[d] \in members'[topics[u]]
      <3>1. CASE d = c /\ u = t
        BY <1>4, <1>6, <3>1
      <3>2. CASE ~(d = c /\ u = t)
        <4>1. Reachable(d, u)
          BY <1>2, <2>4, <3>2 DEF Reachable
        <4>2. topics[u] # 0 /\ addr[d] \in members[topics[u]]
          BY <4>1 DEF SubsInv
        <4> QED
          BY <1>6, <1>7, <4>2
      <3> QED
        BY <3>1, <3>2
    <2>5. ASSUME NEW u \in Topic \ replaced, topics[u] # 0,
                 NEW a \in members'[topics[u]]
          PROVE  \E e \in Conn : addr[e] = a /\ ~Stranger(e, u)'
      <3>1. CASE a \in members[topics[u]]
        <4>1. PICK e \in Conn : addr[e] = a /\ ~Stranger(e, u)
          BY <2>5, <3>1 DEF SubsInv
        <4>2. h[e].at = "unsub" => h'[e] = h[e]
          BY <1>2, <1>5
        <4> QED
          BY <1>2, <4>1, <4>2 DEF Stranger
      <3>2. CASE a \notin members[topics[u]]
        <4>1. topics[u] = o /\ a = addr[c]
          BY <1>6, <1>7, <2>5, <3>2
        <4>2. u = t /\ <<c, t>> \in subs'
          BY <1>2, <1>4, <4>1
        <4> QED
          BY <4>1, <4>2 DEF Stranger
      <3> QED
        BY <3>1, <3>2
    <2> QED
      BY <1>2, <2>1, <2>2, <2>3, <2>4, <2>5 DEF SubsInv
  <1>11. LoopInv'
    <2> SUFFICES ASSUME NEW p \in Conn, h'[p].at = "loop", h'[p].topic \notin replaced
                 PROVE  LoopOK(p)'
      BY <1>2 DEF LoopInv
    <2>1. h'[p] = h[p] /\ h[p].at = "loop" /\ h[p].topic \notin replaced
      BY <1>5
    <2>2. h[p].obj # o /\ h[p].topic # t /\ h[p].obj \in Obj
      BY <1>2, <1>3, <2>1, LoopElsewhere, TopicOf DEF Found
    <2>3. \A d \in Conn : <<d, h[p].topic>> \in subs' => <<d, h[p].topic>> \in subs
      BY <1>2, <2>2
    <2>4. \A d \in Conn : Reached(d, h[p].msg)' <=> Reached(d, h[p].msg)
      BY <1>2, <2>1 DEF Reached
    <2> QED
      BY <1>2, <1>6, <2>1, <2>2, <2>3, <2>4, LoopKept
  <1>12. /\ OnlySubscribersReached' /\ ReachedUnlessReplaced'
         /\ uninvited' \subseteq Conn \X Topic
    BY <1>2, HistoryKept
  <1> QED
    BY <1>8, <1>9, <1>10, <1>11, <1>12

\* The locked section of unsubscribe, which ends every subscription of the
\* address.
LEMMA UnsubscribeDelivery ==
    ASSUME DeliveryInv, SizeInv', NEW c \in Conn, Unsubscribe(c)
    PROVE  DeliveryInv'
  <1> USE DEF DeliveryInv
  <1> DEFINE t == h[c].topic
             o == h[c].obj
  <1>1. TypeOK
    BY DEF SizeInv
  <1>2. /\ h[c].at = "unsub" /\ lock[o] = None
        /\ members' = [members EXCEPT ![o] = @ \ {addr[c]}]
        /\ subs' = {s \in subs : s[2] # t \/ addr[s[1]] # addr[c]}
        /\ h' = [h EXCEPT ![c] = Idle]
        /\ UNCHANGED <<clients, phase, addr, topics, lock, sending, wire, cmds,
                       replaced, missed, uninvited>>
    BY DEF Unsubscribe, regVars, outVars
  <1>3. Found(c)
    BY <1>2 DEF Found
  <1>4. /\ t \in Topic /\ o \in Obj /\ o # 0
        /\ t \notin replaced => topics[t] = o
        /\ \A u \in Topic \ {t} : topics[u] # o
    BY <1>3, TopicOf
  <1>5. h'[c].at = "idle" /\ \A d \in Conn \ {c} : h'[d] = h[d]
    BY <1>1, <1>2, EndsOthers
  <1>6. /\ members'[o] = members[o] \ {addr[c]}
        /\ \A x \in Obj \ {o} : members'[x] = members[x]
    BY <1>1, <1>2, <1>4 DEF TypeOK
  <1>7. \A u \in Topic : topics[u] # 0 => topics[u] \in Obj
    BY <1>1 DEF TypeOK
  <1>8. NamesInv' /\ FoundInv'
    BY <1>1, <1>2, EndsNames
  <1>9. LockInv'
    BY <1>2, <1>5 DEF LockInv
  <1>10. \A d \in Conn, u \in Topic :
           /\ <<d, u>> \in subs' <=> /\ <<d, u>> \in subs
                                     /\ u # t \/ addr[d] # addr[c]
           /\ Reachable(d, u)' => /\ Reachable(d, u)
                                  /\ u # t \/ addr[d] # addr[c]
    <2>1. \A d \in Conn, u \in Topic :
            <<d, u>> \in subs' <=> <<d, u>> \in subs
                                   /\ (u # t \/ addr[d] # addr[c])
      BY <1>2
    <2> QED
      BY <1>2, <2>1 DEF Reachable
  <1>11. SubsInv'
    <2>1. \A d \in Conn : h'[d].at = "unsub" => <<d, h'[d].topic>> \notin subs'
      BY <1>2, <1>5 DEF SubsInv
    <2>2. ASSUME NEW u \in Topic \ replaced, NEW d \in Conn, Reachable(d, u)'
          PROVE  topics[u] # 0 /\ addr[d] \in members'[topics[u]]
      <3>1. /\ topics[u] # 0 /\ addr[d] \in members[topics[u]]
            /\ u # t \/ addr[d] # addr[c]
        BY <1>10, <2>2 DEF SubsInv
      <3>2. CASE u = t
        BY <1>4, <1>6, <3>1, <3>2
      <3>3. CASE u # t
        BY <1>4, <1>6, <1>7, <3>1, <3>3
      <3> QED
        BY <3>2, <3>3
    <2>3. ASSUME NEW u \in Topic \ replaced, topics[u] # 0,
                 NEW a \in members'[topics[u]]
          PROVE  \E e \in Conn : addr[e] = a /\ ~Stranger(e, u)'
      <3>1. a \in members[topics[u]] /\ (u = t => a # addr[c])
        BY <1>4, <1>6, <1>7, <2>3
      <3>2. PICK e \in Conn : addr[e] = a /\ ~Stranger(e, u)
        BY <2>3, <3>1 DEF SubsInv
      <3>3. <<e, u>> \in subs => <<e, u>> \in subs'
        BY <1>10, <3>1, <3>2
      <3>4. h[e].at = "unsub" /\ h[e].topic = u => h'[e] = h[e]
        BY <1>5, <3>1, <3>2
      <3> QED
        BY <3>2, <3>3, <3>4 DEF Stranger
    <2>4. subs' \subseteq subs
      BY <1>2
    <2> QED
      BY <1>2, <2>1, <2>2, <2>3, <2>4 DEF SubsInv
  <1>12. LoopInv'
    <2> SUFFICES ASSUME NEW p \in Conn, h'[p].at = "loop", h'[p].topic \notin replaced
                 PROVE  LoopOK(p)'
      BY <1>2 DEF LoopInv
    <2>1. h'[p] = h[p] /\ h[p].at = "loop" /\ h[p].topic \notin replaced
      BY <1>5
    <2>2. h[p].obj # o /\ h[p].obj \in Obj
      BY <1>2, <1>3, <2>1, LoopElsewhere, TopicOf DEF Found
    <2>3. \A d \in Conn : Reached(d, h[p].msg)' <=> Reached(d, h[p].msg)
      BY <1>2, <2>1 DEF Reached
    <2> QED
      BY <1>2, <1>6, <2>1, <2>2, <2>3, LoopKept
  <1>13. /\ OnlySubscribersReached' /\ ReachedUnlessReplaced'
         /\ uninvited' \subseteq Conn \X Topic
    BY <1>2, HistoryKept
  <1> QED
    BY <1>8, <1>9, <1>11, <1>12, <1>13

\* A command changes its state and keeps its topic, object and message; the
\* map of topics stays as it was.
LEMMA SameNames ==
    ASSUME TypeOK, NamesInv, FoundInv, NEW c \in Conn, Found(c), Found(c)',
           h'[c].topic = h[c].topic, h'[c].obj = h[c].obj, h'[c].msg = h[c].msg,
           \A d \in Conn \ {c} : h'[d] = h[d],
           UNCHANGED <<topics, cmds, replaced>>
    PROVE  NamesInv' /\ FoundInv'
  <1>1. \A d \in Conn : /\ Running(d)' => Running(d) /\ h'[d].msg = h[d].msg
                        /\ h'[d].at = "create" => h'[d] = h[d]
                        /\ Found(d)' => /\ Found(d) /\ h'[d].obj = h[d].obj
                                        /\ h'[d].topic = h[d].topic
    BY DEF Running, Found
  <1>2. NamesInv'
    BY <1>1 DEF NamesInv
  <1>3. FoundInv'
    BY <1>1 DEF FoundInv
  <1> QED
    BY <1>2, <1>3

\* publish takes the mutex: whoever ought to be reached is in its topic, so
\* size is not 0 and the address is among those it will visit.
LEMMA LocksDelivery ==
    ASSUME DeliveryInv, SizeInv', NEW c \in Conn, PublishLocks(c)
    PROVE  DeliveryInv'
  <1> USE DEF DeliveryInv
  <1> DEFINE t == h[c].topic
             o == h[c].obj
             todo == IF size[o] > 0 THEN members[o] ELSE {}
  <1>1. /\ TypeOK /\ SizeCoversMembers /\ \A x \in Obj : IsFiniteSet(members[x])
    BY DEF SizeInv
  <1>2. /\ h[c].at = "pub" /\ lock[o] = None
        /\ lock' = [lock EXCEPT ![o] = c]
        /\ h' = [h EXCEPT ![c] =
                   [at |-> "loop", topic |-> t, obj |-> o, msg |-> h[c].msg,
                    gone |-> {}, todo |-> todo, owed |-> Subscribers(t)]]
        /\ UNCHANGED <<clients, phase, addr, topics, size, members, sending,
                       wire, cmds, subs, replaced, missed, uninvited>>
    BY DEF PublishLocks, regVars, outVars, histVars
  <1>3. Found(c)
    BY <1>2 DEF Found
  <1>4. /\ t \in Topic /\ o \in Obj /\ o # 0
        /\ t \notin replaced => topics[t] = o
    BY <1>3, TopicOf
  <1>5. /\ h'[c].at = "loop" /\ h'[c].topic = t /\ h'[c].obj = o
        /\ h'[c].msg = h[c].msg /\ h'[c].gone = {} /\ h'[c].todo = todo
        /\ \A d \in Conn \ {c} : h'[d] = h[d]
    BY <1>1, <1>2 DEF TypeOK
  <1> HIDE DEF todo
  <1>6. NamesInv' /\ FoundInv'
    BY <1>1, <1>2, <1>3, <1>5, SameNames DEF Found
  <1>7. LockInv'
    <2> SUFFICES ASSUME NEW p \in Conn, h'[p].at = "loop"
                 PROVE  lock'[h'[p].obj] = p
      BY DEF LockInv
    <2>1. CASE p = c
      BY <1>1, <1>2, <1>4, <1>5, <2>1 DEF TypeOK
    <2>2. CASE p # c
      <3>1. h'[p] = h[p] /\ lock[h[p].obj] = p /\ p # None
        BY <1>5, <2>2, RegistryAssumption DEF LockInv
      <3>2. h[p].obj # o /\ h[p].obj \in Obj
        BY <1>2, <1>5, <2>2, <3>1, TopicOf DEF Found
      <3> QED
        BY <1>1, <1>2, <3>1, <3>2 DEF TypeOK
    <2> QED
      BY <2>1, <2>2
  <1>8. \A d \in Conn, u \in Topic : /\ Reachable(d, u)' <=> Reachable(d, u)
                                     /\ Stranger(d, u)' <=> Stranger(d, u)
    BY <1>2, <1>5 DEF Reachable, Stranger
  <1>9. SubsInv'
    <2>1. \A d \in Conn : h'[d].at = "unsub" => <<d, h'[d].topic>> \notin subs
      BY <1>5 DEF SubsInv
    <2> QED
      BY <1>2, <1>8, <2>1 DEF SubsInv
  <1>10. LoopInv'
    <2> SUFFICES ASSUME NEW p \in Conn, h'[p].at = "loop", h'[p].topic \notin replaced
                 PROVE  LoopOK(p)'
      BY <1>2 DEF LoopInv
    <2>1. CASE p = c
      <3>1. topics[t] = o
        BY <1>4, <1>5, <2>1
      <3>2. ASSUME NEW d \in Conn, Reachable(d, t)
            PROVE  addr[d] \in todo
        <4>1. addr[d] \in members[o]
          BY <1>4, <1>5, <2>1, <3>1, <3>2 DEF SubsInv
        <4>2. Cardinality(members[o]) \in Nat /\ Cardinality(members[o]) # 0
          BY <1>1, <1>4, <4>1, FS_EmptySet, FS_CardinalityType
        <4>3. size[o] >= Cardinality(members[o]) /\ size[o] \in Nat
          BY <1>1, <1>4 DEF SizeCoversMembers, TypeOK
        <4>4. size[o] > 0
          BY <4>2, <4>3
        <4> QED
          BY <4>1, <4>4 DEF todo
      <3>3. todo \subseteq members[o]
        BY DEF todo
      <3>4. \A d \in Conn : Reachable(d, h[c].topic)' => Reachable(d, t)
        BY <1>2, <1>5 DEF Reachable
      <3>5. \A d \in Conn : Reachable(d, h[c].topic)' =>
              addr'[d] \notin h'[c].gone /\ addr'[d] \in h'[c].todo
        BY <1>2, <1>5, <3>2, <3>4
      <3>6. h'[c].todo \subseteq members'[h'[c].obj]
        BY <1>2, <1>5, <3>3
      <3> QED
        BY <2>1, <3>5, <3>6 DEF LoopOK
    <2>2. CASE p # c
      <3>1. h'[p] = h[p]
        BY <1>5, <2>2
      <3>2. \A d \in Conn : Reached(d, h[p].msg)' <=> Reached(d, h[p].msg)
        BY <1>2, <3>1 DEF Reached
      <3> QED
        BY <1>2, <3>1, <3>2, LoopKept
    <2> QED
      BY <2>1, <2>2
  <1>11. /\ OnlySubscribersReached' /\ ReachedUnlessReplaced'
         /\ uninvited' \subseteq Conn \X Topic
    BY <1>2, HistoryKept
  <1> QED
    BY <1>6, <1>7, <1>9, <1>10, <1>11

\* Who is found under an address of the topic and is a stranger to it has the
\* address from an earlier connection that has not unsubscribed.
LEMMA StrangerIsHeir ==
    ASSUME DeliveryInv, NEW t \in Topic \ replaced, topics[t] # 0,
           NEW a \in members[topics[t]], NEW d \in Conn, clients[a] = d,
           Stranger(d, t)
    PROVE  Heir(d, t)
  <1> USE DEF DeliveryInv
  <1>1. TypeOK /\ RegistryOK
    BY DEF SizeInv
  <1>2. a \in Addr
    BY <1>1 DEF TypeOK
  <1>3. PICK e \in Conn : addr[e] = a /\ ~Stranger(e, t)
    BY DEF SubsInv
  <1>4. e # d /\ addr[d] = a /\ d # None
    BY <1>1, <1>2, <1>3, RegistryAssumption DEF RegistryOK, EntriesCurrent
  <1>5. phase[e] # "up"
    BY <1>1, <1>3, <1>4 DEF RegistryOK, EntryIsOwn
  <1> QED
    BY <1>3, <1>4, <1>5 DEF Heir

\* publish visits one address: it delivers, or notes that nobody is there.
LEMMA NextDelivery ==
    ASSUME DeliveryInv, SizeInv', NEW c \in Conn, NEW a \in Addr, PublishNext(c, a)
    PROVE  DeliveryInv'
  <1> USE DEF DeliveryInv
  <1> DEFINE t == h[c].topic
             new == [to |-> clients[a], msg |-> h[c].msg, from |-> c, part |-> 1]
  <1>1. TypeOK /\ RegistryOK /\ RegTypeOK
    BY DEF SizeInv, TypeOK
  <1>2. /\ h[c].at = "loop" /\ a \in h[c].todo
        /\ UNCHANGED <<clients, phase, addr, topics, size, members, lock, wire,
                       cmds, subs, replaced, missed>>
    BY DEF PublishNext, regVars, topicVars
  <1>3. Found(c)
    BY <1>2 DEF Found
  <1>4. /\ t \in Topic /\ h[c].obj \in Obj /\ h[c].obj # 0
        /\ t \notin replaced => topics[t] = h[c].obj
    BY <1>3, TopicOf
  <1>5. /\ h'[c].at = "loop" /\ h'[c].topic = t /\ h'[c].obj = h[c].obj
        /\ h'[c].msg = h[c].msg /\ h'[c].owed = h[c].owed
        /\ h'[c].todo = h[c].todo \ {a}
        /\ h'[c].gone = IF clients[a] # None THEN h[c].gone ELSE h[c].gone \cup {a}
        /\ \A d \in Conn \ {c} : h'[d] = h[d]
    <2> DEFINE seen == [h[c] EXCEPT !.todo = @ \ {a}]
               lost == [h[c] EXCEPT !.todo = @ \ {a}, !.gone = @ \cup {a}]
    <2>1. h[c] \in [at : {"loop"}, topic : Topic, obj : Obj, msg : Obj,
                    todo : SUBSET Addr, gone : SUBSET Addr, owed : SUBSET Conn]
      <3>1. h[c] \in Command
        BY <1>1 DEF TypeOK
      <3> QED
        BY <1>2, <3>1 DEF Command, Idle
    <2>2. /\ seen.at = "loop" /\ seen.topic = t /\ seen.obj = h[c].obj
          /\ seen.msg = h[c].msg /\ seen.owed = h[c].owed
          /\ seen.todo = h[c].todo \ {a} /\ seen.gone = h[c].gone
      BY <2>1
    <2>3. /\ lost.at = "loop" /\ lost.topic = t /\ lost.obj = h[c].obj
          /\ lost.msg = h[c].msg /\ lost.owed = h[c].owed
          /\ lost.todo = h[c].todo \ {a} /\ lost.gone = h[c].gone \cup {a}
      BY <2>1
    <2>4. h' = IF clients[a] # None THEN [h EXCEPT ![c] = seen]
                                    ELSE [h EXCEPT ![c] = lost]
      BY <1>1 DEF PublishNext, TypeOK
    <2> HIDE DEF seen, lost
    <2>5. \A d \in Conn \ {c} : h'[d] = h[d]
      BY <1>1, <2>4 DEF TypeOK
    <2>6. h'[c] = IF clients[a] # None THEN seen ELSE lost
      BY <1>1, <2>4 DEF TypeOK
    <2> QED
      BY <2>2, <2>3, <2>5, <2>6
  <1>6. /\ sending \subseteq sending'
        /\ clients[a] # None => new \in sending'
    BY DEF PublishNext
  <1>7. NamesInv' /\ FoundInv'
    BY <1>1, <1>2, <1>3, <1>5, SameNames DEF Found
  <1>8. LockInv'
    BY <1>2, <1>5 DEF LockInv
  <1>9. \A d \in Conn, u \in Topic : /\ Reachable(d, u)' <=> Reachable(d, u)
                                     /\ Stranger(d, u)' <=> Stranger(d, u)
    BY <1>2, <1>5 DEF Reachable, Stranger
  <1>10. SubsInv'
    <2>1. \A d \in Conn : h'[d].at = "unsub" => <<d, h'[d].topic>> \notin subs
      BY <1>5 DEF SubsInv
    <2> QED
      BY <1>2, <1>9, <2>1 DEF SubsInv
  <1>11. LoopInv'
    <2> SUFFICES ASSUME NEW p \in Conn, h'[p].at = "loop", h'[p].topic \notin replaced
                 PROVE  LoopOK(p)'
      BY <1>2 DEF LoopInv
    <2>1. CASE p = c
      <3>1. LoopOK(c)
        BY <1>2, <1>5, <2>1 DEF LoopInv
      <3>2. h'[c].todo \subseteq members'[h'[c].obj]
        BY <1>2, <1>5, <3>1 DEF LoopOK
      <3>3. ASSUME NEW d \in Conn, Reachable(d, h[c].topic)'
            PROVE  /\ addr'[d] \notin h'[c].gone
                   /\ d \in h'[c].owed => \/ addr'[d] \in h'[c].todo
                                          \/ Reached(d, h[c].msg)'
        <4>1. Reachable(d, t) /\ d # None
          BY <1>2, <1>5, <3>3, RegistryAssumption DEF Reachable
        <4>2. /\ addr[d] \notin h[c].gone
              /\ d \in h[c].owed => addr[d] \in h[c].todo \/ Reached(d, h[c].msg)
          BY <3>1, <4>1 DEF LoopOK
        <4>3. Reached(d, h[c].msg) => Reached(d, h[c].msg)'
          BY <1>2, <1>5, <1>6 DEF Reached
        <4>4. CASE addr[d] = a
          <5>1. clients[a] = d
            BY <4>1, <4>4 DEF Reachable
          <5>2. new \in sending' /\ new.to = d /\ new.msg = h[c].msg
            BY <1>6, <4>1, <5>1
          <5>3. Reached(d, h[c].msg)'
            BY <1>5, <5>2 DEF Reached
          <5> QED
            BY <1>2, <1>5, <4>1, <4>2, <5>1, <5>3
        <4>5. CASE addr[d] # a
          BY <1>2, <1>5, <4>2, <4>3, <4>5
        <4> QED
          BY <4>4, <4>5
      <3> QED
        BY <2>1, <3>2, <3>3 DEF LoopOK
    <2>2. CASE p # c
      <3>1. h'[p] = h[p]
        BY <1>5, <2>2
      <3>2. \A d \in Conn : Reached(d, h[p].msg) => Reached(d, h[p].msg)'
        BY <1>2, <1>6, <3>1 DEF Reached
      <3> QED
        BY <1>2, <3>1, <3>2, LoopKept
    <2> QED
      BY <2>1, <2>2
  <1>12. ReachedUnlessReplaced'
    BY <1>2 DEF ReachedUnlessReplaced
  <1>13. \A u \in uninvited' : \/ u \in uninvited
                               \/ /\ u = <<clients[a], t>> /\ clients[a] # None
                                  /\ Stranger(clients[a], t) /\ ~Heir(clients[a], t)
    BY DEF PublishNext
  <1>14. clients[a] # None => clients[a] \in Conn
    BY <1>1 DEF RegTypeOK
  <1>15. uninvited' \subseteq Conn \X Topic
    BY <1>4, <1>13, <1>14
  <1>16. OnlySubscribersReached'
    <2> SUFFICES ASSUME NEW u \in uninvited', u[2] \notin replaced
                 PROVE  FALSE
      BY <1>2 DEF OnlySubscribersReached
    <2>1. CASE u \in uninvited
      BY <2>1 DEF OnlySubscribersReached
    <2>2. CASE u \notin uninvited
      <3>1. /\ u[1] = clients[a] /\ u[2] = t /\ u[1] \in Conn
            /\ Stranger(u[1], t) /\ ~Heir(u[1], t)
        BY <1>13, <1>14, <2>2
      <3>2. LoopOK(c) /\ topics[t] = h[c].obj
        BY <1>2, <1>4, <3>1 DEF LoopInv
      <3>3. a \in members[topics[t]] /\ topics[t] # 0
        BY <1>2, <1>4, <3>2 DEF LoopOK
      <3> QED
        BY <1>4, <3>1, <3>3, StrangerIsHeir
    <2> QED
      BY <2>1, <2>2
  <1> QED
    BY <1>7, <1>8, <1>10, <1>11, <1>12, <1>15, <1>16

\* publish takes out those it found gone and releases the mutex.
LEMMA UnlocksDelivery ==
    ASSUME DeliveryInv, SizeInv', NEW c \in Conn, PublishUnlocks(c)
    PROVE  DeliveryInv'
  <1> USE DEF DeliveryInv
  <1> DEFINE t == h[c].topic
             o == h[c].obj
             passed == (h[c].owed \cap Subscribers(t))
                         \ {d \in Conn : Reached(d, h[c].msg)}
  <1>1. TypeOK
    BY DEF SizeInv
  <1>2. /\ h[c].at = "loop" /\ h[c].todo = {}
        /\ members' = [members EXCEPT ![o] = @ \ h[c].gone]
        /\ lock' = [lock EXCEPT ![o] = None]
        /\ missed' = missed \cup (passed \X {t})
        /\ h' = [h EXCEPT ![c] = Idle]
        /\ UNCHANGED <<clients, phase, addr, topics, sending, wire, cmds, subs,
                       replaced, uninvited>>
    BY DEF PublishUnlocks, regVars, outVars
  <1>3. Found(c) /\ lock[o] = c
    BY <1>2 DEF Found, LockInv
  <1>4. /\ t \in Topic /\ o \in Obj /\ o # 0
        /\ t \notin replaced => topics[t] = o
        /\ \A u \in Topic \ {t} : topics[u] # o
    BY <1>3, TopicOf
  <1>5. h'[c].at = "idle" /\ \A d \in Conn \ {c} : h'[d] = h[d]
    BY <1>1, <1>2, EndsOthers
  <1>6. /\ members'[o] = members[o] \ h[c].gone
        /\ \A x \in Obj \ {o} : members'[x] = members[x] /\ lock'[x] = lock[x]
    BY <1>1, <1>2, <1>4 DEF TypeOK
  <1>7. \A u \in Topic : topics[u] # 0 => topics[u] \in Obj
    BY <1>1 DEF TypeOK
  <1>8. NamesInv' /\ FoundInv'
    BY <1>1, <1>2, EndsNames
  <1>9. ASSUME NEW p \in Conn, h'[p].at = "loop"
        PROVE  /\ h'[p] = h[p] /\ h[p].at = "loop" /\ h[p].obj # o
               /\ h[p].obj \in Obj /\ lock[h[p].obj] = p
    <2>1. h'[p] = h[p] /\ h[p].at = "loop" /\ p # c
      BY <1>5, <1>9
    <2>2. lock[h[p].obj] = p /\ h[p].obj \in Obj
      BY <2>1, TopicOf DEF LockInv, Found
    <2> QED
      BY <1>3, <2>1, <2>2
  <1>10. LockInv'
    BY <1>6, <1>9 DEF LockInv
  <1>11. t \notin replaced => LoopOK(c)
    BY <1>2 DEF LoopInv
  <1>12. SubsInv'
    <2>1. \A d \in Conn : h'[d].at = "unsub" => <<d, h'[d].topic>> \notin subs
      BY <1>5 DEF SubsInv
    <2>2. ASSUME NEW u \in Topic \ replaced, NEW d \in Conn, Reachable(d, u)
          PROVE  topics[u] # 0 /\ addr[d] \in members'[topics[u]]
      <3>1. topics[u] # 0 /\ addr[d] \in members[topics[u]]
        BY <2>2 DEF SubsInv
      <3>2. CASE u = t
        <4>1. addr[d] \notin h[c].gone
          BY <1>11, <2>2, <3>2 DEF LoopOK
        <4> QED
          BY <1>4, <1>6, <3>1, <3>2, <4>1
      <3>3. CASE u # t
        BY <1>4, <1>6, <1>7, <3>1, <3>3
      <3> QED
        BY <3>2, <3>3
    <2>3. ASSUME NEW u \in Topic \ replaced, topics[u] # 0,
                 NEW a \in members'[topics[u]]
          PROVE  \E e \in Conn : addr[e] = a /\ ~Stranger(e, u)'
      <3>1. a \in members[topics[u]]
        BY <1>6, <1>7, <2>3
      <3>2. PICK e \in Conn : addr[e] = a /\ ~Stranger(e, u)
        BY <2>3, <3>1 DEF SubsInv
      <3>3. h[e].at = "unsub" => h'[e] = h[e]
        BY <1>2, <1>5
      <3> QED
        BY <1>2, <3>2, <3>3 DEF Stranger
    <2>4. \A d \in Conn, u \in Topic : Reachable(d, u)' <=> Reachable(d, u)
      BY <1>2 DEF Reachable
    <2> QED
      BY <1>2, <2>1, <2>2, <2>3, <2>4 DEF SubsInv
  <1>13. LoopInv'
    <2> SUFFICES ASSUME NEW p \in Conn, h'[p].at = "loop", h'[p].topic \notin replaced
                 PROVE  LoopOK(p)'
      BY <1>2 DEF LoopInv
    <2>1. /\ h'[p] = h[p] /\ h[p].at = "loop" /\ h[p].obj # o
          /\ h[p].obj \in Obj
      BY <1>9
    <2>2. \A d \in Conn : Reached(d, h[p].msg)' <=> Reached(d, h[p].msg)
      BY <1>2, <2>1 DEF Reached
    <2> QED
      BY <1>2, <1>6, <2>1, <2>2, LoopKept
  <1>14. OnlySubscribersReached'
    BY <1>2 DEF OnlySubscribersReached
  <1>15. ReachedUnlessReplaced'
    <2>1. t \notin replaced => passed = {}
      BY <1>2, <1>11 DEF LoopOK, Subscribers
    <2> HIDE DEF passed
    <2>2. ASSUME NEW m \in missed' PROVE m[2] \in replaced
      <3>1. CASE m \in missed
        BY <3>1 DEF ReachedUnlessReplaced
      <3>2. CASE m \notin missed
        BY <1>2, <2>1, <2>2, <3>2
      <3> QED
        BY <3>1, <3>2
    <2> QED
      BY <1>2, <2>2 DEF ReachedUnlessReplaced
  <1> QED
    BY <1>2, <1>8, <1>10, <1>12, <1>13, <1>14, <1>15

\* A delivery goroutine writes its frame: it stays a delivery under way, or
\* becomes one that was written, for every subscriber that is still up.
LEMMA DeliverDelivery ==
    ASSUME DeliveryInv, SizeInv', NEW s \in sending, Deliver(s)
    PROVE  DeliveryInv'
  <1> USE DEF DeliveryInv
  <1> DEFINE Frame == [msg : Obj, part : 1..2, text : 0..MaxCmds]
  <1>1. TypeOK
    BY DEF SizeInv
  <1>2. UNCHANGED <<clients, phase, addr, topics, size, members, lock, h, cmds,
                    subs, replaced, missed, uninvited>>
    BY DEF Deliver, regVars, topicVars, histVars
  <1>3. /\ wire \in [Conn -> Seq(Frame)] /\ s.to \in Conn /\ s.msg \in Obj
        /\ s.part \in 1..2 /\ sending \ {s} \subseteq sending'
        /\ s \in [to : Conn, msg : Obj, from : Conn, part : 1..2]
    BY <1>1 DEF TypeOK, Deliver
  <1>4. PICK text \in 0..MaxCmds :
          wire' = [wire EXCEPT ![s.to] =
                     IF phase[s.to] \notin Open THEN @
                     ELSE Append(@, [msg |-> s.msg, part |-> s.part, text |-> text])]
    <2>1. s.msg \in 0..MaxCmds /\ buf[s.from] \in 0..MaxCmds
      BY <1>1, <1>3, MaxCmdsNat DEF TypeOK, Obj
    <2> QED
      BY <2>1 DEF Deliver
  <1>5. ASSUME NEW d \in Conn, NEW m, phase[d] = "up", Reached(d, m)
        PROVE  Reached(d, m)'
    <2> DEFINE f == [msg |-> s.msg, part |-> s.part, text |-> text]
    <2>1. f \in Frame /\ f.msg = s.msg
      BY <1>3
    <2>2. wire'[d] = IF d = s.to THEN Append(wire[d], f) ELSE wire[d]
      BY <1>3, <1>4, <1>5 DEF Open
    <2>3. wire[d] \in Seq(Frame)
      BY <1>3
    <2> HIDE DEF f
    <2>4. CASE \E x \in sending : x.to = d /\ x.msg = m
      <3>1. PICK x \in sending : x.to = d /\ x.msg = m
        BY <2>4
      <3>2. CASE x = s
        <4>1. wire'[d] = Append(wire[d], f)
          BY <2>2, <3>1, <3>2
        <4>2. /\ Len(wire[d]) + 1 \in DOMAIN wire'[d]
              /\ wire'[d][Len(wire[d]) + 1] = f
          BY <2>1, <2>3, <4>1
        <4> QED
          BY <2>1, <3>1, <3>2, <4>2 DEF Reached
      <3>3. CASE x # s
        <4>1. x \in sending'
          BY <1>3, <3>3
        <4> QED
          BY <3>1, <4>1 DEF Reached
      <3> QED
        BY <3>2, <3>3
    <2>5. CASE \E i \in DOMAIN wire[d] : wire[d][i].msg = m
      <3>1. PICK i \in DOMAIN wire[d] : wire[d][i].msg = m
        BY <2>5
      <3>2. i \in DOMAIN wire'[d] /\ wire'[d][i] = wire[d][i]
        <4>1. CASE d = s.to
          BY <2>1, <2>2, <2>3, <4>1
        <4>2. CASE d # s.to
          BY <2>2, <4>2
        <4> QED
          BY <4>1, <4>2
      <3> QED
        BY <3>1, <3>2 DEF Reached
    <2> QED
      BY <1>5, <2>4, <2>5 DEF Reached
  <1>6. NamesInv' /\ FoundInv' /\ LockInv'
    BY <1>2 DEF NamesInv, FoundInv, LockInv, Running, Found
  <1>7. SubsInv'
    BY <1>2 DEF SubsInv, Reachable, Stranger
  <1>8. LoopInv'
    <2> SUFFICES ASSUME NEW p \in Conn, h[p].at = "loop", h[p].topic \notin replaced
                 PROVE  LoopOK(p)'
      BY <1>2 DEF LoopInv
    <2>1. \A d \in Conn : phase[d] = "up" /\ Reached(d, h[p].msg)
                            => Reached(d, h[p].msg)'
      <3>1. ASSUME NEW d \in Conn, phase[d] = "up", Reached(d, h[p].msg)
            PROVE  Reached(d, h[p].msg)'
        <4>1. h'[p].msg = h[p].msg
          BY <1>2
        <4>2. \E m : m = h[p].msg
          OBVIOUS
        <4>3. PICK m : m = h[p].msg
          BY <4>2
        <4>4. Reached(d, m)'
          BY <1>5, <3>1, <4>3
        <4> QED
          BY <4>1, <4>3, <4>4 DEF Reached
      <3> QED
        BY <3>1
    <2> QED
      BY <1>2, <2>1, LoopKept
  <1>9. /\ OnlySubscribersReached' /\ ReachedUnlessReplaced'
        /\ uninvited' \subseteq Conn \X Topic
    BY <1>2, HistoryKept
  <1> QED
    BY <1>6, <1>7, <1>8, <1>9

\* The runtime stops the program, or nothing happens.
LEMMA RestDelivery ==
    ASSUME DeliveryInv, SizeInv', TopicsRace \/ UNCHANGED vars
    PROVE  DeliveryInv'
  <1>1. UNCHANGED <<clients, phase, addr, topics, size, members, lock, h,
                    sending, wire, cmds, subs, replaced, missed, uninvited>>
    BY DEF TopicsRace, vars, regVars, topicVars, outVars, histVars
  <1>2. \A c \in Conn, t \in Topic : Reachable(c, t)' => Reachable(c, t)
    BY <1>1 DEF Reachable
  <1> QED
    BY <1>1, <1>2, RegistryStep

\* The strengthened invariant holds in the initial states.
LEMMA DeliveryInit == Init => DeliveryInv
  <1> SUFFICES ASSUME Init PROVE DeliveryInv
    OBVIOUS
  <1>1. SizeInv
    BY SizeInit
  <1>2. \A c \in Conn : h[c].at = "idle"
    BY DEF Init, Idle
  <1>3. NamesInv /\ FoundInv /\ LockInv /\ LoopInv
    BY <1>2 DEF Init, NamesInv, FoundInv, LockInv, LoopInv, Running, Found
  <1>4. SubsInv
    BY <1>2 DEF Init, SubsInv, Reachable
  <1>5. /\ uninvited \subseteq Conn \X Topic
        /\ ReachedUnlessReplaced /\ OnlySubscribersReached
    BY DEF Init, ReachedUnlessReplaced, OnlySubscribersReached
  <1> QED
    BY <1>1, <1>3, <1>4, <1>5 DEF DeliveryInv

\* Every step keeps it.
LEMMA DeliveryInductive == DeliveryInv /\ [Next]_vars => DeliveryInv'
  <1> SUFFICES ASSUME DeliveryInv, [Next]_vars PROVE DeliveryInv'
    OBVIOUS
  <1>1. SizeInv'
    BY SizeStep DEF DeliveryInv
  <1>2. ASSUME NEW c \in Conn, RunCommand(c) PROVE DeliveryInv'
    BY <1>1, <1>2, LookupDelivery, CreateDelivery, SubscribeDelivery,
       UnsubscribeDelivery, LocksDelivery, NextDelivery, UnlocksDelivery
       DEF RunCommand
  <1> QED
    BY <1>1, <1>2, ConnectDelivery, EndDelivery, DeliverDelivery, RestDelivery
       DEF Next

\* DeliveryInv is an invariant of every behaviour of the pubsub backend.
LEMMA DeliveryInvariant == Spec => []DeliveryInv
  BY DeliveryInit, DeliveryInductive, PTL DEF Spec

\* publish reaches whoever was subscribed and in app.clients all the while it
\* held the topic's mutex: connections that come, end, subscribe, unsubscribe
\* and publish meanwhile, sessions that outlive their peer, and stragglers that
\* publish deletes, never make it pass one over.  The only exception is a topic that two first subscriptions
\* created at once (subscribe's lookup and store are not one step).
THEOREM PublishReaches == Spec => []ReachedUnlessReplaced
  BY DeliveryInvariant, PTL DEF DeliveryInv

\* A connection that publish reaches without a subscription of its own has the
\* address of an earlier one, closed or without its peer, that has not
\* unsubscribed, or the topic was created twice: no other interleaving leaks a message.
THEOREM StrangersExplained == Spec => []OnlySubscribersReached
  BY DeliveryInvariant, PTL DEF DeliveryInv

=============================================================================
