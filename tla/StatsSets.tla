----------------------------- MODULE StatsSets -----------------------------
(***************************************************************************)
(* The set commands of the stats backend.  mem.setLock is held for one     *)
(* call of MemoryBackend at a time: a command with several arguments takes *)
(* it once per argument and other commands come in between.  SMembers      *)
(* returns the map itself, not a copy, so SMEMBERS (and SDIFF, until it    *)
(* has subtracted a set) write their reply from a map others may change.   *)
(***************************************************************************)
EXTENDS Integers, Sequences, SequencesExt, FiniteSetsExt

CONSTANTS
    Client,    \* connections, each running one command at a time
    Key,       \* keys of sets
    Member,    \* members of sets
    None,      \* no set, no key, null
    MaxArgs,   \* bound: members, or keys after the first, in one command
    MaxCmds    \* bound: commands in all

ASSUME SetsAssumption ==
    /\ None \notin Key /\ \A S \in SUBSET Member : S # None
    /\ MaxArgs \in Nat \ {0, 1} /\ MaxCmds \in Nat

VARIABLES
    sets,     \* mem.sets; a set is never removed
    cmd,      \* the command each connection is running
    reply,    \* the last reply written
    cmds,     \* commands begun so far
    threw,    \* the runtime noticed a concurrent use of a map
    net       \* history: SADD replies less SREM replies, per key

vars == <<sets, cmd, reply, cmds, threw, net>>

Idle == [op |-> "idle"]
NoReply == [op |-> "none"]

Args(S, lo) == UNION {[1..n -> S] : n \in lo..MaxArgs}

\* What a command keeps: its key, the arguments it has still to visit and what
\* it has added up or collected; or the set to be written, live or private.
Command ==
    {Idle}
    \cup [op : {"SADD", "SREM"}, key : Key, todo : Args(Member, 1),
          n : 0..MaxArgs]
    \cup [op : {"SISMEMBER"}, key : Key, todo : Args(Member, 1), out : Seq(Nat)]
    \cup [op : {"SCARD"}, todo : Args(Key, 1), out : Seq(Nat)]
    \cup [op : {"SDIFF"}, live : Key \cup {None}, set : SUBSET Member,
          todo : Args(Key, 1)]
    \cup [op : {"len"}, live : Key \cup {None}, set : SUBSET Member,
          todo : Args(Key, 0)]
    \cup [op : {"write"}, live : Key \cup {None}, set : SUBSET Member,
          owed : SUBSET Member, seen : SUBSET Member, n : Nat, len : Nat]

TypeOK ==
    /\ sets \in [Key -> {None} \cup SUBSET Member]
    /\ cmd \in [Client -> Command]
    /\ cmds \in 0..MaxCmds
    /\ net \in [Key -> Int]
    /\ threw \in BOOLEAN

Init ==
    /\ sets = [k \in Key |-> None]
    /\ cmd = [c \in Client |-> Idle]
    /\ reply = NoReply
    /\ cmds = 0
    /\ threw = FALSE
    /\ net = [k \in Key |-> 0]

Members(k) == IF sets[k] = None THEN {} ELSE sets[k]

Ready(c) == ~threw /\ cmd[c] = Idle /\ cmds < MaxCmds

Begin(c, r) == /\ cmds' = cmds + 1
               /\ cmd' = [cmd EXCEPT ![c] = r]

\* Any command with too few arguments is answered with an error.
Rejected(c) ==
    /\ Ready(c)
    /\ Begin(c, Idle)
    /\ reply' = [op |-> "error"]
    /\ UNCHANGED <<sets, threw, net>>

-----------------------------------------------------------------------------
(* SADD and SREM key member [member ...]: one locked call per member, the  *)
(* results added up                                                        *)

Begins(c, op) ==
    /\ Ready(c)
    /\ \E k \in Key, ms \in Args(Member, 1) :
         Begin(c, [op |-> op, key |-> k, todo |-> ms, n |-> 0])
    /\ UNCHANGED <<sets, reply, threw, net>>

SAddBegins(c) == Begins(c, "SADD")
SRemBegins(c) == Begins(c, "SREM")

\* Variant: a member that was there already is counted too.
SAddUncounted(c) ==
    /\ ~threw /\ cmd[c].op = "SADD"
    /\ LET k == cmd[c].key
           m == Head(cmd[c].todo)
           n == cmd[c].n + 1
           rest == Tail(cmd[c].todo)
       IN  /\ sets' = [sets EXCEPT ![k] = Members(k) \cup {m}]
           /\ IF rest # <<>>
                THEN /\ cmd' = [cmd EXCEPT ![c].n = n, ![c].todo = rest]
                     /\ UNCHANGED <<reply, net>>
                ELSE /\ cmd' = [cmd EXCEPT ![c] = Idle]
                     /\ reply' = [op |-> "SADD", n |-> n]
                     /\ net' = [net EXCEPT ![k] = @ + n]
    /\ UNCHANGED <<cmds, threw>>

\* Variant: the loop goes on after the last member.
SAddTooLong(c) ==
    /\ ~threw /\ cmd[c].op = "SADD"
    /\ LET k == cmd[c].key
           m == Head(cmd[c].todo)
           n == cmd[c].n + (IF m \in Members(k) THEN 0 ELSE 1)
           rest == Tail(cmd[c].todo)
       IN  /\ sets' = [sets EXCEPT ![k] = Members(k) \cup {m}]
           /\ IF Len(cmd[c].todo) >= 1
                THEN /\ cmd' = [cmd EXCEPT ![c].n = n, ![c].todo = rest]
                     /\ UNCHANGED <<reply, net>>
                ELSE /\ cmd' = [cmd EXCEPT ![c] = Idle]
                     /\ reply' = [op |-> "SADD", n |-> n]
                     /\ net' = [net EXCEPT ![k] = @ + n]
    /\ UNCHANGED <<cmds, threw>>

SAdd(c) ==
    /\ ~threw /\ cmd[c].op = "SADD"
    /\ LET k == cmd[c].key
           m == Head(cmd[c].todo)
           n == cmd[c].n + (IF m \in Members(k) THEN 0 ELSE 1)
           rest == Tail(cmd[c].todo)
       IN  /\ sets' = [sets EXCEPT ![k] = Members(k) \cup {m}]
           /\ IF rest # <<>>
                THEN /\ cmd' = [cmd EXCEPT ![c].n = n, ![c].todo = rest]
                     /\ UNCHANGED <<reply, net>>
                ELSE /\ cmd' = [cmd EXCEPT ![c] = Idle]
                     /\ reply' = [op |-> "SADD", n |-> n]
                     /\ net' = [net EXCEPT ![k] = @ + n]
    /\ UNCHANGED <<cmds, threw>>

\* A loop over the set forgets an element that is deleted from it.
Forget(r, k, m) ==
    IF r.op = "write" /\ r.live = k
      THEN [r EXCEPT !.owed = @ \ {m}, !.seen = @ \ {m}]
      ELSE r

\* Without a set the command ends at once with -1.
SRem(c) ==
    /\ ~threw /\ cmd[c].op = "SREM"
    /\ LET k == cmd[c].key
           m == Head(cmd[c].todo)
           n == cmd[c].n + (IF m \in Members(k) THEN 1 ELSE 0)
           rest == Tail(cmd[c].todo)
           done == sets[k] = None \/ rest = <<>>
       IN  /\ sets' = [sets EXCEPT ![k] = IF @ = None THEN @ ELSE @ \ {m}]
           /\ cmd' = [d \in Client |->
                        IF d # c THEN Forget(cmd[d], k, m)
                        ELSE IF done THEN Idle
                        ELSE [cmd[c] EXCEPT !.n = n, !.todo = rest]]
           /\ IF done
                THEN LET r == IF sets[k] = None THEN -1 ELSE n
                     IN  /\ reply' = [op |-> "SREM", n |-> r]
                         /\ net' = [net EXCEPT ![k] = @ - Max({r, 0})]
                ELSE UNCHANGED <<reply, net>>
    /\ UNCHANGED <<cmds, threw>>

-----------------------------------------------------------------------------
(* SCARD key [key ...] and SISMEMBER key member [member ...]: one locked   *)
(* call per argument, the results written at the end                       *)

SCardBegins(c) ==
    /\ Ready(c)
    /\ \E ks \in Args(Key, 1) :
         Begin(c, [op |-> "SCARD", todo |-> ks, out |-> <<>>])
    /\ UNCHANGED <<sets, reply, threw, net>>

SIsMemberBegins(c) ==
    /\ Ready(c)
    /\ \E k \in Key, ms \in Args(Member, 1) :
         Begin(c, [op |-> "SISMEMBER", key |-> k, todo |-> ms, out |-> <<>>])
    /\ UNCHANGED <<sets, reply, threw, net>>

SCard(k) == Cardinality(Members(k))
SIsMember(k, m) == IF m \in Members(k) THEN 1 ELSE 0

ReadNext(c) ==
    /\ ~threw /\ cmd[c].op \in {"SCARD", "SISMEMBER"}
    /\ LET x == Head(cmd[c].todo)
           rest == Tail(cmd[c].todo)
           out == Append(cmd[c].out, IF cmd[c].op = "SCARD" THEN SCard(x)
                                     ELSE SIsMember(cmd[c].key, x))
       IN  IF rest # <<>>
             THEN /\ cmd' = [cmd EXCEPT ![c].todo = rest, ![c].out = out]
                  /\ UNCHANGED reply
             ELSE /\ cmd' = [cmd EXCEPT ![c] = Idle]
                  /\ reply' = [op |-> cmd[c].op, out |-> out]
    /\ UNCHANGED <<sets, cmds, threw, net>>

-----------------------------------------------------------------------------
(* SMEMBERS and SDIFF                                                      *)

\* A result to be written: the live set of a key, or a private copy.
Result(op, k, S, todo) == [op |-> op, live |-> k, set |-> S, todo |-> todo]
Content(r) == IF r.live = None THEN r.set ELSE Members(r.live)

SMembers(c) ==
    /\ Ready(c)
    /\ \E k \in Key :
         IF sets[k] = None
           THEN /\ Begin(c, Idle)
                /\ reply' = [op |-> "null"]
           ELSE /\ Begin(c, Result("len", k, {}, <<>>))
                /\ UNCHANGED reply
    /\ UNCHANGED <<sets, threw, net>>

SDiffBegins(c) ==
    /\ Ready(c)
    /\ \E k \in Key, ks \in Args(Key, 1) :
         IF sets[k] = None
           THEN /\ Begin(c, Idle)
                /\ reply' = [op |-> "null"]
           ELSE /\ Begin(c, Result("SDIFF", k, {}, ks))
                /\ UNCHANGED reply
    /\ UNCHANGED <<sets, threw, net>>

\* One set is subtracted, into a copy; a missing one leaves the result as it
\* is.  The loop ends early when nothing is left.
SDiff(c) ==
    /\ ~threw /\ cmd[c].op = "SDIFF"
    /\ LET k == Head(cmd[c].todo)
           rest == Tail(cmd[c].todo)
           r == IF sets[k] = None
                  THEN [cmd[c] EXCEPT !.todo = rest]
                  ELSE Result("SDIFF", None, Content(cmd[c]) \ sets[k], rest)
       IN  cmd' = [cmd EXCEPT ![c] =
                     IF rest = <<>> \/ Content(r) = {}
                       THEN [r EXCEPT !.op = "len"] ELSE r]
    /\ UNCHANGED <<sets, reply, cmds, threw, net>>

\* WriteLen('*', len(results)), outside the lock, ...
WriteLen(c) ==
    /\ ~threw /\ cmd[c].op = "len"
    /\ LET S == Content(cmd[c])
       IN  cmd' = [cmd EXCEPT ![c] =
                     [op |-> "write", live |-> cmd[c].live, set |-> cmd[c].set,
                      owed |-> S, seen |-> {}, n |-> 0,
                      len |-> Cardinality(S)]]
    /\ UNCHANGED <<sets, reply, cmds, threw, net>>

\* ... and the loop that writes the elements.
WriteNext(c) ==
    /\ ~threw /\ cmd[c].op = "write"
    /\ \E m \in Content(cmd[c]) \ cmd[c].seen :
         cmd' = [cmd EXCEPT ![c].seen = @ \cup {m}, ![c].owed = @ \ {m},
                            ![c].n = @ + 1]
    /\ UNCHANGED <<sets, reply, cmds, threw, net>>

WriteDone(c) ==
    /\ ~threw /\ cmd[c].op = "write" /\ cmd[c].owed = {}
    /\ reply' = [op |-> "multi", len |-> cmd[c].len, n |-> cmd[c].n]
    /\ cmd' = [cmd EXCEPT ![c] = Idle]
    /\ UNCHANGED <<sets, cmds, threw, net>>

\* A loop over a live set meets a command that writes it.
MapRace ==
    /\ ~threw
    /\ \E c, d \in Client :
         /\ cmd[c].op = "write" /\ cmd[c].live # None
         /\ cmd[d].op \in {"SADD", "SREM"} /\ cmd[d].key = cmd[c].live
    /\ threw' = TRUE
    /\ UNCHANGED <<sets, cmd, reply, cmds, net>>

-----------------------------------------------------------------------------
(* SINTER and SUNION key key [key ...]: one locked call                    *)

\* The first of the smallest sets.
MinimalSetIndex(vs) ==
    CHOOSE i \in DOMAIN vs :
        /\ \A j \in DOMAIN vs : Cardinality(vs[i]) <= Cardinality(vs[j])
        /\ \A j \in 1..i-1 : Cardinality(vs[i]) < Cardinality(vs[j])

\* Variant: the sets before the minimal one are not looked at.
InterFrom(vs) ==
    LET i == MinimalSetIndex(vs)
    IN  {m \in vs[i] : \A j \in DOMAIN vs : j > i => m \in vs[j]}

\* The members of the minimal set that all the others have.
Inter(vs) ==
    LET i == MinimalSetIndex(vs)
    IN  {m \in vs[i] : \A j \in DOMAIN vs \ {i} : m \in vs[j]}

Union(ks) == UNION {Members(k) : k \in ToSet(ks)}

\* SINTER gives up, with nil, at the first key without a set.
SInter(c) ==
    /\ Ready(c)
    /\ \E ks \in Args(Key, 2) :
         reply' = IF \E i \in DOMAIN ks : sets[ks[i]] = None
                    THEN [op |-> "null"]
                    ELSE [op |-> "SINTER",
                          set |-> Inter([i \in DOMAIN ks |-> sets[ks[i]]])]
    /\ Begin(c, Idle)
    /\ UNCHANGED <<sets, threw, net>>

SUnion(c) ==
    /\ Ready(c)
    /\ \E ks \in Args(Key, 2) :
         reply' = [op |-> "SUNION", set |-> Union(ks)]
    /\ Begin(c, Idle)
    /\ UNCHANGED <<sets, threw, net>>

-----------------------------------------------------------------------------
Next == \/ MapRace
        \/ \E c \in Client : \/ SAddBegins(c) \/ SRemBegins(c)
                             \/ SAdd(c) \/ SRem(c)
                             \/ SCardBegins(c) \/ SIsMemberBegins(c)
                             \/ ReadNext(c)
                             \/ SMembers(c) \/ SDiffBegins(c) \/ SDiff(c)
                             \/ WriteLen(c) \/ WriteNext(c) \/ WriteDone(c)
                             \/ SInter(c) \/ SUnion(c) \/ Rejected(c)

Spec == Init /\ [][Next]_vars

-----------------------------------------------------------------------------
(* Properties                                                              *)

\* What command op of c on k has added up so far, and the sum over all
\* connections: the size of a set with one element for each unit.
Count(c, op, k) == IF cmd[c].op = op /\ cmd[c].key = k THEN cmd[c].n ELSE 0

Pending(op, k) == {w \in Client \X (1..MaxArgs) : w[2] <= Count(w[1], op, k)}

Running(op, k) == Cardinality(Pending(op, k))

\* However the commands of several connections interleave between their
\* locked calls, what SADD and SREM told their clients adds up to the size
\* of the set: no addition is reported twice or lost, and an SREM that
\* answers -1 has removed nothing.
MembersAccounted ==
    \A k \in Key : Cardinality(Members(k))
                     = net[k] + Running("SADD", k) - Running("SREM", k)

\* SINTER's search from the smallest set yields the intersection, whatever
\* the order of the keys, with repeated keys and with sets of equal size.
InterCorrect ==
    \A ks \in Args(Key, 2) :
        (\A i \in DOMAIN ks : sets[ks[i]] # None)
          => Inter([i \in DOMAIN ks |-> sets[ks[i]]])
               = {m \in Member : \A k \in ToSet(ks) : m \in sets[k]}

-----------------------------------------------------------------------------
(* What the help text of a command says and the code does not do           *)

\* metrics.go: SMEMBERS "Gets all the members in a set".  The length is
\* written first and the elements from the live set later: with another
\* connection's SADD or SREM in between the reply has more or fewer elements
\* than it announces.
FramesComplete == reply.op = "multi" => reply.len = reply.n
=============================================================================
