--------------------------- MODULE StatsSetsProofs ---------------------------
(***************************************************************************)
(* The set commands of the stats backend, for any number of connections,   *)
(* keys, members, arguments and commands: what SADD and SREM answer adds   *)
(* up to the sizes of the sets, and SINTER computes the intersection.      *)
(***************************************************************************)
EXTENDS StatsSets, FiniteSetTheorems, WellFoundedInduction, TLAPS

-----------------------------------------------------------------------------
(* The inductive invariant                                                 *)

\* All the sets are finite, a command adds up no more than it has arguments,
\* and an SREM has removed nothing from a set that does not exist.
FiniteInv ==
    /\ \A k \in Key : IsFiniteSet(Members(k))
    /\ \A c \in Client : cmd[c].op \in {"SDIFF", "len"} => IsFiniteSet(cmd[c].set)
    /\ \A k \in Key, op \in {"SADD", "SREM"} : IsFiniteSet(Pending(op, k))

CountInv ==
    \A c \in Client : cmd[c].op \in {"SADD", "SREM"} =>
        /\ cmd[c].n + Len(cmd[c].todo) <= MaxArgs
        /\ cmd[c].op = "SREM" /\ sets[cmd[c].key] = None => cmd[c].n = 0

SetsInv == TypeOK /\ FiniteInv /\ CountInv /\ MembersAccounted

-----------------------------------------------------------------------------

\* Writes are the commands that add up what they changed.
Writes == {"SADD", "SREM"}

-----------------------------------------------------------------------------
(* The sum over the running commands, as the size of Pending               *)

\* A set of pairs <<c, 1>> ... <<c, n>> has n elements.
LEMMA RowSize ==
    ASSUME NEW c, NEW n \in Nat
    PROVE  /\ IsFiniteSet({c} \X (1..n))
           /\ Cardinality({c} \X (1..n)) = n
  <1> DEFINE f == [i \in 1..n |-> <<c, i>>]
  <1>1. f \in Bijection(1..n, {c} \X (1..n))
    <2>1. f \in [1..n -> {c} \X (1..n)]
      OBVIOUS
    <2>2. \A i, j \in 1..n : f[i] = f[j] => i = j
      OBVIOUS
    <2>3. \A w \in {c} \X (1..n) : \E i \in 1..n : f[i] = w
      OBVIOUS
    <2> QED
      BY <2>1, <2>2, <2>3 DEF Bijection, Injection, Surjection, IsInjective
  <1>2. IsFiniteSet(1..n) /\ Cardinality(1..n) = n
    BY FS_Interval
  <1> QED
    BY <1>1, <1>2, FS_Bijection DEF ExistsBijection

\* What is added up stays within the bound on arguments.
LEMMA CountIs ==
    ASSUME TypeOK, NEW c \in Client, NEW op \in Writes, NEW k
    PROVE  Count(c, op, k) \in 0..MaxArgs
  <1>1. cmd[c] \in Command
    BY DEF TypeOK
  <1>2. cmd[c].op \in Writes => cmd[c].n \in 0..MaxArgs
    BY <1>1 DEF Command, Idle, Writes
  <1> QED
    BY <1>2, SetsAssumption DEF Count

\* The sum changes with no count ...
LEMMA SamePending ==
    ASSUME NEW op, NEW k,
           \A d \in Client : Count(d, op, k)' = Count(d, op, k)
    PROVE  Pending(op, k)' = Pending(op, k)
  BY DEF Pending

\* ... grows by one with one count ...
LEMMA MorePending ==
    ASSUME TypeOK, NEW op \in Writes, NEW k, NEW c \in Client,
           IsFiniteSet(Pending(op, k)),
           Count(c, op, k)' = Count(c, op, k) + 1,
           Count(c, op, k) < MaxArgs,
           \A d \in Client \ {c} : Count(d, op, k)' = Count(d, op, k)
    PROVE  /\ IsFiniteSet(Pending(op, k)')
           /\ Cardinality(Pending(op, k)') = Cardinality(Pending(op, k)) + 1
  <1> DEFINE w == <<c, Count(c, op, k) + 1>>
  <1>1. Count(c, op, k) \in Nat /\ MaxArgs \in Nat
    BY CountIs, SetsAssumption
  <1>2. w \notin Pending(op, k)
    BY <1>1 DEF Pending
  <1>3. Pending(op, k)' = Pending(op, k) \cup {w}
    <2>1. ASSUME NEW d \in Client, NEW i \in 1..MaxArgs
          PROVE  i <= Count(d, op, k)'
                   <=> i <= Count(d, op, k) \/ <<d, i>> = w
      BY <1>1, <2>1
    <2>2. w \in Client \X (1..MaxArgs)
      BY <1>1
    <2> QED
      BY <2>1, <2>2 DEF Pending
  <1> QED
    BY <1>2, <1>3, FS_AddElement

\* ... and falls by the count of a command that ends.
LEMMA LessPending ==
    ASSUME TypeOK, NEW op \in Writes, NEW k, NEW c \in Client,
           IsFiniteSet(Pending(op, k)), Count(c, op, k)' = 0,
           \A d \in Client \ {c} : Count(d, op, k)' = Count(d, op, k)
    PROVE  /\ IsFiniteSet(Pending(op, k)')
           /\ Cardinality(Pending(op, k)')
                = Cardinality(Pending(op, k)) - Count(c, op, k)
  <1> DEFINE n == Count(c, op, k)
             Row == {c} \X (1..n)
             P == Pending(op, k)
             Q == Pending(op, k)'
  <1>1. n \in 0..MaxArgs /\ MaxArgs \in Nat
    BY CountIs, SetsAssumption
  <1>2. P = Q \cup Row /\ Q \cap Row = {} /\ Q \subseteq P
    <2>1. ASSUME NEW d \in Client, NEW i \in 1..MaxArgs
          PROVE  /\ i <= Count(d, op, k)'
                      <=> i <= Count(d, op, k) /\ d # c
                 /\ <<d, i>> \in Row <=> d = c /\ i <= Count(d, op, k)
      BY <1>1, <2>1
    <2>2. Row \subseteq Client \X (1..MaxArgs)
      BY <1>1
    <2>3. \A w : w \in P <=> /\ w \in Client \X (1..MaxArgs)
                            /\ w[2] <= Count(w[1], op, k)
      BY DEF Pending
    <2>4. \A w : w \in Q <=> /\ w \in Client \X (1..MaxArgs)
                            /\ w[2] <= Count(w[1], op, k)'
      BY DEF Pending
    <2> HIDE DEF P, Q, Row
    <2>5. ASSUME NEW w \in Client \X (1..MaxArgs)
          PROVE  /\ w \in Q <=> w \in P /\ w[1] # c
                 /\ w \in Row <=> w \in P /\ w[1] = c
      <3>1. PICK d \in Client, i \in 1..MaxArgs : w = <<d, i>>
        BY <2>5
      <3> QED
        BY <2>1, <2>3, <2>4, <3>1
    <2> QED
      BY <2>2, <2>3, <2>4, <2>5
  <1> HIDE DEF P, Q, n
  <1>3. IsFiniteSet(Row) /\ Cardinality(Row) = n
    <2>1. n \in Nat
      BY <1>1
    <2> QED
      BY <2>1, RowSize
  <1> HIDE DEF Row
  <1>4. IsFiniteSet(Q)
    <2>1. IsFiniteSet(P) /\ Q \in SUBSET P
      BY <1>2 DEF P
    <2> QED
      BY <2>1, FS_Subset
  <1>5. Cardinality(Q \cap Row) = 0
    BY <1>2, FS_EmptySet
  <1>6. Cardinality(P) = Cardinality(Q) + n /\ Cardinality(Q) \in Nat
    <2>1. Cardinality(Q \cup Row)
            = Cardinality(Q) + Cardinality(Row) - Cardinality(Q \cap Row)
      BY <1>3, <1>4, FS_Union
    <2>2. Cardinality(Q) \in Nat
      BY <1>4, FS_CardinalityType
    <2> QED
      BY <1>1, <1>2, <1>3, <1>5, <2>1, <2>2
  <1> QED
    BY <1>1, <1>4, <1>6 DEF P, Q, n

-----------------------------------------------------------------------------
(* SINTER                                                                  *)

\* A set of natural numbers that is not empty has a least element.
LEMMA LeastOf ==
    ASSUME NEW T, T \subseteq Nat, T # {}
    PROVE  \E x \in T : \A y \in T : x <= y
  <1>1. \A x, y \in Nat : y < x => <<y, x>> \in OpToRel(<, Nat)
    BY DEF OpToRel
  <1>2. PICK R : /\ IsWellFoundedOn(R, Nat)
                 /\ \A x, y \in Nat : y < x => <<y, x>> \in R
    BY <1>1, NatLessThanWellFounded, Zenon
  <1>3. PICK x \in T : \A y \in T : ~(<<y, x>> \in R)
    BY <1>2, WFMin
  <1>4. ASSUME NEW y \in T PROVE x <= y
    <2>1. x \in Nat /\ y \in Nat
      OBVIOUS
    <2>2. ~(y < x)
      BY <1>2, <1>3, <2>1
    <2> QED
      BY <2>1, <2>2
  <1> QED
    BY <1>4

\* MinimalSetIndex finds one of the sets.
LEMMA IndexIs ==
    ASSUME NEW n \in Nat \ {0}, NEW vs, DOMAIN vs = 1..n,
           \A i \in 1..n : IsFiniteSet(vs[i])
    PROVE  MinimalSetIndex(vs) \in DOMAIN vs
  <1> DEFINE size == [i \in 1..n |-> Cardinality(vs[i])]
             T == {size[i] : i \in 1..n}
  <1>1. \A i \in 1..n : Cardinality(vs[i]) \in Nat
    BY FS_CardinalityType
  <1>2. T \subseteq Nat /\ size[1] \in T
    BY <1>1
  <1>3. PICK x \in T : \A y \in T : x <= y
    <2> HIDE DEF T
    <2> QED
      BY <1>2, LeastOf
  <1> DEFINE I == {i \in 1..n : size[i] = x}
  <1>4. I \subseteq Nat /\ I # {}
    BY <1>3
  <1>5. PICK i \in I : \A j \in I : i <= j
    <2> HIDE DEF I
    <2> QED
      BY <1>4, LeastOf
  <1>6. i \in 1..n /\ Cardinality(vs[i]) = x
    BY <1>5
  <1>7. \A j \in 1..n : Cardinality(vs[i]) <= Cardinality(vs[j])
    BY <1>3, <1>6
  <1>8. \A j \in 1..i-1 : Cardinality(vs[i]) < Cardinality(vs[j])
    <2> SUFFICES ASSUME NEW j \in 1..i-1
                 PROVE  Cardinality(vs[i]) < Cardinality(vs[j])
      OBVIOUS
    <2>1. j \in 1..n /\ j \notin I
      BY <1>5, <1>6
    <2>2. Cardinality(vs[j]) # x
      BY <2>1
    <2> QED
      BY <1>1, <1>6, <1>7, <2>1, <2>2
  <1> QED
    BY <1>6, <1>7, <1>8 DEF MinimalSetIndex

\* Whichever set the search starts from, it finds the intersection.
LEMMA InterIs ==
    ASSUME NEW n \in Nat \ {0}, NEW vs, DOMAIN vs = 1..n,
           \A i \in 1..n : IsFiniteSet(vs[i])
    PROVE  \A m : m \in Inter(vs) <=> \A i \in 1..n : m \in vs[i]
  BY IndexIs DEF Inter

-----------------------------------------------------------------------------
(* Commands                                                                *)

\* The bound on arguments as a fact that the provers can use.
LEMMA BoundsAre == MaxArgs \in Nat /\ MaxArgs >= 2 /\ MaxCmds \in Nat
  BY SetsAssumption

\* Arguments are sequences of bounded length.
LEMMA ArgsAre ==
    ASSUME NEW S, NEW lo \in Nat
    PROVE  \A s : s \in Args(S, lo) <=> s \in Seq(S) /\ Len(s) \in lo..MaxArgs
  <1>1. ASSUME NEW s \in Args(S, lo) PROVE s \in Seq(S) /\ Len(s) \in lo..MaxArgs
    <2>1. PICK n \in lo..MaxArgs : s \in [1..n -> S]
      BY <1>1 DEF Args
    <2> QED
      BY <2>1, BoundsAre
  <1>2. ASSUME NEW s \in Seq(S), Len(s) \in lo..MaxArgs PROVE s \in Args(S, lo)
    BY <1>2 DEF Args
  <1> QED
    BY <1>1, <1>2

\* The loop over the arguments takes the first and keeps the rest.
LEMMA ArgsShrink ==
    ASSUME NEW S, NEW s \in Args(S, 1)
    PROVE  /\ Head(s) \in S /\ Tail(s) \in Args(S, 0)
           /\ Len(s) \in 1..MaxArgs /\ Len(Tail(s)) = Len(s) - 1
           /\ Tail(s) # <<>> => Tail(s) \in Args(S, 1)
  <1>1. s \in Seq(S) /\ Len(s) \in 1..MaxArgs
    BY ArgsAre
  <1>2. s # <<>>
    BY <1>1
  <1>3. /\ Head(s) \in S /\ Tail(s) \in Seq(S)
        /\ Len(Tail(s)) = Len(s) - 1
    BY <1>1, <1>2
  <1>4. Tail(s) # <<>> => Len(Tail(s)) # 0
    BY <1>3
  <1>5. Tail(s) \in Args(S, 0)
    <2>1. Len(Tail(s)) \in 0..MaxArgs
      BY <1>1, <1>3, BoundsAre
    <2> QED
      BY <1>3, <2>1, ArgsAre
  <1>6. Tail(s) # <<>> => Tail(s) \in Args(S, 1)
    <2>1. Tail(s) # <<>> => Len(Tail(s)) \in 1..MaxArgs
      BY <1>1, <1>3, <1>4, BoundsAre
    <2> QED
      BY <1>3, <2>1, ArgsAre
  <1> QED
    BY <1>1, <1>3, <1>5, <1>6

\* What the type of a command says of its fields.
LEMMA CommandIs ==
    ASSUME TypeOK, NEW c \in Client
    PROVE  /\ cmd[c].op \in {"idle", "SADD", "SREM", "SISMEMBER", "SCARD",
                             "SDIFF", "len", "write"}
           /\ cmd[c].op = "idle" <=> cmd[c] = Idle
           /\ cmd[c].op \in Writes =>
                cmd[c] \in [op : Writes, key : Key, todo : Args(Member, 1),
                            n : 0..MaxArgs]
           /\ cmd[c].op = "SISMEMBER" =>
                cmd[c] \in [op : {"SISMEMBER"}, key : Key,
                            todo : Args(Member, 1), out : Seq(Nat)]
           /\ cmd[c].op = "SCARD" =>
                cmd[c] \in [op : {"SCARD"}, todo : Args(Key, 1), out : Seq(Nat)]
           /\ cmd[c].op = "SDIFF" =>
                cmd[c] \in [op : {"SDIFF"}, live : Key \cup {None},
                            set : SUBSET Member, todo : Args(Key, 1)]
           /\ cmd[c].op = "len" =>
                cmd[c] \in [op : {"len"}, live : Key \cup {None},
                            set : SUBSET Member, todo : Args(Key, 0)]
           /\ cmd[c].op = "write" =>
                cmd[c] \in [op : {"write"}, live : Key \cup {None},
                            set : SUBSET Member, owed : SUBSET Member,
                            seen : SUBSET Member, n : Nat, len : Nat]
  <1>1. cmd[c] \in Command
    BY DEF TypeOK
  <1> QED
    BY <1>1 DEF Command, Idle, Writes

\* The members of a set.
LEMMA MembersAre ==
    ASSUME TypeOK, NEW k \in Key
    PROVE  /\ Members(k) \subseteq Member
           /\ sets[k] # None => Members(k) = sets[k] /\ sets[k] \subseteq Member
  BY DEF TypeOK, Members

\* A step that begins, reads or ends a command without changing a set or what
\* a running SADD or SREM has added up.
LEMMA QuietStep ==
    ASSUME SetsInv, TypeOK', sets' = sets, net' = net, NEW c \in Client,
           \A d \in Client \ {c} : cmd'[d] = cmd[d],
           cmd[c].op \notin Writes, cmd'[c].op \in Writes =>
             cmd'[c].n = 0 /\ Len(cmd'[c].todo) <= MaxArgs,
           cmd'[c].op \in {"SDIFF", "len"} => IsFiniteSet(cmd'[c].set)
    PROVE  SetsInv'
  <1> USE DEF SetsInv
  <1>1. ASSUME NEW op \in Writes, NEW k \in Key
        PROVE  Pending(op, k)' = Pending(op, k)
    <2>1. \A d \in Client : Count(d, op, k)' = Count(d, op, k)
      BY DEF Count
    <2> QED
      BY <2>1, SamePending
  <1>2. \A k : Members(k)' = Members(k)
    BY DEF Members
  <1>3. FiniteInv'
    BY <1>1, <1>2 DEF FiniteInv, Writes
  <1>4. CountInv'
    <2> SUFFICES ASSUME NEW d \in Client, cmd'[d].op \in Writes
                 PROVE  /\ cmd'[d].n + Len(cmd'[d].todo) <= MaxArgs
                        /\ cmd'[d].op = "SREM" /\ sets[cmd'[d].key] = None
                             => cmd'[d].n = 0
      BY DEF CountInv, Writes
    <2>1. CASE d = c
      <3>1. cmd'[d] \in [op : Writes, key : Key, todo : Args(Member, 1),
                         n : 0..MaxArgs]
        <4>1. cmd'[d] \in Command
          BY DEF TypeOK
        <4> QED
          BY <4>1 DEF Command, Idle, Writes
      <3>2. Len(cmd'[d].todo) \in Nat
        BY <3>1, ArgsShrink
      <3> QED
        BY <2>1, <3>2
    <2>2. CASE d # c
      BY <2>2 DEF CountInv, Writes
    <2> QED
      BY <2>1, <2>2
  <1>5. MembersAccounted'
    BY <1>1, <1>2 DEF MembersAccounted, Running, Writes
  <1> QED
    BY <1>3, <1>4, <1>5

\* Such a step, in the form of the actions that begin a command ...
LEMMA BeginStep ==
    ASSUME SetsInv, NEW c \in Client, Ready(c), NEW r \in Command, Begin(c, r),
           sets' = sets, net' = net, threw' = threw, r.op \in Writes => r.n = 0,
           r.op \in {"SDIFF", "len"} => IsFiniteSet(r.set)
    PROVE  SetsInv'
  <1>1. TypeOK /\ cmd[c] = Idle /\ cmds < MaxCmds
        /\ cmds' = cmds + 1 /\ cmd' = [cmd EXCEPT ![c] = r]
    BY DEF SetsInv, Ready, Begin
  <1>2. cmd'[c] = r /\ \A d \in Client \ {c} : cmd'[d] = cmd[d]
    BY <1>1 DEF TypeOK
  <1>3. TypeOK'
    BY <1>1, BoundsAre DEF TypeOK
  <1>4. r.op \in Writes => Len(r.todo) <= MaxArgs
    <2> SUFFICES ASSUME r.op \in Writes PROVE Len(r.todo) <= MaxArgs
      OBVIOUS
    <2>1. r.todo \in Args(Member, 1)
      BY DEF Command, Idle, Writes
    <2>2. Len(r.todo) \in 1..MaxArgs
      BY <2>1, ArgsShrink
    <2> QED
      BY <2>2, BoundsAre
  <1>5. cmd[c].op \notin Writes
    BY <1>1 DEF Idle, Writes
  <1> QED
    BY <1>2, <1>3, <1>4, <1>5, QuietStep

\* ... and of those that go on with it.
LEMMA GoesOn ==
    ASSUME SetsInv, NEW c \in Client, cmd[c].op \notin Writes, NEW r \in Command,
           cmd' = [cmd EXCEPT ![c] = r], UNCHANGED <<sets, cmds, threw, net>>,
           r.op \notin Writes,
           r.op \in {"SDIFF", "len"} => IsFiniteSet(r.set)
    PROVE  SetsInv'
  <1>1. TypeOK
    BY DEF SetsInv
  <1>2. cmd'[c] = r /\ \A d \in Client \ {c} : cmd'[d] = cmd[d]
    BY <1>1 DEF TypeOK
  <1>3. TypeOK'
    BY <1>1 DEF TypeOK
  <1> QED
    BY <1>2, <1>3, QuietStep

\* A command is read: with too few arguments, SADD or SREM, ...
LEMMA BeginsStep ==
    ASSUME SetsInv, NEW c \in Client,
           Rejected(c) \/ SAddBegins(c) \/ SRemBegins(c) \/ SInter(c) \/ SUnion(c)
    PROVE  SetsInv'
  <1>1. Idle \in Command /\ Idle.op = "idle"
    BY DEF Command, Idle
  <1>2. CASE Rejected(c) \/ SInter(c) \/ SUnion(c)
    <2>1. Ready(c) /\ Begin(c, Idle) /\ UNCHANGED <<sets, threw, net>>
      BY <1>2 DEF Rejected, SInter, SUnion
    <2> QED
      BY <1>1, <2>1, BeginStep DEF Writes
  <1>3. ASSUME NEW op \in Writes, Begins(c, op) PROVE SetsInv'
    <2>1. PICK k \in Key, ms \in Args(Member, 1) :
            Begin(c, [op |-> op, key |-> k, todo |-> ms, n |-> 0])
      BY <1>3 DEF Begins
    <2>2. Ready(c) /\ UNCHANGED <<sets, threw, net>>
      BY <1>3 DEF Begins
    <2> DEFINE r == [op |-> op, key |-> k, todo |-> ms, n |-> 0]
    <2>3. r \in Command /\ r.op = op /\ r.n = 0
      BY BoundsAre DEF Command, Writes
    <2> HIDE DEF r
    <2>4. Begin(c, r)
      BY <2>1 DEF r
    <2> QED
      BY <2>2, <2>3, <2>4, BeginStep DEF Writes
  <1> QED
    BY <1>2, <1>3 DEF SAddBegins, SRemBegins, Writes

\* ... SCARD or SISMEMBER, ...
LEMMA ReadBeginsStep ==
    ASSUME SetsInv, NEW c \in Client, SCardBegins(c) \/ SIsMemberBegins(c)
    PROVE  SetsInv'
  <1>1. Ready(c) /\ UNCHANGED <<sets, threw, net>>
    BY DEF SCardBegins, SIsMemberBegins
  <1>2. PICK r \in Command : Begin(c, r) /\ r.op \in {"SCARD", "SISMEMBER"}
    <2>1. CASE SCardBegins(c)
      <3>1. PICK ks \in Args(Key, 1) :
              Begin(c, [op |-> "SCARD", todo |-> ks, out |-> <<>>])
        BY <2>1 DEF SCardBegins
      <3>2. [op |-> "SCARD", todo |-> ks, out |-> <<>>] \in Command
        BY DEF Command
      <3> QED
        BY <3>1, <3>2
    <2>2. CASE SIsMemberBegins(c)
      <3>1. PICK k \in Key, ms \in Args(Member, 1) :
              Begin(c, [op |-> "SISMEMBER", key |-> k, todo |-> ms, out |-> <<>>])
        BY <2>2 DEF SIsMemberBegins
      <3>2. [op |-> "SISMEMBER", key |-> k, todo |-> ms, out |-> <<>>] \in Command
        BY DEF Command
      <3> QED
        BY <3>1, <3>2
    <2> QED
      BY <2>1, <2>2
  <1> QED
    BY <1>1, <1>2, BeginStep DEF Writes

\* ... SMEMBERS or SDIFF.
LEMMA WriteBeginsStep ==
    ASSUME SetsInv, NEW c \in Client, SMembers(c) \/ SDiffBegins(c)
    PROVE  SetsInv'
  <1>1. Ready(c) /\ UNCHANGED <<sets, threw, net>>
    BY DEF SMembers, SDiffBegins
  <1>2. Idle \in Command /\ Idle.op = "idle" /\ IsFiniteSet({})
    BY FS_EmptySet DEF Command, Idle
  <1>3. <<>> \in Args(Key, 0)
    <2>1. <<>> \in Seq(Key) /\ Len(<<>>) \in 0..MaxArgs
      BY BoundsAre
    <2> QED
      BY <2>1, ArgsAre
  <1>4. PICK r \in Command : /\ Begin(c, r)
                             /\ \/ r.op = "idle"
                                \/ r.op \in {"SDIFF", "len"} /\ r.set = {}
    <2>1. CASE SMembers(c)
      <3>1. PICK k \in Key : Begin(c, Idle) \/ Begin(c, Result("len", k, {}, <<>>))
        BY <2>1 DEF SMembers
      <3> DEFINE new == Result("len", k, {}, <<>>)
      <3>2. new \in Command /\ new.op = "len" /\ new.set = {}
        BY <1>3 DEF Command, Result
      <3> HIDE DEF new
      <3>3. Begin(c, Idle) \/ Begin(c, new)
        BY <3>1 DEF new
      <3> QED
        BY <1>2, <3>2, <3>3
    <2>2. CASE SDiffBegins(c)
      <3>1. PICK k \in Key, ks \in Args(Key, 1) :
              Begin(c, Idle) \/ Begin(c, Result("SDIFF", k, {}, ks))
        BY <2>2 DEF SDiffBegins
      <3> DEFINE new == Result("SDIFF", k, {}, ks)
      <3>2. new \in Command /\ new.op = "SDIFF" /\ new.set = {}
        BY DEF Command, Result
      <3> HIDE DEF new
      <3>3. Begin(c, Idle) \/ Begin(c, new)
        BY <3>1 DEF new
      <3> QED
        BY <1>2, <3>2, <3>3
    <2> QED
      BY <2>1, <2>2
  <1> QED
    BY <1>1, <1>2, <1>4, BeginStep DEF Writes

\* SCARD and SISMEMBER collect one result after the other.
LEMMA ReadNextStep ==
    ASSUME SetsInv, NEW c \in Client, ReadNext(c)
    PROVE  SetsInv'
  <1> DEFINE x == Head(cmd[c].todo)
             rest == Tail(cmd[c].todo)
             got == IF cmd[c].op = "SCARD" THEN SCard(x)
                    ELSE SIsMember(cmd[c].key, x)
             out == Append(cmd[c].out, got)
             r == IF rest # <<>> THEN [cmd[c] EXCEPT !.todo = rest, !.out = out]
                  ELSE Idle
  <1>1. TypeOK /\ FiniteInv /\ cmd[c].op \in {"SCARD", "SISMEMBER"}
    BY DEF SetsInv, ReadNext
  <1>2. \/ cmd[c] \in [op : {"SISMEMBER"}, key : Key, todo : Args(Member, 1),
                       out : Seq(Nat)]
        \/ cmd[c] \in [op : {"SCARD"}, todo : Args(Key, 1), out : Seq(Nat)]
    BY <1>1, CommandIs
  <1>3. cmd' = [cmd EXCEPT ![c] = r] /\ UNCHANGED <<sets, cmds, threw, net>>
    <2>1. c \in DOMAIN cmd
      BY <1>1 DEF TypeOK
    <2> QED
      BY <2>1 DEF ReadNext
  <1>4. cmd[c].out \in Seq(Nat) /\ got \in Nat
    <2>1. ASSUME cmd[c].op = "SCARD" PROVE SCard(x) \in Nat
      <3>1. x \in Key
        BY <1>2, <2>1, ArgsShrink
      <3>2. IsFiniteSet(Members(x))
        BY <1>1, <3>1 DEF FiniteInv
      <3> QED
        BY <3>2, FS_CardinalityType DEF SCard
    <2>2. SIsMember(cmd[c].key, x) \in Nat
      BY DEF SIsMember
    <2> QED
      BY <1>2, <2>1, <2>2
  <1> HIDE DEF got
  <1>5. out \in Seq(Nat)
    BY <1>4
  <1> HIDE DEF out
  <1>6. r \in Command /\ r.op \in {"idle", "SCARD", "SISMEMBER"}
    <2>1. CASE rest = <<>>
      BY <2>1 DEF Command, Idle
    <2>2. CASE rest # <<>> /\ cmd[c].op = "SCARD"
      <3>1. cmd[c] \in [op : {"SCARD"}, todo : Args(Key, 1), out : Seq(Nat)]
        BY <1>2, <2>2
      <3>2. rest \in Args(Key, 1)
        BY <2>2, <3>1, ArgsShrink
      <3> HIDE DEF rest
      <3>3. r \in [op : {"SCARD"}, todo : Args(Key, 1), out : Seq(Nat)]
        BY <1>5, <2>2, <3>1, <3>2
      <3> QED
        BY <3>3 DEF Command
    <2>3. CASE rest # <<>> /\ cmd[c].op = "SISMEMBER"
      <3>1. cmd[c] \in [op : {"SISMEMBER"}, key : Key, todo : Args(Member, 1),
                        out : Seq(Nat)]
        BY <1>2, <2>3
      <3>2. rest \in Args(Member, 1)
        BY <2>3, <3>1, ArgsShrink
      <3> HIDE DEF rest
      <3>3. r \in [op : {"SISMEMBER"}, key : Key, todo : Args(Member, 1),
                   out : Seq(Nat)]
        BY <1>5, <2>3, <3>1, <3>2
      <3> QED
        BY <3>3 DEF Command
    <2> QED
      BY <1>1, <2>1, <2>2, <2>3
  <1> HIDE DEF r
  <1> QED
    BY <1>1, <1>3, <1>6, GoesOn DEF Writes

\* What SDIFF and SMEMBERS write is a finite set of members.
LEMMA ContentIs ==
    ASSUME TypeOK, FiniteInv, NEW r, r.live \in Key \cup {None},
           r.set \subseteq Member, IsFiniteSet(r.set)
    PROVE  Content(r) \subseteq Member /\ IsFiniteSet(Content(r))
  <1>1. CASE r.live = None
    BY <1>1 DEF Content
  <1>2. CASE r.live # None
    BY <1>2, MembersAre DEF Content, FiniteInv
  <1> QED
    BY <1>1, <1>2

\* SDIFF subtracts one set after the other.
LEMMA SDiffStep ==
    ASSUME SetsInv, NEW c \in Client, SDiff(c)
    PROVE  SetsInv'
  <1> DEFINE k == Head(cmd[c].todo)
             rest == Tail(cmd[c].todo)
             left == Content(cmd[c]) \ sets[k]
             r == IF sets[k] = None THEN [cmd[c] EXCEPT !.todo = rest]
                  ELSE Result("SDIFF", None, left, rest)
             new == IF rest = <<>> \/ Content(r) = {}
                      THEN [r EXCEPT !.op = "len"] ELSE r
  <1>1. TypeOK /\ FiniteInv /\ cmd[c].op = "SDIFF"
    BY DEF SetsInv, SDiff
  <1>2. /\ cmd' = [cmd EXCEPT ![c] = new]
        /\ UNCHANGED <<sets, cmds, threw, net>>
    BY DEF SDiff
  <1>3. cmd[c] \in [op : {"SDIFF"}, live : Key \cup {None}, set : SUBSET Member,
                    todo : Args(Key, 1)]
    BY <1>1, CommandIs
  <1>4. IsFiniteSet(cmd[c].set)
    BY <1>1 DEF FiniteInv
  <1>5. left \subseteq Member /\ IsFiniteSet(left)
    <2>1. Content(cmd[c]) \subseteq Member /\ IsFiniteSet(Content(cmd[c]))
      BY <1>1, <1>3, <1>4, ContentIs
    <2> QED
      BY <2>1, FS_Subset
  <1>6. rest \in Args(Key, 0) /\ (rest # <<>> => rest \in Args(Key, 1))
    BY <1>3, ArgsShrink
  <1> HIDE DEF left, rest, k
  <1>7. /\ r \in [op : {"SDIFF"}, live : Key \cup {None}, set : SUBSET Member,
                  todo : Args(Key, 0)]
        /\ r.todo = rest /\ IsFiniteSet(r.set)
    BY <1>3, <1>4, <1>5, <1>6 DEF Result
  <1> HIDE DEF r
  <1>8. new \in Command /\ new.op \in {"SDIFF", "len"} /\ new.set = r.set
    <2>1. CASE rest = <<>> \/ Content(r) = {}
      <3>1. new \in [op : {"len"}, live : Key \cup {None}, set : SUBSET Member,
                     todo : Args(Key, 0)] /\ new.set = r.set
        BY <1>7, <2>1
      <3> QED
        BY <3>1 DEF Command
    <2>2. CASE ~(rest = <<>> \/ Content(r) = {})
      <3>1. new \in [op : {"SDIFF"}, live : Key \cup {None}, set : SUBSET Member,
                     todo : Args(Key, 1)] /\ new.set = r.set
        BY <1>6, <1>7, <2>2
      <3> QED
        BY <3>1 DEF Command
    <2> QED
      BY <2>1, <2>2
  <1> HIDE DEF new
  <1> QED
    BY <1>1, <1>2, <1>7, <1>8, GoesOn DEF Writes

\* The length is written, then the elements.
LEMMA WriteStep ==
    ASSUME SetsInv, NEW c \in Client, WriteLen(c) \/ WriteNext(c) \/ WriteDone(c)
    PROVE  SetsInv'
  <1>1. TypeOK /\ FiniteInv
    BY DEF SetsInv
  <1>2. UNCHANGED <<sets, cmds, threw, net>> /\ cmd[c].op \in {"len", "write"}
    BY DEF WriteLen, WriteNext, WriteDone
  <1>3. PICK r \in Command : /\ cmd' = [cmd EXCEPT ![c] = r]
                             /\ r.op \in {"idle", "write"}
    <2>1. CASE WriteLen(c)
      <3> DEFINE S == Content(cmd[c])
                 r == [op |-> "write", live |-> cmd[c].live, set |-> cmd[c].set,
                       owed |-> S, seen |-> {}, n |-> 0, len |-> Cardinality(S)]
      <3>1. cmd[c].op = "len" /\ cmd' = [cmd EXCEPT ![c] = r]
        BY <2>1 DEF WriteLen
      <3>2. cmd[c] \in [op : {"len"}, live : Key \cup {None},
                        set : SUBSET Member, todo : Args(Key, 0)]
        BY <1>1, <3>1, CommandIs
      <3>3. IsFiniteSet(cmd[c].set)
        BY <1>1, <3>1 DEF FiniteInv
      <3>4. S \subseteq Member /\ IsFiniteSet(S)
        BY <1>1, <3>2, <3>3, ContentIs
      <3> HIDE DEF S
      <3>5. Cardinality(S) \in Nat
        BY <3>4, FS_CardinalityType
      <3>6. r \in Command /\ r.op = "write"
        BY <3>2, <3>4, <3>5 DEF Command
      <3> HIDE DEF r
      <3> QED
        BY <3>1, <3>6
    <2>2. CASE WriteNext(c)
      <3>1. cmd[c].op = "write"
        BY <2>2 DEF WriteNext
      <3>2. cmd[c] \in [op : {"write"}, live : Key \cup {None},
                        set : SUBSET Member, owed : SUBSET Member,
                        seen : SUBSET Member, n : Nat, len : Nat]
        BY <1>1, <3>1, CommandIs
      <3>3. Content(cmd[c]) \subseteq Member
        BY <1>1, <3>2, MembersAre DEF Content
      <3>4. PICK m \in Content(cmd[c]) \ cmd[c].seen :
              cmd' = [cmd EXCEPT ![c].seen = @ \cup {m}, ![c].owed = @ \ {m},
                                 ![c].n = @ + 1]
        BY <2>2 DEF WriteNext
      <3> DEFINE r == [cmd[c] EXCEPT !.seen = @ \cup {m}, !.owed = @ \ {m},
                                     !.n = @ + 1]
      <3>5. cmd' = [cmd EXCEPT ![c] = r]
        BY <1>1, <3>4 DEF TypeOK
      <3>6. /\ r.op = "write" /\ r.seen \in SUBSET Member
            /\ r.owed \in SUBSET Member /\ r.n \in Nat
        BY <3>2, <3>3
      <3>7. r \in [op : {"write"}, live : Key \cup {None},
                   set : SUBSET Member, owed : SUBSET Member,
                   seen : SUBSET Member, n : Nat, len : Nat]
        BY <3>2, <3>6
      <3>8. r \in Command
        BY <3>7 DEF Command
      <3> HIDE DEF r
      <3> QED
        BY <3>5, <3>6, <3>8
    <2>3. CASE WriteDone(c)
      <3>1. Idle \in Command /\ Idle.op = "idle"
        BY DEF Command, Idle
      <3> QED
        BY <2>3, <3>1 DEF WriteDone
    <2> QED
      BY <2>1, <2>2, <2>3
  <1> QED
    BY <1>2, <1>3, GoesOn DEF Writes

-----------------------------------------------------------------------------
(* SADD and SREM                                                           *)

\* The greater of a number and 0.
LEMMA MaxIs ==
    ASSUME NEW r \in Int
    PROVE  Max({r, 0}) = IF r >= 0 THEN r ELSE 0
  <1>1. PICK x \in {r, 0} : \A y \in {r, 0} : x >= y
    BY DEF Max
  <1>2. Max({r, 0}) \in {r, 0} /\ \A y \in {r, 0} : Max({r, 0}) >= y
    BY <1>1 DEF Max
  <1> QED
    BY <1>2

\* A set of members is not None.
LEMMA NotNone == \A S \in SUBSET Member : S # None
  BY SetsAssumption

\* SADD of one member.
LEMMA SAddStep ==
    ASSUME SetsInv, NEW c \in Client, SAdd(c)
    PROVE  SetsInv'
  <1>1. /\ TypeOK /\ FiniteInv /\ CountInv /\ MembersAccounted
        /\ cmd[c].op = "SADD" /\ MaxArgs \in Nat
    BY BoundsAre DEF SetsInv, SAdd
  <1>2. cmd[c] \in [op : Writes, key : Key, todo : Args(Member, 1), n : 0..MaxArgs]
    BY <1>1, CommandIs DEF Writes
  <1>k. PICK k \in Key : k = cmd[c].key
    BY <1>2
  <1> DEFINE m == Head(cmd[c].todo)
             rest == Tail(cmd[c].todo)
             one == IF m \in Members(k) THEN 0 ELSE 1
             n == cmd[c].n + one
             S == Members(k) \cup {m}
             r == IF rest # <<>> THEN [cmd[c] EXCEPT !.n = n, !.todo = rest]
                  ELSE Idle
  <1>3. /\ m \in Member /\ cmd[c].n \in Nat
        /\ cmd[c].n + Len(cmd[c].todo) <= MaxArgs /\ Len(cmd[c].todo) \in 1..MaxArgs
        /\ Len(rest) = Len(cmd[c].todo) - 1
        /\ rest # <<>> => rest \in Args(Member, 1)
    <2>1. cmd[c].todo \in Args(Member, 1) /\ cmd[c].n \in Nat
      BY <1>1, <1>2
    <2>2. cmd[c].n + Len(cmd[c].todo) <= MaxArgs
      BY <1>1 DEF CountInv
    <2> QED
      BY <2>1, <2>2, ArgsShrink
  <1>4. /\ sets' = [sets EXCEPT ![k] = S] /\ UNCHANGED <<cmds, threw>>
        /\ cmd' = [cmd EXCEPT ![c] = r]
        /\ net' = IF rest # <<>> THEN net ELSE [net EXCEPT ![k] = @ + n]
    <2>1. c \in DOMAIN cmd
      BY <1>1 DEF TypeOK
    <2> QED
      BY <1>k, <2>1 DEF SAdd
  <1>5. one \in {0, 1} /\ n \in 0..MaxArgs /\ n + Len(rest) <= MaxArgs
        /\ n = cmd[c].n + one
    <2>1. one \in {0, 1} /\ n = cmd[c].n + one
      OBVIOUS
    <2> HIDE DEF one, n, rest
    <2>2. n \in 0..MaxArgs
      BY <1>1, <1>3, <2>1
    <2>3. n + Len(rest) <= MaxArgs
      BY <1>1, <1>3, <2>1, SMTT(40)
    <2> QED
      BY <2>1, <2>2, <2>3
  <1>6. /\ S \subseteq Member /\ S # None /\ IsFiniteSet(S)
        /\ Cardinality(S) = Cardinality(Members(k)) + one
        /\ Cardinality(Members(k)) \in Nat
    <2>1. IsFiniteSet(Members(k))
      BY <1>1, <1>3 DEF FiniteInv
    <2>2. Members(k) \subseteq Member
      BY <1>1, <1>3, MembersAre
    <2>3. S \subseteq Member /\ S # None
      BY <1>3, <2>2, NotNone
    <2>4. Cardinality(Members(k)) \in Nat
      BY <2>1, FS_CardinalityType
    <2>5. IsFiniteSet(S) /\ Cardinality(S) =
            IF m \in Members(k) THEN Cardinality(Members(k))
            ELSE Cardinality(Members(k)) + 1
      BY <2>1, FS_AddElement
    <2> QED
      BY <2>3, <2>4, <2>5
  <1> HIDE DEF S, m, one, n
  <1>7. /\ r \in Command /\ r.op \in {"SADD", "idle"}
        /\ r.op = "SADD" <=> rest # <<>>
        /\ r.op = "SADD" => r.key = k /\ r.n = n /\ r.todo = rest
    <2>1. CASE rest = <<>>
      BY <2>1 DEF Command, Idle
    <2>2. CASE rest # <<>>
      <3> HIDE DEF rest
      <3>1. r \in [op : {"SADD", "SREM"}, key : Key, todo : Args(Member, 1),
                   n : 0..MaxArgs]
        BY <1>2, <1>3, <1>5, <2>2 DEF Writes
      <3> QED
        BY <1>1, <1>2, <1>k, <2>2, <3>1 DEF Command
    <2> QED
      BY <2>1, <2>2
  <1> HIDE DEF r, rest
  <1>8. /\ cmd'[c] = r /\ \A d \in Client \ {c} : cmd'[d] = cmd[d]
        /\ sets'[k] = S /\ \A x \in Key \ {k} : sets'[x] = sets[x]
    BY <1>1, <1>3, <1>4 DEF TypeOK
  <1>9. /\ Members(k)' = S /\ \A x \in Key \ {k} : Members(x)' = Members(x)
    BY <1>3, <1>6, <1>8 DEF Members
  <1>10. TypeOK'
    <2>1. net' \in [Key -> Int]
      BY <1>1, <1>3, <1>4, <1>5 DEF TypeOK
    <2>2. sets' \in [Key -> {None} \cup SUBSET Member]
      BY <1>1, <1>3, <1>4, <1>6 DEF TypeOK
    <2> QED
      BY <1>1, <1>4, <1>7, <2>1, <2>2 DEF TypeOK
  <1>11. ASSUME NEW op \in Writes, NEW x \in Key, <<op, x>> # <<"SADD", k>>
         PROVE  Pending(op, x)' = Pending(op, x)
    <2>1. \A d \in Client : Count(d, op, x)' = Count(d, op, x)
      BY <1>1, <1>k, <1>7, <1>8, <1>11 DEF Count, Writes
    <2> QED
      BY <2>1, SamePending
  <1>12. /\ Count(c, "SADD", k) = cmd[c].n
         /\ Count(c, "SADD", k)' = IF rest # <<>> THEN n ELSE 0
         /\ \A d \in Client \ {c} : Count(d, "SADD", k)' = Count(d, "SADD", k)
    BY <1>1, <1>k, <1>7, <1>8 DEF Count
  <1>13. IsFiniteSet(Pending("SADD", k)) /\ IsFiniteSet(Pending("SREM", k))
    BY <1>1, <1>3 DEF FiniteInv
  <1>14. Running("SADD", k) \in Nat /\ Running("SREM", k) \in Nat
    BY <1>13, FS_CardinalityType DEF Running
  <1>15. /\ IsFiniteSet(Pending("SADD", k)')
         /\ Running("SADD", k)' = Running("SADD", k)
              + (IF rest # <<>> THEN one ELSE - cmd[c].n)
    <2>1. CASE rest = <<>>
      <3>1. /\ IsFiniteSet(Pending("SADD", k)')
            /\ Cardinality(Pending("SADD", k)')
                 = Cardinality(Pending("SADD", k)) - Count(c, "SADD", k)
        BY <1>1, <1>12, <1>13, <2>1, LessPending DEF Writes
      <3> QED
        BY <1>3, <1>12, <1>14, <2>1, <3>1 DEF Running
    <2>2. CASE rest # <<>> /\ one = 1
      <3>1. Count(c, "SADD", k) < MaxArgs
        BY <1>1, <1>3, <1>5, <1>12, <2>2
      <3>2. Count(c, "SADD", k)' = Count(c, "SADD", k) + 1
        BY <1>5, <1>12, <2>2
      <3>3. /\ IsFiniteSet(Pending("SADD", k)')
            /\ Cardinality(Pending("SADD", k)')
                 = Cardinality(Pending("SADD", k)) + 1
        BY <1>1, <1>12, <1>13, <3>1, <3>2, MorePending DEF Writes
      <3> QED
        BY <2>2, <3>3 DEF Running
    <2>3. CASE rest # <<>> /\ one = 0
      <3>1. Count(c, "SADD", k)' = Count(c, "SADD", k)
        BY <1>3, <1>5, <1>12, <2>3
      <3>2. Pending("SADD", k)' = Pending("SADD", k)
        <4>1. \A d \in Client : Count(d, "SADD", k)' = Count(d, "SADD", k)
          BY <1>12, <3>1
        <4> QED
          BY <4>1, SamePending
      <3> QED
        BY <1>13, <1>14, <2>3, <3>2 DEF Running
    <2> QED
      BY <1>5, <2>1, <2>2, <2>3
  <1>16. FiniteInv'
    <2>1. \A x \in Key : IsFiniteSet(Members(x)')
      BY <1>1, <1>6, <1>9 DEF FiniteInv
    <2>2. \A x \in Key, op \in Writes : IsFiniteSet(Pending(op, x)')
      BY <1>1, <1>11, <1>15 DEF FiniteInv, Writes
    <2>3. \A d \in Client : cmd'[d].op \in {"SDIFF", "len"}
                              => IsFiniteSet(cmd'[d].set)
      BY <1>1, <1>7, <1>8 DEF FiniteInv
    <2> QED
      BY <2>1, <2>2, <2>3 DEF FiniteInv, Writes
  <1>17. CountInv'
    <2> SUFFICES ASSUME NEW d \in Client, cmd'[d].op \in Writes
                 PROVE  /\ cmd'[d].n + Len(cmd'[d].todo) <= MaxArgs
                        /\ cmd'[d].op = "SREM" /\ sets'[cmd'[d].key] = None
                             => cmd'[d].n = 0
      BY DEF CountInv, Writes
    <2>1. CASE d = c
      BY <1>5, <1>7, <1>8, <2>1 DEF Writes
    <2>2. CASE d # c
      <3>1. cmd'[d] = cmd[d] /\ cmd[d].key \in Key
        BY <1>1, <1>8, <2>2, CommandIs
      <3>2. sets'[cmd[d].key] = None => sets[cmd[d].key] = None
        BY <1>6, <1>8, <3>1
      <3> QED
        BY <1>1, <3>1, <3>2 DEF CountInv, Writes
    <2> QED
      BY <2>1, <2>2
  <1>18. MembersAccounted'
    <2> SUFFICES ASSUME NEW x \in Key
                 PROVE  Cardinality(Members(x)')
                          = net'[x] + Running("SADD", x)' - Running("SREM", x)'
      BY DEF MembersAccounted
    <2>1. Running("SREM", x)' = Running("SREM", x)
      BY <1>11 DEF Running, Writes
    <2>2. CASE x # k
      <3>1. Running("SADD", x)' = Running("SADD", x)
        BY <1>11, <2>2 DEF Running, Writes
      <3>2. net'[x] = net[x]
        BY <1>1, <1>4, <2>2 DEF TypeOK
      <3> QED
        BY <1>1, <1>9, <2>1, <2>2, <3>1, <3>2 DEF MembersAccounted
    <2>3. CASE x = k
      <3>1. net'[k] = IF rest # <<>> THEN net[k] ELSE net[k] + n
        BY <1>1, <1>3, <1>4 DEF TypeOK
      <3>2. Cardinality(Members(k)) = net[k] + Running("SADD", k)
                                       - Running("SREM", k)
        BY <1>1, <1>3 DEF MembersAccounted
      <3>3. net[k] \in Int
        BY <1>1, <1>3 DEF TypeOK
      <3>4. Cardinality(Members(x)') = Cardinality(Members(k)) + one
        BY <1>6, <1>9, <2>3
      <3>5. Running("SADD", x)' = Running("SADD", k)
              + (IF rest # <<>> THEN one ELSE - cmd[c].n)
        BY <1>15, <2>3
      <3>6. Running("SREM", x)' = Running("SREM", k) /\ net'[x] = net'[k]
        BY <2>1, <2>3
      <3>7. CASE rest # <<>>
        BY <1>5, <1>6, <1>14, <3>1, <3>2, <3>3, <3>4, <3>5, <3>6, <3>7
      <3>8. CASE rest = <<>>
        <4>1. net'[x] = net[k] + (cmd[c].n + one)
          BY <1>5, <3>1, <3>6, <3>8
        <4>2. Running("SADD", x)' = Running("SADD", k) - cmd[c].n
          BY <1>3, <1>14, <3>5, <3>8
        <4> QED
          <5>0. /\ Cardinality(Members(k)) \in Nat /\ net[k] \in Int
                /\ Running("SADD", k) \in Nat /\ Running("SREM", k) \in Nat
                /\ cmd[c].n \in Nat /\ one \in {0, 1}
            BY <1>3, <1>5, <1>6, <1>14, <3>3
          <5>1. Cardinality(Members(k)) + one
                  = (net[k] + (cmd[c].n + one)) + (Running("SADD", k) - cmd[c].n)
                      - Running("SREM", k)
            BY <3>2, <5>0
          <5> QED
            BY <3>4, <3>6, <4>1, <4>2, <5>1
      <3> QED
        BY <3>7, <3>8
    <2> QED
      BY <2>2, <2>3
  <1> QED
    BY <1>10, <1>16, <1>17, <1>18 DEF SetsInv

\* A loop that forgets an element stays what it was.
LEMMA ForgetIs ==
    ASSUME NEW r \in Command, NEW k, NEW m
    PROVE  /\ Forget(r, k, m) \in Command /\ Forget(r, k, m).op = r.op
           /\ r.op # "write" => Forget(r, k, m) = r
  <1>1. CASE r.op = "write"
    <2>1. r \in [op : {"write"}, live : Key \cup {None}, set : SUBSET Member,
                 owed : SUBSET Member, seen : SUBSET Member, n : Nat, len : Nat]
      BY <1>1 DEF Command, Idle
    <2>2. /\ Forget(r, k, m) \in
               [op : {"write"}, live : Key \cup {None}, set : SUBSET Member,
                owed : SUBSET Member, seen : SUBSET Member, n : Nat, len : Nat]
          /\ Forget(r, k, m).op = r.op
      BY <2>1 DEF Forget
    <2> QED
      BY <1>1, <2>2 DEF Command
  <1>2. CASE r.op # "write"
    BY <1>2 DEF Forget
  <1> QED
    BY <1>1, <1>2

\* SREM of one member.
LEMMA SRemStep ==
    ASSUME SetsInv, NEW c \in Client, SRem(c)
    PROVE  SetsInv'
  <1>1. /\ TypeOK /\ FiniteInv /\ CountInv /\ MembersAccounted
        /\ cmd[c].op = "SREM" /\ MaxArgs \in Nat
    BY BoundsAre DEF SetsInv, SRem
  <1>2. cmd[c] \in [op : Writes, key : Key, todo : Args(Member, 1), n : 0..MaxArgs]
    BY <1>1, CommandIs DEF Writes
  <1>k. PICK k \in Key : k = cmd[c].key
    BY <1>2
  <1> DEFINE m == Head(cmd[c].todo)
             rest == Tail(cmd[c].todo)
             one == IF m \in Members(k) THEN 1 ELSE 0
             n == cmd[c].n + one
             S == IF sets[k] = None THEN sets[k] ELSE sets[k] \ {m}
             done == sets[k] = None \/ rest = <<>>
             r == IF done THEN Idle ELSE [cmd[c] EXCEPT !.n = n, !.todo = rest]
             told == IF sets[k] = None THEN -1 ELSE n
  <1>3. /\ m \in Member /\ cmd[c].n \in Nat
        /\ cmd[c].n + Len(cmd[c].todo) <= MaxArgs /\ Len(cmd[c].todo) \in 1..MaxArgs
        /\ Len(rest) = Len(cmd[c].todo) - 1
        /\ rest # <<>> => rest \in Args(Member, 1)
        /\ sets[k] = None => cmd[c].n = 0
    <2>1. cmd[c].todo \in Args(Member, 1) /\ cmd[c].n \in Nat
      BY <1>1, <1>2
    <2>2. /\ cmd[c].n + Len(cmd[c].todo) <= MaxArgs
          /\ sets[k] = None => cmd[c].n = 0
      BY <1>1, <1>k DEF CountInv
    <2> QED
      BY <2>1, <2>2, ArgsShrink
  <1>4. /\ sets' = [sets EXCEPT ![k] = S] /\ UNCHANGED <<cmds, threw>>
        /\ cmd' = [d \in Client |-> IF d # c THEN Forget(cmd[d], k, m) ELSE r]
        /\ net' = IF done THEN [net EXCEPT ![k] = @ - Max({told, 0})] ELSE net
    BY <1>k DEF SRem
  <1>5. one \in {0, 1} /\ n \in 0..MaxArgs /\ n + Len(rest) <= MaxArgs
        /\ n = cmd[c].n + one /\ (sets[k] = None => n = 0)
    <2>1. one \in {0, 1} /\ n = cmd[c].n + one /\ (sets[k] = None => one = 0)
      BY DEF Members
    <2> HIDE DEF one, n, rest
    <2>2. n \in 0..MaxArgs
      BY <1>1, <1>3, <2>1
    <2>3. n + Len(rest) <= MaxArgs
      BY <1>1, <1>3, <2>1, SMTT(40)
    <2>4. sets[k] = None => n = 0
      BY <1>3, <2>1
    <2> QED
      BY <2>1, <2>2, <2>3, <2>4
  <1>6. Max({told, 0}) = n
    <2> HIDE DEF n, one
    <2>1. told \in Int /\ (IF told >= 0 THEN told ELSE 0) = n
      BY <1>5
    <2> HIDE DEF told
    <2> QED
      BY <2>1, MaxIs
  <1>7. /\ S \in {None} \cup SUBSET Member
        /\ S = None <=> sets[k] = None
        /\ \A x \in Key \ {k} : Members(x)' = Members(x)
        /\ \A x \in Key : sets'[x] = None <=> sets[x] = None
        /\ Members(k)' = Members(k) \ {m}
    <2>1. /\ sets[k] \in {None} \cup SUBSET Member /\ k \in DOMAIN sets
          /\ DOMAIN sets = Key
      BY <1>1 DEF TypeOK
    <2>2. /\ S \in {None} \cup SUBSET Member
          /\ S = None <=> sets[k] = None
      BY <2>1, NotNone
    <2>3. sets'[k] = S /\ \A x \in Key \ {k} : sets'[x] = sets[x]
      BY <1>4, <2>1
    <2>4. Members(k)' = Members(k) \ {m}
      <3>1. CASE sets[k] = None
        BY <2>2, <2>3, <3>1 DEF Members
      <3>2. CASE sets[k] # None
        BY <2>2, <2>3, <3>2 DEF Members
      <3> QED
        BY <3>1, <3>2
    <2> QED
      BY <2>2, <2>3, <2>4 DEF Members
  <1>8. /\ IsFiniteSet(Members(k)') /\ Cardinality(Members(k)) \in Nat
        /\ Cardinality(Members(k)') = Cardinality(Members(k)) - one
    <2>1. IsFiniteSet(Members(k))
      BY <1>1 DEF FiniteInv
    <2>2. Cardinality(Members(k)) \in Nat
      BY <2>1, FS_CardinalityType
    <2>3. IsFiniteSet(Members(k) \ {m}) /\ Cardinality(Members(k) \ {m}) =
            IF m \in Members(k) THEN Cardinality(Members(k)) - 1
            ELSE Cardinality(Members(k))
      BY <2>1, FS_RemoveElement
    <2> QED
      BY <1>7, <2>2, <2>3
  <1> HIDE DEF S, one, n, told
  <1>9. /\ r \in Command /\ r.op \in {"SREM", "idle"}
        /\ r.op = "SREM" <=> ~done
        /\ r.op = "SREM" => r.key = k /\ r.n = n /\ r.todo = rest
    <2>1. CASE done
      BY <2>1 DEF Command, Idle
    <2>2. CASE ~done
      <3>0. rest # <<>> /\ rest \in Args(Member, 1)
        BY <1>3, <2>2
      <3> HIDE DEF rest, done
      <3>1. r \in [op : {"SADD", "SREM"}, key : Key, todo : Args(Member, 1),
                   n : 0..MaxArgs]
        BY <1>2, <1>5, <2>2, <3>0 DEF Writes
      <3> QED
        BY <1>1, <1>2, <1>k, <2>2, <3>1 DEF Command
    <2> QED
      BY <2>1, <2>2
  <1> HIDE DEF r, rest, m
  <1>10. /\ cmd'[c] = r /\ cmd' \in [Client -> Command]
         /\ \A d \in Client \ {c} : /\ cmd'[d].op = cmd[d].op
                                    /\ cmd[d].op # "write" => cmd'[d] = cmd[d]
    <2>1. \A d \in Client : cmd[d] \in Command
      BY <1>1 DEF TypeOK
    <2>2. \A d \in Client : /\ Forget(cmd[d], k, m) \in Command
                            /\ Forget(cmd[d], k, m).op = cmd[d].op
                            /\ cmd[d].op # "write" => Forget(cmd[d], k, m) = cmd[d]
      BY <2>1, ForgetIs
    <2> QED
      BY <1>4, <1>9, <2>2
  <1>11. TypeOK'
    <2>0. n \in Int /\ net \in [Key -> Int]
      BY <1>1, <1>5 DEF TypeOK
    <2>1. net' \in [Key -> Int]
      BY <1>4, <1>6, <2>0
    <2>2. sets' \in [Key -> {None} \cup SUBSET Member]
      BY <1>1, <1>4, <1>7 DEF TypeOK
    <2> QED
      BY <1>1, <1>4, <1>10, <2>1, <2>2 DEF TypeOK
  <1> HIDE DEF done
  <1>12. ASSUME NEW op \in Writes, NEW x \in Key, <<op, x>> # <<"SREM", k>>
         PROVE  Pending(op, x)' = Pending(op, x)
    <2>1. \A d \in Client : Count(d, op, x)' = Count(d, op, x)
      BY <1>1, <1>k, <1>9, <1>10, <1>12 DEF Count, Writes
    <2> QED
      BY <2>1, SamePending
  <1>13. /\ Count(c, "SREM", k) = cmd[c].n
         /\ Count(c, "SREM", k)' = IF done THEN 0 ELSE n
         /\ \A d \in Client \ {c} : Count(d, "SREM", k)' = Count(d, "SREM", k)
    BY <1>1, <1>k, <1>9, <1>10 DEF Count
  <1>14. IsFiniteSet(Pending("SADD", k)) /\ IsFiniteSet(Pending("SREM", k))
    BY <1>1 DEF FiniteInv
  <1>15. Running("SADD", k) \in Nat /\ Running("SREM", k) \in Nat
    BY <1>14, FS_CardinalityType DEF Running
  <1>16. /\ IsFiniteSet(Pending("SREM", k)')
         /\ Running("SREM", k)' = Running("SREM", k)
              + (IF done THEN - cmd[c].n ELSE one)
    <2>1. CASE done
      <3>1. /\ IsFiniteSet(Pending("SREM", k)')
            /\ Cardinality(Pending("SREM", k)')
                 = Cardinality(Pending("SREM", k)) - Count(c, "SREM", k)
        BY <1>1, <1>13, <1>14, <2>1, LessPending DEF Writes
      <3> QED
        BY <1>3, <1>13, <1>15, <2>1, <3>1 DEF Running
    <2>2. CASE ~done /\ one = 1
      <3>1. Count(c, "SREM", k) < MaxArgs
        BY <1>1, <1>3, <1>5, <1>13, <2>2
      <3>2. Count(c, "SREM", k)' = Count(c, "SREM", k) + 1
        BY <1>5, <1>13, <2>2
      <3>3. /\ IsFiniteSet(Pending("SREM", k)')
            /\ Cardinality(Pending("SREM", k)')
                 = Cardinality(Pending("SREM", k)) + 1
        BY <1>1, <1>13, <1>14, <3>1, <3>2, MorePending DEF Writes
      <3> QED
        BY <2>2, <3>3 DEF Running
    <2>3. CASE ~done /\ one = 0
      <3>1. Count(c, "SREM", k)' = Count(c, "SREM", k)
        BY <1>3, <1>5, <1>13, <2>3
      <3>2. Pending("SREM", k)' = Pending("SREM", k)
        <4>1. \A d \in Client : Count(d, "SREM", k)' = Count(d, "SREM", k)
          BY <1>13, <3>1
        <4> QED
          BY <4>1, SamePending
      <3> QED
        BY <1>14, <1>15, <2>3, <3>2 DEF Running
    <2> QED
      BY <1>5, <2>1, <2>2, <2>3
  <1>17. FiniteInv'
    <2>1. \A x \in Key : IsFiniteSet(Members(x)')
      BY <1>1, <1>7, <1>8 DEF FiniteInv
    <2>2. \A x \in Key, op \in Writes : IsFiniteSet(Pending(op, x)')
      BY <1>1, <1>12, <1>16 DEF FiniteInv, Writes
    <2>3. \A d \in Client : cmd'[d].op \in {"SDIFF", "len"}
                              => IsFiniteSet(cmd'[d].set)
      BY <1>1, <1>9, <1>10 DEF FiniteInv
    <2> QED
      BY <2>1, <2>2, <2>3 DEF FiniteInv, Writes
  <1>18. CountInv'
    <2> SUFFICES ASSUME NEW d \in Client, cmd'[d].op \in Writes
                 PROVE  /\ cmd'[d].n + Len(cmd'[d].todo) <= MaxArgs
                        /\ cmd'[d].op = "SREM" /\ sets'[cmd'[d].key] = None
                             => cmd'[d].n = 0
      BY DEF CountInv, Writes
    <2>1. CASE d = c
      <3>1. ~done /\ cmd'[d].key = k /\ cmd'[d].n = n /\ cmd'[d].todo = rest
        BY <1>9, <1>10, <2>1 DEF Writes
      <3>2. sets'[k] # None
        BY <1>7, <3>1 DEF done
      <3> QED
        BY <1>5, <3>1, <3>2
    <2>2. CASE d # c
      <3>1. cmd'[d] = cmd[d] /\ cmd[d].op \in Writes
        BY <1>10, <2>2 DEF Writes
      <3>2. cmd[d].key \in Key
        BY <1>1, <3>1, CommandIs
      <3> QED
        BY <1>1, <1>7, <3>1, <3>2 DEF CountInv, Writes
    <2> QED
      BY <2>1, <2>2
  <1>19. MembersAccounted'
    <2> SUFFICES ASSUME NEW x \in Key
                 PROVE  Cardinality(Members(x)')
                          = net'[x] + Running("SADD", x)' - Running("SREM", x)'
      BY DEF MembersAccounted
    <2>1. Running("SADD", x)' = Running("SADD", x)
      BY <1>12 DEF Running, Writes
    <2>2. CASE x # k
      <3>1. Running("SREM", x)' = Running("SREM", x)
        BY <1>12, <2>2 DEF Running, Writes
      <3>2. net'[x] = net[x]
        BY <1>1, <1>4, <2>2 DEF TypeOK
      <3> QED
        BY <1>1, <1>7, <2>1, <2>2, <3>1, <3>2 DEF MembersAccounted
    <2>3. CASE x = k
      <3>1. net'[k] = IF done THEN net[k] - n ELSE net[k]
        BY <1>1, <1>4, <1>6 DEF TypeOK
      <3>2. Cardinality(Members(k)) = net[k] + Running("SADD", k)
                                       - Running("SREM", k)
        BY <1>1 DEF MembersAccounted
      <3>3. /\ Cardinality(Members(k)) \in Nat /\ net[k] \in Int
            /\ Running("SADD", k) \in Nat /\ Running("SREM", k) \in Nat
            /\ cmd[c].n \in Nat /\ one \in {0, 1} /\ n = cmd[c].n + one
        BY <1>1, <1>3, <1>5, <1>8, <1>15 DEF TypeOK
      <3>4. Cardinality(Members(k)) - one
              = net'[k] + Running("SADD", k)
                  - (Running("SREM", k) + (IF done THEN - cmd[c].n ELSE one))
        <4>1. CASE done
          BY <3>1, <3>2, <3>3, <4>1
        <4>2. CASE ~done
          BY <3>1, <3>2, <3>3, <4>2
        <4> QED
          BY <4>1, <4>2
      <3> QED
        BY <1>8, <1>16, <2>1, <2>3, <3>4
    <2> QED
      BY <2>2, <2>3
  <1> QED
    BY <1>11, <1>17, <1>18, <1>19 DEF SetsInv

-----------------------------------------------------------------------------
(* The theorems                                                            *)

\* The strengthened invariant holds in the initial states.
LEMMA SetsInit == Init => SetsInv
  <1> SUFFICES ASSUME Init PROVE SetsInv
    OBVIOUS
  <1>1. IsFiniteSet({}) /\ Cardinality({}) = 0
    BY FS_EmptySet
  <1>2. \A c \in Client : cmd[c] = Idle /\ cmd[c].op = "idle"
    BY DEF Init, Idle
  <1>3. TypeOK
    <2>1. Idle \in Command
      BY DEF Command
    <2>2. cmds \in 0..MaxCmds /\ 0 \in Int
      BY BoundsAre DEF Init
    <2>3. cmd \in [Client -> Command] /\ net \in [Key -> Int]
      BY <2>1 DEF Init
    <2>4. sets \in [Key -> {None} \cup SUBSET Member]
      BY DEF Init
    <2> QED
      BY <2>2, <2>3, <2>4 DEF Init, TypeOK
  <1>4. \A k \in Key : Members(k) = {}
    BY DEF Init, Members
  <1>5. \A k \in Key, op \in {"SADD", "SREM"} : Pending(op, k) = {}
    BY <1>2 DEF Pending, Count
  <1>6. FiniteInv /\ CountInv
    BY <1>1, <1>2, <1>4, <1>5 DEF FiniteInv, CountInv
  <1>7. MembersAccounted
    BY <1>1, <1>4, <1>5 DEF Init, MembersAccounted, Running
  <1> QED
    BY <1>3, <1>6, <1>7 DEF SetsInv

\* Every step keeps it.
LEMMA SetsStep == SetsInv /\ [Next]_vars => SetsInv'
  <1> SUFFICES ASSUME SetsInv, [Next]_vars PROVE SetsInv'
    OBVIOUS
  <1>1. CASE MapRace \/ UNCHANGED vars
    <2>1. UNCHANGED <<sets, cmd, cmds, net>> /\ threw' \in BOOLEAN
      BY <1>1 DEF MapRace, vars, SetsInv, TypeOK
    <2>2. TypeOK'
      BY <2>1 DEF SetsInv, TypeOK
    <2>3. \A op, k : Pending(op, k)' = Pending(op, k) /\ Members(k)' = Members(k)
      BY <2>1 DEF Pending, Count, Members
    <2>4. FiniteInv' /\ CountInv'
      BY <2>1, <2>3 DEF SetsInv, FiniteInv, CountInv
    <2>5. MembersAccounted'
      BY <2>1, <2>3 DEF SetsInv, MembersAccounted, Running
    <2> QED
      BY <2>2, <2>4, <2>5 DEF SetsInv
  <1> QED
    BY <1>1, BeginsStep, ReadBeginsStep, WriteBeginsStep, ReadNextStep,
       SDiffStep, WriteStep, SAddStep, SRemStep DEF Next

\* SetsInv is an invariant of every behaviour of the set commands.
LEMMA SetsInvariant == Spec => []SetsInv
  BY SetsInit, SetsStep, PTL DEF Spec

\* Every command keeps arguments of its own kind while it is under way: the
\* loops over the arguments never run past the last one.
THEOREM TypeCorrect == Spec => []TypeOK
  BY SetsInvariant, PTL DEF SetsInv

\* SAdd and SRem take setLock once per member and other commands come in
\* between; what they answered, and what those under way have counted, still
\* adds up to the size of every set.
THEOREM AnswersAddUp == Spec => []MembersAccounted
  BY SetsInvariant, PTL DEF SetsInv

\* SInter, which walks the first of the smallest sets, answers with the
\* intersection, for any keys and sets that commands can have built.
THEOREM SInterIntersects == Spec => []InterCorrect
  <1>1. SetsInv => InterCorrect
    <2> SUFFICES ASSUME SetsInv, NEW ks \in Args(Key, 2),
                        \A i \in DOMAIN ks : sets[ks[i]] # None
                 PROVE  Inter([i \in DOMAIN ks |-> sets[ks[i]]])
                          = {m \in Member : \A k \in ToSet(ks) : m \in sets[k]}
      BY DEF InterCorrect
    <2> DEFINE vs == [i \in DOMAIN ks |-> sets[ks[i]]]
               n == Len(ks)
    <2>1. TypeOK /\ FiniteInv
      BY DEF SetsInv
    <2>2. ks \in Seq(Key) /\ n \in 2..MaxArgs
      BY ArgsAre
    <2>3. n \in Nat \ {0} /\ DOMAIN ks = 1..n /\ \A i \in 1..n : ks[i] \in Key
      BY <2>2, BoundsAre
    <2>4. DOMAIN vs = 1..n /\ \A i \in 1..n : /\ vs[i] = sets[ks[i]]
                                              /\ vs[i] \subseteq Member
                                              /\ IsFiniteSet(vs[i])
      BY <2>1, <2>3, MembersAre DEF FiniteInv
    <2> HIDE DEF vs, n
    <2>5. \A m : m \in Inter(vs) <=> \A i \in 1..n : m \in vs[i]
      BY <2>3, <2>4, InterIs
    <2>6. \A m : (\A i \in 1..n : m \in vs[i])
                   <=> m \in Member /\ \A k \in ToSet(ks) : m \in sets[k]
      BY <2>3, <2>4 DEF ToSet
    <2>7. Inter(vs) = {m \in Member : \A k \in ToSet(ks) : m \in sets[k]}
      BY <2>5, <2>6
    <2> QED
      BY <2>7 DEF vs
  <1> QED
    BY <1>1, SetsInvariant, PTL

=============================================================================
