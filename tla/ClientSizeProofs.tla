-------------------------- MODULE ClientSizeProofs --------------------------
(***************************************************************************)
(* ctx.ClientSize, for any finite set of clients: as long as no two        *)
(* updates overlap, it is the clients counted in less those counted out.   *)
(***************************************************************************)
EXTENDS ClientSize, FiniteSetTheorems, TLAPS

\* A set of clients is finite, and one more or one less is one more or less.
LEMMA ClientSets ==
    ASSUME NEW S \in SUBSET Client, NEW c \in Client
    PROVE  /\ IsFiniteSet(S) /\ Cardinality(S) \in Nat
           /\ Cardinality(S \cup {c}) = IF c \in S THEN Cardinality(S)
                                                   ELSE Cardinality(S) + 1
           /\ Cardinality(S \ {c}) = IF c \in S THEN Cardinality(S) - 1
                                                ELSE Cardinality(S)
<1>1. IsFiniteSet(S)
  BY ClientAssumption, FS_Subset
<1>2. Cardinality(S) \in Nat
  BY <1>1, FS_CardinalityType
<1>3. Cardinality(S \cup {c}) = IF c \in S THEN Cardinality(S)
                                           ELSE Cardinality(S) + 1
  BY <1>1, FS_AddElement
<1>4. Cardinality(S \ {c}) = IF c \in S THEN Cardinality(S) - 1
                                        ELSE Cardinality(S)
  BY <1>1, FS_RemoveElement
<1> QED
  BY <1>1, <1>2, <1>3, <1>4

\* The cardinalities that SizeAccounting is about are numbers.
LEMMA CountsTyped ==
    ASSUME TypeOK
    PROVE  Cardinality(Counted) \in Nat /\ Cardinality(ranged) \in Nat
<1>1. IsFiniteSet(Counted) /\ IsFiniteSet(ranged)
  BY ClientAssumption, FS_Subset DEF Counted, TypeOK
<1> QED
  BY <1>1, FS_CardinalityType

\* A store after which no update has been overwritten changes the counter by
\* just its own amount.
LEMMA StoreExact ==
    ASSUME NEW r, NEW n, Store(r, n), ~raced'
    PROVE  ~raced /\ size' = size + n
<1>1. ~raced /\ size = r
  BY Zenon DEF Store
<1> QED
  BY <1>1 DEF Store

\* The client the accept loop is counting in is registered and not watched.
LEMMA CurrentClient ==
    ASSUME TypeOK, CountInv, acc = "store"
    PROVE  cur \in Client /\ watch[cur] = "off" /\ stage[cur] # "new"
<1>1. cur \in Client
  BY DEF TypeOK, CountInv
<1>2. \A c \in Client : cur = c => watch[c] = "off" /\ stage[c] # "new"
  BY DEF CountInv
<1> QED
  BY <1>1, <1>2, Zenon

\* Every step keeps the types and the strengthening.
LEMMA CountStep == TypeOK /\ CountInv /\ [Next]_vars => TypeOK' /\ CountInv'
<1> SUFFICES ASSUME TypeOK, CountInv, [Next]_vars PROVE TypeOK' /\ CountInv'
  OBVIOUS
<1> USE ClientAssumption DEF TypeOK, CountInv, accVars, watchVars, closeVars,
        Store
<1>1. CASE UNCHANGED vars
  BY <1>1 DEF vars
<1>2. CASE AcceptTest
  BY <1>2 DEF AcceptTest
<1>3. ASSUME NEW c \in Client, Register(c) PROVE TypeOK' /\ CountInv'
  BY <1>3 DEF Register
<1>4. CASE AcceptLoad
  BY <1>4 DEF AcceptLoad
<1>5. CASE AcceptStore
  <2>1. raced' \in BOOLEAN
    BY <1>5, Zenon DEF AcceptStore
  <2>2. size' \in Int
    BY <1>5 DEF AcceptStore
  <2>3. cur \in Client /\ stage[cur] # "new"
    BY <1>5, CurrentClient DEF AcceptStore
  <2> QED
    BY <1>5, <2>1, <2>2, <2>3 DEF AcceptStore
<1>6. ASSUME NEW c \in Client, SessionEnds(c) PROVE TypeOK' /\ CountInv'
  BY <1>6 DEF SessionEnds
<1>7. ASSUME NEW c \in Client, WatchDelete(c) PROVE TypeOK' /\ CountInv'
  BY <1>7 DEF WatchDelete
<1>8. ASSUME NEW c \in Client, WatchLoad(c) PROVE TypeOK' /\ CountInv'
  BY <1>8 DEF WatchLoad
<1>9. ASSUME NEW c \in Client, WatchStore(c) PROVE TypeOK' /\ CountInv'
  BY <1>9 DEF WatchStore
<1>10. CASE CloseBegins
  BY <1>10 DEF CloseBegins
<1>11. ASSUME NEW c \in Client, CloseClient(c) PROVE TypeOK' /\ CountInv'
  BY <1>11 DEF CloseClient
<1>12. CASE CloseLoad
  BY <1>12 DEF CloseLoad
<1>13. CASE CloseStore
  BY <1>13 DEF CloseStore
<1>14. CASE CloseEnds
  BY <1>14 DEF CloseEnds
<1> QED
  BY <1>1, <1>2, <1>3, <1>4, <1>5, <1>6, <1>7, <1>8, <1>9, <1>10, <1>11, <1>12,
     <1>13, <1>14 DEF Next

\* A step that leaves the counter alone leaves the accounting as it is if no
\* client changes sides.
LEMMA AccountingUnchanged ==
    ASSUME SizeAccounting, UNCHANGED <<size, raced>>, Counted' = Counted,
           CountedOut' = CountedOut
    PROVE  SizeAccounting'
  BY DEF SizeAccounting

\* Every step keeps the accounting: a store that overwrites nothing changes
\* the counter by the client that changes sides.
LEMMA AccountingStep ==
    TypeOK /\ CountInv /\ SizeAccounting /\ [Next]_vars => SizeAccounting'
<1> SUFFICES ASSUME TypeOK, CountInv, SizeAccounting, [Next]_vars
             PROVE  SizeAccounting'
  OBVIOUS
<1>1. CASE UNCHANGED vars
  BY <1>1, AccountingUnchanged DEF vars, watchVars, closeVars, Counted, CountedOut
<1>2. CASE AcceptTest
  BY <1>2, AccountingUnchanged DEF AcceptTest, watchVars, closeVars, Counted,
     CountedOut
<1>3. ASSUME NEW c \in Client, Register(c) PROVE SizeAccounting'
  BY <1>3, AccountingUnchanged DEF Register, watchVars, closeVars, Counted,
     CountedOut
<1>4. CASE AcceptLoad
  BY <1>4, AccountingUnchanged DEF AcceptLoad, watchVars, closeVars, Counted,
     CountedOut
<1>5. CASE AcceptStore
  <2>1. cur \in Client /\ watch[cur] = "off"
    BY <1>5, CurrentClient DEF AcceptStore
  <2>2. Counted' = Counted \cup {cur} /\ cur \notin Counted
    BY <1>5, <2>1 DEF AcceptStore, Counted, TypeOK
  <2>3. Cardinality(Counted') = Cardinality(Counted) + 1
    BY <2>1, <2>2, ClientSets DEF Counted
  <2>4. CountedOut' = CountedOut
    BY <1>5 DEF AcceptStore, closeVars, CountedOut
  <2> SUFFICES ASSUME ~raced'
               PROVE  size' = Cardinality(Counted') - CountedOut'
    BY DEF SizeAccounting
  <2>5. ~raced /\ size' = size + 1
    BY <1>5, StoreExact DEF AcceptStore
  <2>6. size = Cardinality(Counted) - CountedOut
    BY <2>5 DEF SizeAccounting
  <2> QED
    BY <2>3, <2>4, <2>5, <2>6, CountsTyped DEF CountedOut
<1>6. ASSUME NEW c \in Client, SessionEnds(c) PROVE SizeAccounting'
  BY <1>6, AccountingUnchanged DEF SessionEnds, watchVars, closeVars, Counted,
     CountedOut
<1>7. ASSUME NEW c \in Client, WatchDelete(c) PROVE SizeAccounting'
  <2>1. Counted' = Counted
    BY <1>7 DEF WatchDelete, Counted, TypeOK
  <2> QED
    BY <1>7, <2>1, AccountingUnchanged DEF WatchDelete, closeVars, CountedOut
<1>8. ASSUME NEW c \in Client, WatchLoad(c) PROVE SizeAccounting'
  <2>1. Counted' = Counted
    BY <1>8 DEF WatchLoad, Counted, TypeOK
  <2> QED
    BY <1>8, <2>1, AccountingUnchanged DEF WatchLoad, closeVars, CountedOut
<1>9. ASSUME NEW c \in Client, WatchStore(c) PROVE SizeAccounting'
  <2>1. Counted' = Counted \ {c} /\ c \in Counted
    BY <1>9 DEF WatchStore, Counted, TypeOK
  <2>2. Cardinality(Counted') = Cardinality(Counted) - 1
    BY <2>1, ClientSets DEF Counted
  <2>3. CountedOut' = CountedOut
    BY <1>9 DEF WatchStore, closeVars, CountedOut
  <2> SUFFICES ASSUME ~raced'
               PROVE  size' = Cardinality(Counted') - CountedOut'
    BY DEF SizeAccounting
  <2>5. ~raced /\ size' = size - 1
    BY <1>9, StoreExact DEF WatchStore
  <2>6. size = Cardinality(Counted) - CountedOut
    BY <2>5 DEF SizeAccounting
  <2> QED
    BY <2>2, <2>3, <2>5, <2>6, CountsTyped DEF CountedOut
<1>10. CASE CloseBegins
  BY <1>10, AccountingUnchanged DEF CloseBegins, watchVars, Counted, CountedOut
<1>11. ASSUME NEW c \in Client, CloseClient(c) PROVE SizeAccounting'
  <2>1. ranged' = ranged \cup {c} /\ c \notin ranged
    BY <1>11 DEF CloseClient, CountInv
  <2>2. Cardinality(ranged') = Cardinality(ranged) + 1
    BY <2>1, ClientSets DEF TypeOK
  <2>3. CountedOut' = CountedOut
    BY <1>11, <2>2, CountsTyped DEF CloseClient, CountedOut
  <2> QED
    BY <1>11, <2>3, AccountingUnchanged DEF CloseClient, watchVars, Counted
<1>12. CASE CloseLoad
  BY <1>12, AccountingUnchanged DEF CloseLoad, watchVars, Counted, CountedOut
<1>13. CASE CloseStore
  <2>1. Counted' = Counted /\ CountedOut' = CountedOut + 1
    BY <1>13, CountsTyped DEF CloseStore, watchVars, Counted, CountedOut
  <2> SUFFICES ASSUME ~raced'
               PROVE  size' = Cardinality(Counted') - CountedOut'
    BY DEF SizeAccounting
  <2>2. ~raced /\ size' = size - 1
    BY <1>13, StoreExact DEF CloseStore
  <2>3. size = Cardinality(Counted) - CountedOut
    BY <2>2 DEF SizeAccounting
  <2>4. CountedOut \in Int /\ Cardinality(Counted) \in Int
    BY CountsTyped DEF CountedOut
  <2> QED
    BY <2>1, <2>2, <2>3, <2>4
<1>14. CASE CloseEnds
  BY <1>14, AccountingUnchanged DEF CloseEnds, watchVars, Counted, CountedOut
<1> QED
  BY <1>1, <1>2, <1>3, <1>4, <1>5, <1>6, <1>7, <1>8, <1>9, <1>10, <1>11, <1>12,
     <1>13, <1>14 DEF Next

\* The counter is exact as long as updates do not overlap: ++ in the accept
\* loop, -- in the watchers and -- in app.Close account for every client.
THEOREM SizeAccounted == Spec => []SizeAccounting
<1>1. Init => TypeOK /\ CountInv
  <2> SUFFICES ASSUME Init PROVE TypeOK /\ CountInv
    OBVIOUS
  <2>1. raced \in BOOLEAN
    BY Zenon DEF Init
  <2>2. TypeOK
    BY <2>1 DEF Init, TypeOK
  <2>3. CountInv
    BY ClientAssumption DEF Init, CountInv
  <2> QED
    BY <2>2, <2>3
<1>2. Init => SizeAccounting
  <2> SUFFICES ASSUME Init PROVE SizeAccounting
    OBVIOUS
  <2>1. Counted = {} /\ ranged = {} /\ closing = "no" /\ size = 0
    BY DEF Init, Counted
  <2>2. Cardinality({}) = 0
    BY FS_EmptySet
  <2> QED
    BY <2>1, <2>2 DEF SizeAccounting, CountedOut
<1> QED
  BY <1>1, <1>2, CountStep, AccountingStep, PTL DEF Spec
=============================================================================
