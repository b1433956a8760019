------------------------ MODULE StatsCountersProofs ------------------------
(***************************************************************************)
(* Values and counters of the stats backend, for any keys, amounts, width  *)
(* of integers, length of history and number of commands.                  *)
(***************************************************************************)
EXTENDS StatsCounters, SequenceTheorems, WellFoundedInduction, TLAPS

-----------------------------------------------------------------------------
(* The inductive invariant                                                 *)

\* A flush visits counters that exist, the one it is at has been recorded, and
\* so has what its value was: a counter holds what was put in and not yet taken
\* out, but for a multiple of 2^Bits.
FlushInv ==
    /\ \A k \in flushing : counters[k] # Absent
    /\ half # Absent => flushed[half] # <<>>

Holding(k) == IF k = half THEN 0 ELSE counters[k].value

Multiple(n) == \E q \in Int : n = q * 2^Bits

CountInv == \A k \in Key : counters[k] # Absent =>
                Multiple(issued[k] - (Holding(k) + taken[k]))

\* Entry i of the initial rate and the counts s that followed it, and HistoryWindow
\* entry by entry.
Entry(s, i) == IF i = 1 THEN 0 ELSE s[i - 1]

WindowOK(c, s) ==
    /\ Len(c.history) = IF Len(s) <= MaxHistory THEN Len(s) ELSE MaxHistory
    /\ c.rate = Entry(s, Len(s) + 1)
    /\ \A i \in DOMAIN c.history :
          c.history[i] = Entry(s, Len(s) - Len(c.history) + i)

WindowInv ==
    \A k \in Key : counters[k] # Absent => WindowOK(counters[k], flushed[k])

\* COUNTERS is in the middle of a counter that exists, and was reset no more
\* often than it was flushed.
ReportInv ==
    report # NoReport /\ report.read = 1 =>
        /\ report.key \in Key /\ counters[report.key] # Absent
        /\ report.reset <= Len(flushed[report.key])

StatsInv == /\ TypeOK /\ FlushInv /\ CountInv /\ WindowInv /\ ReportInv
            /\ ResetsAreShown /\ PatternKeys

-----------------------------------------------------------------------------
(* Arithmetic of a fixed width                                             *)

\* Division with remainder.
LEMMA DivMod ==
    ASSUME NEW x \in Int, NEW M \in Nat \ {0}
    PROVE  /\ x % M \in 0..M-1 /\ x \div M \in Int
           /\ x = M * (x \div M) + (x % M)
  OBVIOUS

\* A multiple of M between -M and M is 0.
LEMMA SmallMultiple ==
    ASSUME NEW M \in Nat \ {0}, NEW k \in Int, - M < M * k, M * k < M
    PROVE  k = 0
  <1>1. CASE k >= 1
    <2>1. M * k >= M
      BY <1>1
    <2> QED
      BY <2>1
  <1>2. CASE k <= -1
    <2>1. M * k <= - M
      BY <1>2
    <2> QED
      BY <2>1
  <1> QED
    BY <1>1, <1>2

\* The multiples of M.
MultipleOf(p, M) == \E q \in Int : p = q * M

\* Sums and differences of multiples are multiples, and so is 0.
LEMMA MultiplesAdd ==
    ASSUME NEW M \in Nat, NEW p \in Int, NEW r \in Int,
           MultipleOf(p, M), MultipleOf(r, M)
    PROVE  /\ MultipleOf(p + r, M) /\ MultipleOf(p - r, M)
           /\ MultipleOf(0, M)
  <1>1. PICK i \in Int : p = i * M
    BY DEF MultipleOf
  <1>2. PICK j \in Int : r = j * M
    BY DEF MultipleOf
  <1>3. p + r = (i + j) * M /\ i + j \in Int
    <2>1. (i + j) * M = i * M + j * M
      OBVIOUS
    <2> QED
      BY <1>1, <1>2, <2>1
  <1>4. p - r = (i - j) * M /\ i - j \in Int
    <2>1. (i - j) * M = i * M - j * M
      OBVIOUS
    <2> QED
      BY <1>1, <1>2, <2>1
  <1>5. MultipleOf(p + r, M)
    BY <1>3 DEF MultipleOf
  <1>6. MultipleOf(p - r, M)
    BY <1>4 DEF MultipleOf
  <1>7. MultipleOf(0, M)
    <2>1. 0 = 0 * M
      OBVIOUS
    <2>2. \E q \in Int : 0 = q * M
      <3> WITNESS 0 \in Int
      <3> QED
        BY <2>1
    <2> QED
      BY <2>2 DEF MultipleOf
  <1> QED
    BY <1>5, <1>6, <1>7

\* Numbers that differ by a multiple of M have the same remainder.
LEMMA SameRemainder ==
    ASSUME NEW x \in Int, NEW y \in Int, NEW M \in Nat \ {0},
           MultipleOf(x - y, M)
    PROVE  x % M = y % M
  <1> DEFINE d == x \div M
             e == y \div M
             r == x % M
             s == y % M
  <1>1. /\ r \in 0..M-1 /\ d \in Int /\ x = M * d + r
        /\ s \in 0..M-1 /\ e \in Int /\ y = M * e + s
    BY DivMod
  <1> HIDE DEF d, e, r, s
  <1>2. PICK q \in Int : x - y = q * M
    BY DEF MultipleOf
  <1> DEFINE k == d - e - q
  <1>3. k \in Int /\ M * k = s - r
    <2>1. M * k = M * d - M * e - q * M
      BY <1>1
    <2>2. M * d \in Int /\ M * e \in Int /\ q * M \in Int /\ k \in Int
      BY <1>1
    <2> HIDE DEF k
    <2>3. q * M = (M * d + r) - (M * e + s)
      BY <1>1, <1>2
    <2> QED
      BY <1>1, <2>1, <2>2, <2>3
  <1> HIDE DEF k
  <1>4. - M < M * k /\ M * k < M
    BY <1>1, <1>3
  <1>5. k = 0
    BY <1>3, <1>4, SmallMultiple
  <1>6. M * k = 0
    BY <1>5
  <1>7. r = s
    BY <1>1, <1>3, <1>6
  <1> QED
    BY <1>7 DEF r, s

\* The number of integers of the width, and half of it.
LEMMA WidthIs == /\ 2^Bits \in Nat \ {0} /\ 2^(Bits-1) \in Nat \ {0}
                 /\ 2^Bits = 2^(Bits-1) + 2^(Bits-1)
  BY WidthAssumption

\* Multiple, of the model, is MultipleOf for that number.
LEMMA MultipleIs == \A p : Multiple(p) <=> MultipleOf(p, 2^Bits)
  BY DEF Multiple, MultipleOf

\* Wrap yields an integer of the width, and changes a number by a multiple of
\* 2^Bits.
LEMMA WrapIs ==
    ASSUME NEW n \in Int
    PROVE  Wrap(n) \in Int64 /\ Wrap(n) \in Int /\ Multiple(n - Wrap(n))
  <1>1. PICK M \in Nat \ {0}, H \in Nat \ {0} :
          M = 2^Bits /\ H = 2^(Bits-1) /\ M = H + H
    BY WidthIs
  <1> DEFINE r == (n + H) % M
             d == (n + H) \div M
  <1>2. r \in 0..M-1 /\ d \in Int /\ n + H = M * d + r
    <2>1. n + H \in Int
      OBVIOUS
    <2> QED
      BY <2>1, DivMod
  <1>3. Wrap(n) = r - H
    BY <1>1 DEF Wrap
  <1> HIDE DEF r, d
  <1>4. Wrap(n) \in -H .. H - 1
    BY <1>1, <1>2, <1>3
  <1>5. n - Wrap(n) = d * M
    <2>1. d * M = M * d /\ M * d \in Int
      BY <1>2
    <2> QED
      BY <1>2, <1>3, <2>1
  <1>6. MultipleOf(n - Wrap(n), M)
    BY <1>2, <1>5 DEF MultipleOf
  <1> QED
    BY <1>1, <1>4, <1>6, MultipleIs DEF Int64

\* Numbers that differ by such a multiple are the same in this arithmetic.
LEMMA WrapSame ==
    ASSUME NEW a \in Int, NEW b \in Int, Multiple(a - b)
    PROVE  Wrap(a) = Wrap(b)
  <1>1. PICK M \in Nat \ {0}, H \in Nat \ {0} : M = 2^Bits /\ H = 2^(Bits-1)
    BY WidthIs
  <1>2. PICK x \in Int, y \in Int : x = a + H /\ y = b + H
    OBVIOUS
  <1>3. x - y = a - b
    BY <1>2
  <1>4. MultipleOf(x - y, M)
    BY <1>1, <1>3, MultipleIs
  <1>5. x % M = y % M
    BY <1>4, SameRemainder
  <1> QED
    BY <1>1, <1>2, <1>5 DEF Wrap

-----------------------------------------------------------------------------
(* KEYS                                                                    *)

\* A set of natural numbers that is not empty has a least element.
LEMMA LeastOf ==
    ASSUME NEW T, T \subseteq Nat, T # {}
    PROVE  \E x \in T : \A y \in T : x <= y
  <1>1. \A x, y \in Nat : y < x => <<y, x>> \in OpToRel(<, Nat)
    BY DEF OpToRel
  <1>2. PICK R : /\ IsWellFoundedOn(R, Nat)
                 /\ \A x, y \in Nat : y < x => <<y, x>> \in R
    BY <1>1, NatLessThanWellFounded, Zenon
  <1>3. PICK x \in T : \A y \in T : ~(<<y, x>> \in R)
    BY <1>2, WFMin
  <1>4. ASSUME NEW y \in T PROVE x <= y
    <2>1. x \in Nat /\ y \in Nat
      OBVIOUS
    <2>2. ~(y < x)
      BY <1>2, <1>3, <2>1
    <2> QED
      BY <2>1, <2>2
  <1> QED
    BY <1>4

\* Keys are sequences.
LEMMA KeyIs ==
    ASSUME NEW k \in Key
    PROVE  k \in Seq(ToSet(k)) /\ Len(k) \in Nat /\ k # Absent
  BY StatsAssumption

\* A pattern is a sequence of such texts.
LEMMA PatternIs ==
    ASSUME NEW p \in Pattern
    PROVE  /\ Len(p) \in Nat /\ DOMAIN p = 1..Len(p)
           /\ \A i \in 1..Len(p) : p[i] \in Seq(ToSet(p[i])) /\ Len(p[i]) \in Nat
  <1>1. p \in Seq(ToSet(p)) /\ \A i \in DOMAIN p : p[i] \in Seq(ToSet(p[i]))
    BY StatsAssumption
  <1> QED
    BY <1>1

\* A text occurs at the start of a key if and only if it is a prefix of it.
LEMMA AtStart ==
    ASSUME NEW k, NEW t, k \in Seq(ToSet(k)), t \in Seq(ToSet(t))
    PROVE  0 \in Occurrences(t, k) <=> IsPrefix(t, k)
  <1>1. Len(k) \in Nat /\ Len(t) \in Nat
    OBVIOUS
  <1>2. SubSeq(t, 1, Len(t)) = t
    <2> DEFINE T == ToSet(t)
    <2>1. t \in Seq(T)
      OBVIOUS
    <2> HIDE DEF T
    <2> QED
      BY <2>1, SubSeqFull
  <1>3. 0 \in 0..Len(k) - Len(t) <=> Len(t) <= Len(k)
    BY <1>1
  <1>4. 0 + 1 = 1 /\ 0 + Len(t) = Len(t)
    BY <1>1
  <1> QED
    BY <1>2, <1>3, <1>4 DEF Occurrences, IsPrefix

\* The empty text occurs everywhere.
LEMMA EmptyOccurs ==
    ASSUME NEW k, k \in Seq(ToSet(k)), NEW i \in 0..Len(k)
    PROVE  i \in Occurrences(<<>>, k)
  <1>1. Len(k) \in Nat /\ Len(<<>>) = 0
    OBVIOUS
  <1>2. SubSeq(k, i + 1, i + Len(<<>>)) = <<>>
    <2>1. i + 1 \in Int /\ i + Len(<<>>) \in Int /\ i + Len(<<>>) < i + 1
      BY <1>1
    <2> QED
      BY <2>1, SubSeqEmpty
  <1>3. i \in 0..Len(k) - Len(<<>>)
    BY <1>1
  <1> QED
    BY <1>2, <1>3 DEF Occurrences

\* With one star the loop finds every match, and no more with the star last.
LEMMA OneStar ==
    ASSUME NEW p \in Pattern, NEW k \in Key, Len(p) = 2
    PROVE  /\ Matches(p, k) => Found(p, k)
           /\ p[2] = <<>> /\ Found(p, k) => Matches(p, k)
  <1>1. /\ k \in Seq(ToSet(k)) /\ Len(k) \in Nat /\ DOMAIN p = 1..2
        /\ p[1] \in Seq(ToSet(p[1])) /\ p[2] \in Seq(ToSet(p[2]))
        /\ Len(p[1]) \in Nat /\ Len(p[2]) \in Nat
    <2>1. /\ DOMAIN p = 1..2
          /\ \A i \in 1..2 : p[i] \in Seq(ToSet(p[i])) /\ Len(p[i]) \in Nat
      BY PatternIs
    <2>2. 1 \in 1..2 /\ 2 \in 1..2
      OBVIOUS
    <2>3. k \in Seq(ToSet(k)) /\ Len(k) \in Nat
      BY KeyIs
    <2> QED
      BY <2>1, <2>2, <2>3
  <1>2. Found(p, k) <=> IsPrefix(p[1], k) /\ Occurrences(p[2], k) # {}
    <2>1. Found(p, k) <=> \A i \in 1..2 :
            IF i % 2 = 0 THEN Occurrences(p[i], k) # {}
            ELSE IsPrefix(p[i], IF i = 1 THEN k ELSE From(p[i - 1], k))
      BY <1>1 DEF Found
    <2>2. 1..2 = {1, 2} /\ 1 % 2 = 1 /\ 2 % 2 = 0
      OBVIOUS
    <2> QED
      BY <2>1, <2>2
  <1>3. 0 \in Occurrences(p[1], k) <=> IsPrefix(p[1], k)
    BY <1>1, AtStart
  <1>4. ASSUME Matches(p, k) PROVE Found(p, k)
    <2>1. PICK at \in [1..2 -> 0..Len(k)] :
            /\ \A i \in 1..2 : at[i] \in Occurrences(p[i], k)
            /\ at[1] = 0
      BY <1>1, <1>4 DEF Matches
    <2>2. 0 \in Occurrences(p[1], k) /\ at[2] \in Occurrences(p[2], k)
      BY <2>1
    <2> QED
      BY <1>2, <1>3, <2>2
  <1>5. ASSUME p[2] = <<>>, Found(p, k) PROVE Matches(p, k)
    <2> DEFINE at == [i \in 1..2 |-> IF i = 1 THEN 0 ELSE Len(k)]
    <2>1. at \in [DOMAIN p -> 0..Len(k)] /\ at[1] = 0 /\ at[2] = Len(k)
      BY <1>1
    <2> HIDE DEF at
    <2>2. 0 \in Occurrences(p[1], k)
      BY <1>2, <1>3, <1>5
    <2>3. Len(k) \in Occurrences(p[2], k)
      BY <1>1, <1>5, EmptyOccurs
    <2>4. 0 + Len(p[1]) <= Len(k) /\ Len(k) + Len(p[2]) = Len(k)
      BY <1>1, <1>5, <2>2 DEF Occurrences
    <2>5. /\ \A i \in DOMAIN p : at[i] \in Occurrences(p[i], k)
          /\ \A i \in 2..Len(p) : at[i - 1] + Len(p[i - 1]) <= at[i]
          /\ at[1] = 0 /\ at[Len(p)] + Len(p[Len(p)]) = Len(k)
      BY <1>1, <2>1, <2>2, <2>3, <2>4
    <2> QED
      BY <2>1, <2>5 DEF Matches
  <1> QED
    BY <1>4, <1>5

\* With a star at either end it finds the keys that match and no other.
LEMMA TwoStars ==
    ASSUME NEW p \in Pattern, NEW k \in Key, Len(p) = 3, p[1] = <<>>, p[3] = <<>>
    PROVE  Matches(p, k) <=> Found(p, k)
  <1>1. /\ k \in Seq(ToSet(k)) /\ Len(k) \in Nat /\ DOMAIN p = 1..3
        /\ p[2] \in Seq(ToSet(p[2])) /\ Len(p[2]) \in Nat
    <2>1. /\ DOMAIN p = 1..3
          /\ \A i \in 1..3 : p[i] \in Seq(ToSet(p[i])) /\ Len(p[i]) \in Nat
      BY PatternIs
    <2>2. 2 \in 1..3
      OBVIOUS
    <2>3. k \in Seq(ToSet(k)) /\ Len(k) \in Nat
      BY KeyIs
    <2> QED
      BY <2>1, <2>2, <2>3
  <1>2. Found(p, k) <=> /\ IsPrefix(<<>>, k) /\ Occurrences(p[2], k) # {}
                        /\ IsPrefix(<<>>, From(p[2], k))
    <2>1. Found(p, k) <=> \A i \in 1..3 :
            IF i % 2 = 0 THEN Occurrences(p[i], k) # {}
            ELSE IsPrefix(p[i], IF i = 1 THEN k ELSE From(p[i - 1], k))
      BY <1>1 DEF Found
    <2>2. 1..3 = {1, 2, 3} /\ 1 % 2 = 1 /\ 2 % 2 = 0 /\ 3 % 2 = 1 /\ 3 - 1 = 2
      OBVIOUS
    <2> QED
      BY <2>1, <2>2
  <1>3. ASSUME NEW s, Len(s) \in Nat PROVE IsPrefix(<<>>, s)
    <2>1. SubSeq(<<>>, 1, 0) = <<>> /\ SubSeq(s, 1, 0) = <<>>
      BY SubSeqEmpty
    <2>2. Len(<<>>) = 0
      OBVIOUS
    <2> QED
      BY <1>3, <2>1, <2>2 DEF IsPrefix
  <1>4. ASSUME NEW j \in Occurrences(p[2], k) PROVE Len(From(p[2], k)) \in Nat
    <2> DEFINE O == Occurrences(p[2], k)
               i == Min(O)
    <2>1. O \subseteq Nat /\ O # {}
      <3>1. O \subseteq 0..Len(k) - Len(p[2])
        BY DEF Occurrences
      <3>2. Len(k) - Len(p[2]) \in Int
        BY <1>1
      <3>3. 0..Len(k) - Len(p[2]) \subseteq Nat
        BY <3>2
      <3> QED
        BY <1>4, <3>1, <3>3
    <2>2. \E x \in O : \A y \in O : x <= y
      <3> HIDE DEF O
      <3> QED
        BY <2>1, LeastOf
    <2>3. i \in O
      BY <2>2 DEF Min
    <2>4. i \in Nat
      BY <2>1, <2>3
    <2>5. From(p[2], k) = SubSeq(k, i + 1, Len(k))
      BY <2>1 DEF From
    <2> HIDE DEF i
    <2>6. Len(SubSeq(k, i + 1, Len(k))) \in Nat
      <3>1. \A x \in i + 1 .. Len(k) : k[x] \in ToSet(k)
        BY <1>1, <2>4
      <3>2. i + 1 \in Int /\ Len(k) \in Int
        BY <1>1, <2>4
      <3>3. Len(SubSeq(k, i + 1, Len(k))) =
              IF i + 1 <= Len(k) THEN Len(k) - (i + 1) + 1 ELSE 0
        BY <3>1, <3>2, SubSeqProperties
      <3> QED
        BY <1>1, <2>4, <3>3
    <2> QED
      BY <2>5, <2>6
  <1>5. Found(p, k) <=> Occurrences(p[2], k) # {}
    BY <1>1, <1>2, <1>3, <1>4
  <1>6. ASSUME Matches(p, k) PROVE Occurrences(p[2], k) # {}
    BY <1>1, <1>6 DEF Matches
  <1>7. ASSUME NEW j \in Occurrences(p[2], k) PROVE Matches(p, k)
    <2> DEFINE at == [i \in 1..3 |-> IF i = 1 THEN 0 ELSE IF i = 2 THEN j ELSE Len(k)]
    <2>1. j \in 0..Len(k) /\ j + Len(p[2]) <= Len(k)
      BY <1>1, <1>7 DEF Occurrences
    <2>2. /\ at \in [DOMAIN p -> 0..Len(k)]
          /\ at[1] = 0 /\ at[2] = j /\ at[3] = Len(k)
      BY <1>1, <2>1
    <2> HIDE DEF at
    <2>3. 0 \in Occurrences(p[1], k) /\ Len(k) \in Occurrences(p[3], k)
      BY <1>1, EmptyOccurs
    <2>4. /\ 0 + Len(p[1]) <= j /\ Len(k) + Len(p[3]) = Len(k)
      BY <1>1, <2>1
    <2>5. \A i \in DOMAIN p : at[i] \in Occurrences(p[i], k)
      BY <1>1, <1>7, <2>2, <2>3
    <2>6. \A i \in 2..Len(p) : at[i - 1] + Len(p[i - 1]) <= at[i]
      <3>1. at[1] + Len(p[1]) <= at[2] /\ at[2] + Len(p[2]) <= at[3]
        BY <2>1, <2>2, <2>4
      <3>2. \A i \in 2..3 : i = 2 \/ i = 3
        OBVIOUS
      <3> QED
        BY <3>1, <3>2
    <2> QED
      BY <2>2, <2>4, <2>5, <2>6 DEF Matches
  <1> QED
    BY <1>5, <1>6, <1>7

-----------------------------------------------------------------------------
(* The history of a counter                                                *)

\* A sequence read backwards.
LEMMA ReverseIs ==
    ASSUME NEW S, NEW u \in Seq(S)
    PROVE  /\ Reverse(u) \in Seq(S) /\ Len(Reverse(u)) = Len(u)
           /\ \A i \in 1..Len(u) : Reverse(u)[i] = u[Len(u) - i + 1]
  <1>1. Len(u) \in Nat /\ \A i \in 1..Len(u) : u[i] \in S
    OBVIOUS
  <1>2. ASSUME NEW i \in 1..Len(u) PROVE u[Len(u) - i + 1] \in S
    <2>1. Len(u) - i + 1 \in 1..Len(u)
      BY <1>1
    <2> QED
      BY <1>1, <2>1
  <1>3. Reverse(u) \in [1..Len(u) -> S]
    BY <1>2 DEF Reverse
  <1>4. Reverse(u) \in Seq(S)
    BY <1>1, <1>3
  <1>5. Len(Reverse(u)) = Len(u)
    <2>1. DOMAIN Reverse(u) = 1..Len(u)
      BY <1>3
    <2> QED
      BY <1>1, <1>4, <2>1
  <1> QED
    BY <1>4, <1>5 DEF Reverse

\* A sequence is a suffix of another if it agrees with it entry by entry, both
\* counted from the end.
LEMMA SuffixIs ==
    ASSUME NEW S, NEW u \in Seq(S), NEW v \in Seq(S), Len(u) <= Len(v),
           \A i \in 1..Len(u) : u[i] = v[Len(v) - Len(u) + i]
    PROVE  IsSuffix(u, v)
  <1> DEFINE U == Reverse(u)
             V == Reverse(v)
  <1>1. /\ U \in Seq(S) /\ Len(U) = Len(u)
        /\ \A i \in 1..Len(u) : U[i] = u[Len(u) - i + 1]
    BY ReverseIs
  <1>2. /\ V \in Seq(S) /\ Len(V) = Len(v)
        /\ \A i \in 1..Len(v) : V[i] = v[Len(v) - i + 1]
    BY ReverseIs
  <1> HIDE DEF U, V
  <1>3. PICK m \in Nat, n \in Nat : m = Len(u) /\ n = Len(v) /\ m <= n
    OBVIOUS
  <1>4. ASSUME NEW i \in 1..m PROVE U[i] = V[i]
    <2>1. m - i + 1 \in 1..m /\ n - m + (m - i + 1) = n - i + 1 /\ i \in 1..n
      BY <1>3
    <2>2. u[m - i + 1] = v[n - i + 1]
      BY <1>3, <2>1
    <2> QED
      BY <1>1, <1>2, <1>3, <2>1, <2>2
  <1>5. ASSUME NEW i \in 1..m PROVE U[i] \in S
    BY <1>1, <1>3
  <1>6. /\ SubSeq(U, 1, m) \in Seq(S) /\ Len(SubSeq(U, 1, m)) = m
        /\ \A i \in 1..m : SubSeq(U, 1, m)[i] = U[i]
    <2>1. /\ SubSeq(U, 1, m) \in Seq(S)
          /\ Len(SubSeq(U, 1, m)) = IF 1 <= m THEN m - 1 + 1 ELSE 0
          /\ \A i \in 1..m - 1 + 1 : SubSeq(U, 1, m)[i] = U[1 + i - 1]
      BY <1>5, SubSeqProperties
    <2>2. m - 1 + 1 = m /\ (~(1 <= m) => m = 0) /\ \A i \in 1..m : 1 + i - 1 = i
      BY <1>3
    <2> QED
      BY <2>1, <2>2
  <1>7. /\ SubSeq(V, 1, m) \in Seq(S) /\ Len(SubSeq(V, 1, m)) = m
        /\ \A i \in 1..m : SubSeq(V, 1, m)[i] = V[i]
    <2>1. /\ SubSeq(V, 1, m) \in Seq(S)
          /\ Len(SubSeq(V, 1, m)) = IF 1 <= m THEN m - 1 + 1 ELSE 0
          /\ \A i \in 1..m - 1 + 1 : SubSeq(V, 1, m)[i] = V[1 + i - 1]
      <3>1. \A i \in 1..m : V[i] \in S
        BY <1>4, <1>5
      <3> QED
        BY <3>1, SubSeqProperties
    <2>2. m - 1 + 1 = m /\ (~(1 <= m) => m = 0) /\ \A i \in 1..m : 1 + i - 1 = i
      BY <1>3
    <2> QED
      BY <2>1, <2>2
  <1>8. SubSeq(U, 1, m) = SubSeq(V, 1, m)
    <2> DEFINE P == SubSeq(U, 1, m)
               Q == SubSeq(V, 1, m)
    <2>1. P \in Seq(S) /\ Q \in Seq(S) /\ Len(P) = Len(Q)
      BY <1>6, <1>7
    <2>2. \A i \in 1..Len(P) : P[i] = Q[i]
      BY <1>4, <1>6, <1>7
    <2> HIDE DEF P, Q
    <2>3. P = Q
      BY <2>1, <2>2, SeqEqual
    <2> QED
      BY <2>3 DEF P, Q
  <1> QED
    BY <1>1, <1>2, <1>3, <1>8 DEF IsSuffix, IsPrefix, U, V

\* A new count leaves the earlier entries as they are, and is the last.
LEMMA EntryAppend ==
    ASSUME NEW s \in Seq(Int64), NEW v \in Int64
    PROVE  /\ \A i \in 1..Len(s) + 1 : Entry(Append(s, v), i) = Entry(s, i)
           /\ Entry(Append(s, v), Len(s) + 2) = v
  <1> DEFINE t == Append(s, v)
  <1>1. /\ Len(s) \in Nat
        /\ \A i \in 1..Len(s) : t[i] = s[i]
        /\ t[Len(s) + 1] = v
    BY AppendProperties
  <1> HIDE DEF t
  <1>2. ASSUME NEW i \in 1..Len(s) + 1, i # 1 PROVE t[i - 1] = s[i - 1]
    <2>1. i - 1 \in 1..Len(s)
      BY <1>1, <1>2
    <2> QED
      BY <1>1, <2>1
  <1>3. Len(s) + 2 # 1 /\ Len(s) + 2 - 1 = Len(s) + 1
    BY <1>1
  <1> QED
    BY <1>1, <1>2, <1>3 DEF Entry, t

\* Int64 holds 0 and is made of integers.
LEMMA Int64Is == 0 \in Int64 /\ Int64 \subseteq Int /\ Absent \notin Int64
  <1>1. 0 \in Int64 /\ Int64 \subseteq Int
    BY WidthIs DEF Int64
  <1> QED
    BY <1>1, StatsAssumption

\* A flush appends to the counts of a counter and keeps their window.
LEMMA RecordIs ==
    ASSUME NEW c \in Counter, NEW s \in Seq(Int64), WindowOK(c, s)
    PROVE  /\ Record(c) \in Counter /\ Record(c).value = c.value
           /\ Len(Record(c).history) <= MaxHistory
           /\ WindowOK(Record(c), Append(s, c.value))
  <1> DEFINE h == Append(c.history, c.rate)
             t == Append(s, c.value)
             H == Record(c).history
  <1>1. /\ c.value \in Int64 /\ c.rate \in Int64 /\ c.history \in Seq(Int64)
        /\ Len(s) \in Nat /\ MaxHistory \in Nat \ {0}
    BY StatsAssumption DEF Counter
  <1>2. /\ h \in Seq(Int64) /\ Len(h) = Len(c.history) + 1
        /\ \A i \in 1..Len(c.history) : h[i] = c.history[i]
        /\ h[Len(c.history) + 1] = c.rate
        /\ Len(c.history) \in Nat /\ DOMAIN c.history = 1..Len(c.history)
    BY <1>1, AppendProperties, LenProperties
  <1>3. t \in Seq(Int64) /\ Len(t) = Len(s) + 1
    BY <1>1, AppendProperties
  <1>4. /\ \A i \in 1..Len(s) + 1 : Entry(t, i) = Entry(s, i)
        /\ Entry(t, Len(s) + 2) = c.value
    BY <1>1, EntryAppend
  <1>5. /\ Record(c) = [c EXCEPT !.rate = c.value, !.history = H]
        /\ Record(c).value = c.value /\ Record(c).rate = c.value
        /\ H = IF Len(h) > MaxHistory
                 THEN SubSeq(h, Len(h) - MaxHistory + 1, Len(h)) ELSE h
    <2>1. PICK g : g = IF Len(h) > MaxHistory
                         THEN SubSeq(h, Len(h) - MaxHistory + 1, Len(h)) ELSE h
      OBVIOUS
    <2>2. Record(c) = [c EXCEPT !.rate = c.value, !.history = g]
      BY <2>1 DEF Record
    <2>3. DOMAIN c = {"value", "rate", "history"}
      BY DEF Counter
    <2>4. Record(c).value = c.value /\ Record(c).rate = c.value /\ H = g
      BY <2>2, <2>3
    <2> QED
      BY <2>1, <2>2, <2>4
  <1>6. /\ Len(c.history) = IF Len(s) <= MaxHistory THEN Len(s) ELSE MaxHistory
        /\ c.rate = Entry(s, Len(s) + 1)
        /\ \A i \in 1..Len(c.history) :
              c.history[i] = Entry(s, Len(s) - Len(c.history) + i)
    BY <1>2 DEF WindowOK
  <1> HIDE DEF h, t, H
  <1>7. \A i \in 1..Len(h) : h[i] = Entry(t, Len(t) - Len(h) + i)
    <2> TAKE i \in 1..Len(h)
    <2>1. PICK n \in Nat, m \in Nat : n = Len(c.history) /\ m = Len(s) /\ n <= m
      BY <1>1, <1>2, <1>6
    <2>4. n \in Nat /\ m \in Nat /\ n <= m /\ Len(h) = n + 1 /\ Len(t) = m + 1
      BY <1>2, <1>3, <2>1
    <2>2. CASE i = n + 1
      <3>1. Len(t) - Len(h) + i = m + 1 /\ m + 1 \in 1..m + 1
        BY <2>4, <2>2
      <3>2. h[i] = c.rate /\ c.rate = Entry(s, m + 1)
        BY <1>2, <1>6, <2>1, <2>2
      <3>3. Entry(t, m + 1) = Entry(s, m + 1)
        BY <1>4, <2>1, <3>1
      <3> QED
        BY <3>1, <3>2, <3>3
    <2>3. CASE i # n + 1
      <3>1. i \in 1..n /\ Len(t) - Len(h) + i = m - n + i /\ m - n + i \in 1..m + 1
        BY <2>4, <2>3
      <3>2. h[i] = c.history[i] /\ c.history[i] = Entry(s, m - n + i)
        BY <1>2, <1>6, <2>1, <3>1
      <3>3. Entry(t, m - n + i) = Entry(s, m - n + i)
        BY <1>4, <2>1, <3>1
      <3> QED
        BY <3>1, <3>2, <3>3
    <2> QED
      BY <2>2, <2>3
  <1>8. /\ H \in Seq(Int64)
        /\ Len(H) = IF Len(t) <= MaxHistory THEN Len(t) ELSE MaxHistory
        /\ \A i \in 1..Len(H) : H[i] = Entry(t, Len(t) - Len(H) + i)
    <2>1. CASE Len(s) < MaxHistory
      <3>1. Len(h) = Len(t) /\ ~(Len(h) > MaxHistory) /\ Len(t) <= MaxHistory
        BY <1>1, <1>2, <1>3, <1>6, <2>1
      <3> QED
        BY <1>2, <1>5, <1>7, <3>1
    <2>2. CASE ~(Len(s) < MaxHistory)
      <3>1. /\ Len(h) = MaxHistory + 1 /\ Len(h) > MaxHistory
            /\ Len(h) - MaxHistory + 1 = 2 /\ ~(Len(t) <= MaxHistory)
        BY <1>1, <1>2, <1>3, <1>6, <2>2
      <3>2. H = SubSeq(h, 2, MaxHistory + 1)
        BY <1>5, <3>1
      <3>3. \A i \in 2..MaxHistory + 1 : h[i] \in Int64
        BY <1>1, <1>2, <3>1
      <3>4. PICK N \in Int : N = MaxHistory + 1
        BY <1>1
      <3>5. /\ H \in Seq(Int64) /\ Len(H) = MaxHistory
            /\ \A i \in 1..MaxHistory : H[i] = h[i + 1]
        <4>1. /\ SubSeq(h, 2, N) \in Seq(Int64)
              /\ Len(SubSeq(h, 2, N)) = IF 2 <= N THEN N - 2 + 1 ELSE 0
              /\ \A i \in 1..N - 2 + 1 : SubSeq(h, 2, N)[i] = h[2 + i - 1]
          BY <3>3, <3>4, SubSeqProperties
        <4>2. H = SubSeq(h, 2, N)
          BY <3>2, <3>4
        <4>3. /\ 2 <= N /\ N - 2 + 1 = MaxHistory
              /\ \A i \in 1..MaxHistory : 2 + i - 1 = i + 1
          BY <1>1, <3>4
        <4> QED
          BY <4>1, <4>2, <4>3
      <3>6. ASSUME NEW i \in 1..MaxHistory
            PROVE  H[i] = Entry(t, Len(t) - MaxHistory + i)
        <4>1. i + 1 \in 1..Len(h) /\ Len(t) - Len(h) + (i + 1) = Len(t) - MaxHistory + i
          BY <1>1, <1>3, <3>1
        <4>2. h[i + 1] = Entry(t, Len(t) - Len(h) + (i + 1))
          BY <1>7, <4>1
        <4> QED
          BY <3>5, <4>1, <4>2
      <3> QED
        BY <3>1, <3>5, <3>6
    <2> QED
      BY <2>1, <2>2
  <1>9. Record(c) \in Counter
    <2>1. PICK v \in Int64, g \in Seq(Int64) : v = c.value /\ g = H
      BY <1>1, <1>8
    <2>2. [c EXCEPT !.rate = v, !.history = g] \in Counter
      BY DEF Counter
    <2> QED
      BY <1>5, <2>1, <2>2
  <1>10. /\ Record(c).value = c.value /\ Record(c).rate = c.value
         /\ Record(c).history = H
    BY <1>5 DEF H
  <1>11. Len(H) <= MaxHistory
    BY <1>1, <1>3, <1>8
  <1>12. Entry(t, Len(t) + 1) = c.value
    <2>1. Len(t) + 1 = Len(s) + 2
      BY <1>1, <1>3
    <2> QED
      BY <1>4, <2>1
  <1>13. DOMAIN H = 1..Len(H)
    BY <1>8, LenProperties
  <1>14. WindowOK(Record(c), t)
    BY <1>8, <1>10, <1>12, <1>13 DEF WindowOK
  <1> QED
    BY <1>9, <1>10, <1>11, <1>14 DEF t

\* Agreement entry by entry makes history and rate the last of the counts.
LEMMA WindowIs ==
    ASSUME NEW c \in Counter, NEW s \in Seq(Int64), WindowOK(c, s)
    PROVE  LET all    == <<0>> \o s
               window == Append(c.history, c.rate)
           IN  /\ IsSuffix(window, all)
               /\ \/ Len(window) = Len(all)
                  \/ Len(window) = MaxHistory + 1
  <1> DEFINE h == Append(c.history, c.rate)
             a == <<0>> \o s
  <1>1. /\ c.rate \in Int64 /\ c.history \in Seq(Int64)
        /\ Len(s) \in Nat /\ MaxHistory \in Nat \ {0}
    BY StatsAssumption DEF Counter
  <1>2. /\ h \in Seq(Int64) /\ Len(h) = Len(c.history) + 1
        /\ \A i \in 1..Len(c.history) : h[i] = c.history[i]
        /\ h[Len(c.history) + 1] = c.rate
        /\ Len(c.history) \in Nat /\ DOMAIN c.history = 1..Len(c.history)
    BY <1>1, AppendProperties, LenProperties
  <1>3. /\ a \in Seq(Int64) /\ Len(a) = Len(s) + 1
        /\ \A i \in 1..Len(s) + 1 : a[i] = Entry(s, i)
    <2>1. <<0>> \in Seq(Int64) /\ Len(<<0>>) = 1 /\ <<0>>[1] = 0
      BY Int64Is
    <2>2. /\ a \in Seq(Int64) /\ Len(a) = Len(<<0>>) + Len(s)
          /\ \A i \in 1..Len(<<0>>) + Len(s) :
                a[i] = IF i <= Len(<<0>>) THEN <<0>>[i] ELSE s[i - Len(<<0>>)]
      BY <2>1, ConcatProperties
    <2>3. 1 + Len(s) = Len(s) + 1 /\ \A i \in 1..Len(s) + 1 : i <= 1 <=> i = 1
      BY <1>1
    <2> HIDE DEF a
    <2> QED
      BY <2>1, <2>2, <2>3 DEF Entry
  <1>4. /\ Len(c.history) = IF Len(s) <= MaxHistory THEN Len(s) ELSE MaxHistory
        /\ c.rate = Entry(s, Len(s) + 1)
        /\ \A i \in 1..Len(c.history) :
              c.history[i] = Entry(s, Len(s) - Len(c.history) + i)
    BY <1>2 DEF WindowOK
  <1> HIDE DEF h, a
  <1>5. PICK n \in Nat, m \in Nat : n = Len(c.history) /\ m = Len(s) /\ n <= m
    BY <1>1, <1>2, <1>4
  <1>6. \A i \in 1..Len(h) : h[i] = a[Len(a) - Len(h) + i]
    <2> TAKE i \in 1..Len(h)
    <2>3. n \in Nat /\ m \in Nat /\ n <= m /\ Len(h) = n + 1 /\ Len(a) = m + 1
      BY <1>2, <1>3, <1>5
    <2>1. CASE i = n + 1
      <3>1. Len(a) - Len(h) + i = m + 1 /\ m + 1 \in 1..m + 1
        BY <2>3, <2>1
      <3>2. h[i] = c.rate /\ c.rate = Entry(s, m + 1)
        BY <1>2, <1>4, <1>5, <2>1
      <3>3. a[m + 1] = Entry(s, m + 1)
        BY <1>3, <1>5, <3>1
      <3> QED
        BY <3>1, <3>2, <3>3
    <2>2. CASE i # n + 1
      <3>1. i \in 1..n /\ Len(a) - Len(h) + i = m - n + i /\ m - n + i \in 1..m + 1
        BY <2>3, <2>2
      <3>2. h[i] = c.history[i] /\ c.history[i] = Entry(s, m - n + i)
        BY <1>2, <1>4, <1>5, <3>1
      <3>3. a[m - n + i] = Entry(s, m - n + i)
        BY <1>3, <1>5, <3>1
      <3> QED
        BY <3>1, <3>2, <3>3
    <2> QED
      BY <2>1, <2>2
  <1>7. Len(h) <= Len(a) /\ (Len(h) = Len(a) \/ Len(h) = MaxHistory + 1)
    BY <1>1, <1>2, <1>3, <1>4
  <1>8. IsSuffix(h, a)
    BY <1>2, <1>3, <1>6, <1>7, SuffixIs
  <1> QED
    BY <1>7, <1>8 DEF h, a

-----------------------------------------------------------------------------
(* What a step leaves alone                                                *)

\* A step that touches neither the counters nor the flush keeps what is said
\* about them.
LEMMA KeepCounters ==
    ASSUME FlushInv, CountInv, WindowInv,
           UNCHANGED <<counters, flushVars, histVars>>
    PROVE  FlushInv' /\ CountInv' /\ WindowInv'
  <1>1. /\ counters' = counters /\ flushing' = flushing /\ half' = half
        /\ issued' = issued /\ flushed' = flushed /\ taken' = taken
    BY DEF flushVars, histVars
  <1>2. FlushInv'
    BY <1>1 DEF FlushInv
  <1>3. CountInv'
    BY <1>1 DEF CountInv, Holding, Multiple
  <1>4. WindowInv'
    BY <1>1 DEF WindowInv, WindowOK, Entry
  <1> QED
    BY <1>2, <1>3, <1>4

\* The same of COUNTERS.
LEMMA KeepReport ==
    ASSUME ReportInv, ResetsAreShown,
           UNCHANGED <<counters, flushed, report>>
    PROVE  ReportInv' /\ ResetsAreShown'
  BY DEF ReportInv, ResetsAreShown, NoReport

\* The same of the last reply, when neither it nor a value changes ...
LEMMA KeepReply ==
    ASSUME PatternKeys, values' = values, reply' = reply
    PROVE  PatternKeys'
  BY DEF PatternKeys, Exists

\* ... or another command is answered.
LEMMA OtherReply ==
    ASSUME reply'.op # "KEYS*"
    PROVE  PatternKeys'
  BY DEF PatternKeys

\* A key is not the mark of a missing entry, and a command runs between flushes.
LEMMA Between ==
    ASSUME TypeOK, Step
    PROVE  /\ flushing = {} /\ half = Absent /\ ops' \in 0..MaxOps
           /\ \A k \in Key : k # half
  <1>1. flushing = {} /\ half = Absent
    BY DEF TypeOK, Step
  <1>2. ops \in 0..MaxOps /\ ops < MaxOps /\ ops' = ops + 1 /\ MaxOps \in Nat
    BY StatsAssumption DEF TypeOK, Step
  <1>3. ops' \in 0..MaxOps
    BY <1>2
  <1> QED
    BY <1>1, <1>3, KeyIs

-----------------------------------------------------------------------------
(* Commands on values                                                      *)

\* What INCR and DECR store is an int64.
LEMMA StoredIs ==
    ASSUME TypeOK, NEW k \in Key, NEW n \in Amount
    PROVE  n \in Int64 /\ IncrBy(k, n) \in Int64 /\ DecrBy(k, n).stored \in Int64
  <1>1. n \in Int64 /\ n \in Int
    BY StatsAssumption, Int64Is
  <1>2. values[k] # Absent => values[k] \in Int
    BY Int64Is DEF TypeOK
  <1>3. IncrBy(k, n) \in Int64
    <2>1. values[k] # Absent => Wrap(values[k] + n) \in Int64
      BY <1>1, <1>2, WrapIs
    <2> QED
      BY <1>1, <2>1 DEF IncrBy, Exists
  <1>4. DecrBy(k, n).stored \in Int64
    <2>1. values[k] # Absent => Wrap(values[k] - n) \in Int64
      BY <1>1, <1>2, WrapIs
    <2>2. Wrap(-n) \in Int64
      BY <1>1, WrapIs
    <2> QED
      BY <2>1, <2>2 DEF DecrBy, Exists
  <1> QED
    BY <1>1, <1>3, <1>4

\* A command on values that does not search them keeps the invariant.
LEMMA ValueStep ==
    ASSUME StatsInv, Step, values' \in [Key -> {Absent} \cup Int64],
           reply'.op # "KEYS*",
           UNCHANGED <<counters, ticker, flushVars, report, threw, histVars>>
    PROVE  StatsInv'
  <1>1. /\ counters' = counters /\ flushing' = flushing /\ half' = half
        /\ issued' = issued /\ flushed' = flushed /\ taken' = taken
        /\ ticker' = ticker /\ report' = report /\ threw' = threw
    BY DEF flushVars, histVars
  <1>2. TypeOK'
    <2>1. ops' \in 0..MaxOps
      BY Between DEF StatsInv
    <2> QED
      BY <1>1, <2>1 DEF StatsInv, TypeOK, Report, NoReport
  <1>3. FlushInv' /\ CountInv' /\ WindowInv'
    BY <1>1, KeepCounters DEF StatsInv, flushVars, histVars
  <1>4. ReportInv' /\ ResetsAreShown'
    BY <1>1, KeepReport DEF StatsInv
  <1>5. PatternKeys'
    BY OtherReply
  <1> QED
    BY <1>2, <1>3, <1>4, <1>5 DEF StatsInv

\* GET, EXISTS and rejected commands.
LEMMA QuietCommands ==
    ASSUME StatsInv, Rejected \/ \E k \in Key : Get(k)
    PROVE  StatsInv'
  <1>1. values \in [Key -> {Absent} \cup Int64]
    BY DEF StatsInv, TypeOK
  <1>2. CASE Rejected
    BY <1>1, <1>2, ValueStep DEF Rejected
  <1>3. ASSUME NEW k \in Key, Get(k) PROVE StatsInv'
    <2>1. values' = values /\ reply'.op # "KEYS*"
      BY <1>3 DEF Get
    <2> QED
      BY <1>1, <1>3, <2>1, ValueStep DEF Get
  <1> QED
    BY <1>2, <1>3

\* SET, SETNX, INCR and DECR.
LEMMA ValueCommands ==
    ASSUME StatsInv, NEW k \in Key, NEW n \in Amount,
           Set(k, n) \/ SetNx(k, n) \/ Incr(k, n) \/ Decr(k, n)
    PROVE  StatsInv'
  <1>1. values \in [Key -> {Absent} \cup Int64]
    BY DEF StatsInv, TypeOK
  <1>2. n \in Int64 /\ IncrBy(k, n) \in Int64 /\ DecrBy(k, n).stored \in Int64
    BY StoredIs DEF StatsInv
  <1>3. CASE Set(k, n)
    BY <1>1, <1>2, <1>3, ValueStep DEF Set
  <1>4. CASE SetNx(k, n)
    <2>1. values' \in [Key -> {Absent} \cup Int64] /\ reply'.op # "KEYS*"
      BY <1>1, <1>2, <1>4 DEF SetNx
    <2> QED
      BY <1>4, <2>1, ValueStep DEF SetNx
  <1>5. CASE Incr(k, n)
    <2>1. values' \in [Key -> {Absent} \cup Int64] /\ reply'.op # "KEYS*"
      BY <1>1, <1>2, <1>5 DEF Incr
    <2> QED
      BY <1>5, <2>1, ValueStep DEF Incr
  <1>6. CASE Decr(k, n)
    <2>1. values' \in [Key -> {Absent} \cup Int64] /\ reply'.op # "KEYS*"
      BY <1>1, <1>2, <1>6 DEF Decr
    <2> QED
      BY <1>6, <2>1, ValueStep DEF Decr
  <1> QED
    BY <1>3, <1>4, <1>5, <1>6

\* KEYS with any pattern.
LEMMA KeysStep ==
    ASSUME StatsInv, Keys
    PROVE  StatsInv'
  <1>1. /\ values' = values /\ Step
        /\ UNCHANGED <<counters, ticker, flushVars, report, threw, histVars>>
    BY DEF Keys
  <1>2. CASE reply'.op # "KEYS*"
    BY <1>1, <1>2, ValueStep DEF StatsInv, TypeOK
  <1>3. ASSUME NEW p \in Pattern,
               reply' = [op |-> "KEYS*", pattern |-> p,
                         found |-> {k \in Key : Exists(k) /\ Found(p, k)}]
        PROVE  StatsInv'
    <2> DEFINE matching == {k \in Key : Exists(k) /\ Matches(p, k)}
               found == {k \in Key : Exists(k) /\ Found(p, k)}
    <2>1. Len(p) = 2 => matching \subseteq found
      BY OneStar
    <2>2. Len(p) = 2 /\ p[Len(p)] = <<>> => matching = found
      BY OneStar
    <2>3. Len(p) = 3 /\ p[1] = <<>> /\ p[Len(p)] = <<>> => matching = found
      BY TwoStars
    <2>4. /\ reply'.pattern = p /\ reply'.found = found
          /\ matching = {k \in Key : Exists(k)' /\ Matches(p, k)}
      BY <1>1, <1>3 DEF Exists
    <2> HIDE DEF matching, found
    <2>5. PatternKeys'
      BY <2>1, <2>2, <2>3, <2>4 DEF PatternKeys
    <2>6. /\ counters' = counters /\ flushing' = flushing /\ half' = half
          /\ issued' = issued /\ flushed' = flushed /\ taken' = taken
          /\ ticker' = ticker /\ report' = report /\ threw' = threw
      BY <1>1 DEF flushVars, histVars
    <2>7. TypeOK'
      <3>1. ops' \in 0..MaxOps
        BY <1>1, Between DEF StatsInv
      <3> QED
        BY <1>1, <2>6, <3>1 DEF StatsInv, TypeOK, Report, NoReport
    <2>8. FlushInv' /\ CountInv' /\ WindowInv'
      BY <2>6, KeepCounters DEF StatsInv, flushVars, histVars
    <2>9. ReportInv' /\ ResetsAreShown'
      BY <2>6, KeepReport DEF StatsInv
    <2> QED
      BY <2>5, <2>7, <2>8, <2>9 DEF StatsInv
  <1>4. \/ reply'.op # "KEYS*"
        \/ \E p \in Pattern :
             reply' = [op |-> "KEYS*", pattern |-> p,
                       found |-> {k \in Key : Exists(k) /\ Found(p, k)}]
    BY DEF Keys
  <1> QED
    BY <1>2, <1>3, <1>4

-----------------------------------------------------------------------------
(* Counters                                                                *)

\* The window does not depend on the value.
LEMMA WindowKept ==
    ASSUME NEW c, NEW d, NEW s, WindowOK(c, s),
           d.rate = c.rate, d.history = c.history
    PROVE  WindowOK(d, s)
  BY DEF WindowOK

\* The balance of one counter.
LEMMA CountInvIs ==
    ASSUME TypeOK, CountInv, NEW k \in Key, counters[k] # Absent
    PROVE  /\ counters[k] \in Counter /\ counters[k].value \in Int64
           /\ counters[k].value \in Int /\ Holding(k) \in Int
           /\ issued[k] \in Int /\ taken[k] \in Int
           /\ Multiple(issued[k] - (Holding(k) + taken[k]))
  <1>1. counters[k] \in Counter /\ issued[k] \in Int /\ taken[k] \in Int
    BY DEF TypeOK
  <1>2. counters[k].value \in Int64 /\ counters[k].value \in Int
    BY <1>1, Int64Is DEF Counter
  <1>3. Holding(k) \in Int
    BY <1>2 DEF Holding
  <1>4. Multiple(issued[k] - (Holding(k) + taken[k]))
    BY DEF CountInv
  <1> QED
    BY <1>1, <1>2, <1>3, <1>4

\* Adding to a counter what is added to the issued amounts keeps the balance.
LEMMA BalanceKept ==
    ASSUME NEW i \in Int, NEW v \in Int, NEW t \in Int, NEW n \in Int,
           Multiple(i - (v + t))
    PROVE  Multiple((i + n) - (Wrap(v + n) + t))
  <1>1. v + n \in Int
    OBVIOUS
  <1>2. PICK w \in Int : w = Wrap(v + n) /\ Multiple((v + n) - w)
    BY <1>1, WrapIs
  <1>3. PICK M \in Nat : M = 2^Bits
    BY WidthIs
  <1>4. PICK p \in Int, r \in Int : p = i - (v + t) /\ r = (v + n) - w
    OBVIOUS
  <1>5. MultipleOf(p, M) /\ MultipleOf(r, M)
    BY <1>2, <1>3, <1>4, MultipleIs
  <1>6. MultipleOf(p + r, M)
    BY <1>5, MultiplesAdd
  <1>7. p + r = (i + n) - (w + t)
    BY <1>4
  <1> QED
    BY <1>2, <1>3, <1>6, <1>7, MultipleIs

\* No difference is a multiple.
LEMMA NoDifference == Multiple(0)
  <1>1. 0 = 0 * 2^Bits
    BY WidthIs
  <1>2. 0 \in Int
    OBVIOUS
  <1> QED
    BY <1>1, <1>2 DEF Multiple

\* The counter that COUNT makes or adds to.
LEMMA CounterByIs ==
    ASSUME TypeOK, WindowInv, NEW k \in Key, NEW n \in Amount
    PROVE  LET c == CounterBy(counters[k], n)
               s == IF counters[k] = Absent THEN <<>> ELSE flushed[k]
           IN  /\ c \in Counter /\ s \in Seq(Int64)
               /\ Len(c.history) <= MaxHistory /\ WindowOK(c, s)
               /\ c.value = IF counters[k] = Absent THEN n
                            ELSE Wrap(counters[k].value + n)
  <1>1. n \in Int64 /\ n \in Int /\ MaxHistory \in Nat
    BY StatsAssumption, Int64Is
  <1>2. CASE counters[k] = Absent
    <2> DEFINE c == [value |-> n, rate |-> 0, history |-> <<>>]
    <2>1. CounterBy(counters[k], n) = c
      BY <1>2 DEF CounterBy
    <2>2. c \in Counter
      BY <1>1, Int64Is DEF Counter
    <2>3. c.value = n /\ c.rate = 0 /\ c.history = <<>>
      OBVIOUS
    <2> HIDE DEF c
    <2>4. Len(<<>>) = 0 /\ <<>> \in Seq(Int64) /\ DOMAIN <<>> = 1..0
      OBVIOUS
    <2>5. \A i \in 1..0 : FALSE
      OBVIOUS
    <2>6. Entry(<<>>, 1) = 0 /\ 0 + 1 = 1
      BY DEF Entry
    <2>7. WindowOK(c, <<>>)
      BY <1>1, <2>3, <2>4, <2>5, <2>6 DEF WindowOK
    <2>8. Len(c.history) <= MaxHistory
      BY <1>1, <2>3, <2>4
    <2> QED
      BY <1>2, <2>1, <2>2, <2>3, <2>4, <2>7, <2>8
  <1>3. CASE counters[k] # Absent
    <2>1. PICK b \in Counter : b = counters[k]
      BY <1>3 DEF TypeOK
    <2>2. PICK w \in Int64 : w = Wrap(b.value + n)
      <3>1. b.value \in Int
        BY Int64Is DEF Counter
      <3> QED
        BY <1>1, <3>1, WrapIs
    <2> DEFINE c == [b EXCEPT !.value = w]
    <2>3. CounterBy(counters[k], n) = c
      BY <1>3, <2>1, <2>2 DEF CounterBy
    <2>4. c \in Counter /\ c.value = w /\ c.rate = b.rate /\ c.history = b.history
      BY DEF Counter
    <2> HIDE DEF c
    <2>5. WindowOK(b, flushed[k])
      BY <1>3, <2>1 DEF WindowInv
    <2>6. WindowOK(c, flushed[k])
      BY <2>4, <2>5, WindowKept
    <2>7. Len(b.history) <= MaxHistory /\ flushed[k] \in Seq(Int64)
      BY <1>3, <2>1 DEF TypeOK
    <2> QED
      BY <1>3, <2>1, <2>2, <2>3, <2>4, <2>6, <2>7
  <1> QED
    BY <1>2, <1>3

\* COUNT.
LEMMA CountStep ==
    ASSUME StatsInv, NEW k \in Key, NEW n \in Amount, Count(k, n)
    PROVE  StatsInv'
  <1> DEFINE c == CounterBy(counters[k], n)
             s == IF counters[k] = Absent THEN <<>> ELSE flushed[k]
  <1> USE DEF StatsInv
  <1>1. /\ counters' = [counters EXCEPT ![k] = c]
        /\ issued' = [issued EXCEPT ![k] = IF counters[k] = Absent THEN n ELSE @ + n]
        /\ flushed' = [flushed EXCEPT ![k] = s]
        /\ taken' = [taken EXCEPT ![k] = IF counters[k] = Absent THEN 0 ELSE @]
        /\ values' = values /\ ticker' = ticker /\ report' = report /\ threw' = threw
        /\ flushing' = flushing /\ half' = half /\ Step /\ reply' = NoReply
    BY DEF Count, flushVars
  <1>2. /\ c \in Counter /\ s \in Seq(Int64)
        /\ Len(c.history) <= MaxHistory /\ WindowOK(c, s)
        /\ c.value = IF counters[k] = Absent THEN n ELSE Wrap(counters[k].value + n)
    BY CounterByIs
  <1> HIDE DEF c, s
  <1>3. /\ flushing = {} /\ half = Absent /\ ops' \in 0..MaxOps
        /\ \A j \in Key : j # half
    BY <1>1, Between
  <1>4. n \in Int /\ Absent \notin Counter
    BY StatsAssumption, Int64Is
  <1>5. /\ counters \in [Key -> {Absent} \cup Counter] /\ issued \in [Key -> Int]
        /\ taken \in [Key -> Int] /\ flushed \in [Key -> Seq(Int64)]
    BY DEF TypeOK
  <1>6. /\ counters'[k] = c /\ flushed'[k] = s /\ counters'[k] # Absent
        /\ \A j \in Key \ {k} : /\ counters'[j] = counters[j] /\ issued'[j] = issued[j]
                                /\ taken'[j] = taken[j] /\ flushed'[j] = flushed[j]
    BY <1>1, <1>2, <1>4, <1>5
  <1>7. TypeOK'
    <2>1. /\ counters' \in [Key -> {Absent} \cup Counter]
          /\ flushed' \in [Key -> Seq(Int64)]
      BY <1>1, <1>2, <1>5
    <2>2. issued' \in [Key -> Int] /\ taken' \in [Key -> Int]
      BY <1>1, <1>4, <1>5
    <2>3. \A j \in Key : counters'[j] # Absent => Len(counters'[j].history) <= MaxHistory
      BY <1>2, <1>6 DEF TypeOK
    <2>4. /\ values' \in [Key -> {Absent} \cup Int64]
          /\ ticker' \in {"on", "stopping", "off"}
          /\ flushing' \subseteq Key /\ half' \in flushing' \cup {Absent}
          /\ threw' \in BOOLEAN /\ ops' \in 0..MaxOps /\ report' \in Report
      BY <1>1, <1>3 DEF TypeOK
    <2> QED
      BY <2>1, <2>2, <2>3, <2>4 DEF TypeOK, Report, NoReport
  <1>8. FlushInv'
    BY <1>1, <1>3 DEF FlushInv
  <1>9. CountInv'
    <2>1. ASSUME NEW j \in Key \ {k}, counters'[j] # Absent
          PROVE  Multiple(issued'[j] - (Holding(j)' + taken'[j]))
      BY <1>1, <1>6, <2>1 DEF CountInv, Holding
    <2>2. Multiple(issued'[k] - (Holding(k)' + taken'[k]))
      <3>1. Holding(k)' = c.value
        BY <1>1, <1>3, <1>6 DEF Holding
      <3>2. CASE counters[k] = Absent
        <4>1. issued'[k] = n /\ c.value = n /\ taken'[k] = 0
          BY <1>1, <1>2, <1>5, <3>2
        <4>2. n - (n + 0) = 0
          BY <1>4
        <4> QED
          BY <3>1, <4>1, <4>2, NoDifference
      <3>3. CASE counters[k] # Absent
        <4>1. /\ issued'[k] = issued[k] + n /\ taken'[k] = taken[k]
              /\ c.value = Wrap(counters[k].value + n)
          BY <1>1, <1>2, <1>5, <3>3
        <4>2. Holding(k) = counters[k].value
          BY <1>3 DEF Holding
        <4>3. /\ counters[k].value \in Int /\ issued[k] \in Int /\ taken[k] \in Int
              /\ Multiple(issued[k] - (counters[k].value + taken[k]))
          BY <3>3, <4>2, CountInvIs
        <4>4. Multiple((issued[k] + n) - (Wrap(counters[k].value + n) + taken[k]))
          BY <1>4, <4>3, BalanceKept
        <4> QED
          BY <3>1, <4>1, <4>4
      <3> QED
        BY <3>2, <3>3
    <2>3. \A j \in Key : counters'[j] # Absent =>
              Multiple(issued'[j] - (Holding(j)' + taken'[j]))
      BY <2>1, <2>2
    <2> QED
      BY <2>3 DEF CountInv, Multiple
  <1>10. WindowInv'
    <2>1. \A j \in Key : counters'[j] # Absent => WindowOK(counters'[j], flushed'[j])
      BY <1>2, <1>6 DEF WindowInv
    <2> QED
      BY <2>1 DEF WindowInv, WindowOK, Entry
  <1>11. ReportInv' /\ ResetsAreShown'
    <2>1. ResetsAreShown'
      BY <1>1 DEF ResetsAreShown, NoReport
    <2>2. ASSUME report # NoReport, report.read = 1
          PROVE  /\ report.key \in Key /\ counters'[report.key] # Absent
                 /\ report.reset <= Len(flushed'[report.key])
      <3>1. /\ report.key \in Key /\ counters[report.key] # Absent
            /\ report.reset <= Len(flushed[report.key])
        BY <2>2 DEF ReportInv
      <3>2. flushed'[report.key] = flushed[report.key]
        BY <1>6, <3>1 DEF s
      <3> QED
        BY <1>6, <3>1, <3>2
    <2> QED
      BY <1>1, <2>1, <2>2 DEF ReportInv, NoReport
  <1>12. PatternKeys'
    BY <1>1, OtherReply DEF NoReply
  <1> QED
    BY <1>7, <1>8, <1>9, <1>10, <1>11, <1>12

\* Records of COUNTERS with new fields.
LEMMA RecordWith ==
    ASSUME NEW A, NEW B, NEW C, NEW D, NEW E, NEW F,
           NEW r \in [at : A, todo : B, key : C, read : D, reset : E, shown : F],
           NEW b \in B, NEW c \in C, NEW d \in D, NEW e \in E, NEW f \in F
    PROVE  [r EXCEPT !.key = c, !.read = d, !.todo = b, !.reset = e, !.shown = f]
             \in [at : A, todo : B, key : C, read : D, reset : E, shown : F]
  OBVIOUS

\* What COUNTERS has after it read a field of a counter: the value is no more
\* often reset than flushed, and the rate is that of the last flush.
LEMMA ReadFieldIs ==
    ASSUME TypeOK, FlushInv, NEW r \in Report, r # NoReport, r.read \in {0, 1},
           NEW k \in Key
    PROVE  LET new == ReadField(r, k)
           IN  /\ new \in Report /\ new # NoReport
               /\ new.key = k /\ new.read = r.read + 1
               /\ r.read = 0 => new.reset <= Len(flushed[k])
               /\ r.read = 1 => new.reset = r.reset /\ new.shown = Len(flushed[k])
  <1>1. /\ r \in [at : {"marshal"}, todo : SUBSET Key, key : Key \cup {Absent},
                  read : 0..2, reset : Nat, shown : Nat]
    BY DEF Report
  <1>2. PICK m \in Nat : m = Len(flushed[k])
    BY DEF TypeOK
  <1>3. PICK d \in {0, 1} : d = (IF half = k THEN 1 ELSE 0)
    OBVIOUS
  <1>4. m - d \in Nat /\ m - d <= m
    <2>1. CASE half = k
      <3>1. flushed[k] # <<>> /\ flushed[k] \in Seq(Int64)
        BY <2>1, KeyIs DEF FlushInv, TypeOK
      <3>2. m # 0
        BY <1>2, <3>1, EmptySeq
      <3> QED
        BY <1>3, <3>2
    <2>2. CASE half # k
      <3>1. d = 0
        BY <1>3, <2>2
      <3> QED
        BY <3>1
    <2> QED
      BY <2>1, <2>2
  <1>5. PICK e \in Nat : e = m - d /\ e <= m
    BY <1>4
  <1>6. CASE r.read = 0
    <2> DEFINE new == [r EXCEPT !.key = k, !.read = 1, !.todo = r.todo \ {k},
                                !.reset = e, !.shown = r.shown]
    <2>1. Fields[r.read + 1] = "Value"
      <3>1. r.read + 1 = 1
        BY <1>6
      <3> QED
        BY <3>1 DEF Fields
    <2>2. ReadField(r, k) = new
      <3>1. r.read + 1 = 1 /\ "Value" # "Rate"
        BY <1>6
      <3>2. e = Len(flushed[k]) - (IF half = k THEN 1 ELSE 0)
        BY <1>2, <1>3, <1>5
      <3> QED
        BY <2>1, <3>1, <3>2 DEF ReadField
    <2>3. new \in [at : {"marshal"}, todo : SUBSET Key, key : Key \cup {Absent},
                   read : 0..2, reset : Nat, shown : Nat]
      <3>1. /\ r.todo \ {k} \in SUBSET Key /\ k \in Key \cup {Absent}
            /\ 1 \in 0..2 /\ e \in Nat /\ r.shown \in Nat
        BY <1>1
      <3> QED
        BY <1>1, <3>1, RecordWith
    <2>4. new.key = k /\ new.read = 1 /\ new.reset = e /\ new.at = "marshal"
      BY <1>1
    <2> HIDE DEF new
    <2>5. new # NoReport
      BY <2>4 DEF NoReport
    <2> QED
      BY <1>2, <1>5, <1>6, <2>2, <2>3, <2>4, <2>5 DEF Report
  <1>7. CASE r.read = 1
    <2> DEFINE new == [r EXCEPT !.key = k, !.read = 2, !.todo = r.todo \ {k},
                                !.reset = r.reset, !.shown = m]
    <2>1. Fields[r.read + 1] = "Rate"
      <3>1. r.read + 1 = 2
        BY <1>7
      <3> QED
        BY <3>1 DEF Fields
    <2>2. ReadField(r, k) = new
      <3>1. r.read + 1 = 2 /\ "Value" # "Rate"
        BY <1>7
      <3> QED
        BY <1>2, <2>1, <3>1 DEF ReadField
    <2>3. new \in [at : {"marshal"}, todo : SUBSET Key, key : Key \cup {Absent},
                   read : 0..2, reset : Nat, shown : Nat]
      <3>1. /\ r.todo \ {k} \in SUBSET Key /\ k \in Key \cup {Absent}
            /\ 2 \in 0..2 /\ r.reset \in Nat /\ m \in Nat
        BY <1>1
      <3> QED
        BY <1>1, <3>1, RecordWith
    <2>4. /\ new.key = k /\ new.read = 2 /\ new.reset = r.reset
          /\ new.shown = m /\ new.at = "marshal"
      BY <1>1
    <2> HIDE DEF new
    <2>5. new # NoReport
      BY <2>4 DEF NoReport
    <2> QED
      BY <1>2, <1>7, <2>2, <2>3, <2>4, <2>5 DEF Report
  <1> QED
    BY <1>6, <1>7

\* COUNTERS goes on with the counter it is in the middle of.
LEMMA RestIs ==
    ASSUME StatsInv, NEW k \in Key, Holds(k)
    PROVE  LET new == ReadField(report, k)
           IN  /\ new \in Report /\ new # NoReport /\ new.read = 2
               /\ new.reset <= new.shown
  <1>1. /\ report \in Report /\ report # NoReport /\ report.read = 1 /\ report.key = k
        /\ report.reset <= Len(flushed[k])
    BY DEF StatsInv, TypeOK, ReportInv, Holds
  <1>2. /\ ReadField(report, k) \in Report /\ ReadField(report, k) # NoReport
        /\ ReadField(report, k).read = 1 + 1
        /\ ReadField(report, k).reset = report.reset
        /\ ReadField(report, k).shown = Len(flushed[k])
    BY <1>1, ReadFieldIs DEF StatsInv
  <1> QED
    BY <1>1, <1>2

\* DEL of one key.
LEMMA DelStep ==
    ASSUME StatsInv, NEW k \in Key, Del(k)
    PROVE  StatsInv'
  <1> USE DEF StatsInv
  <1>1. /\ values' = [values EXCEPT ![k] = Absent]
        /\ counters' = [counters EXCEPT ![k] = Absent]
        /\ report' = IF Holds(k) THEN ReadField(report, k) ELSE report
        /\ reply'.op # "KEYS*" /\ Step
        /\ ticker' = ticker /\ threw' = threw /\ flushing' = flushing /\ half' = half
        /\ issued' = issued /\ flushed' = flushed /\ taken' = taken
    BY DEF Del, flushVars, histVars
  <1>2. flushing = {} /\ half = Absent /\ ops' \in 0..MaxOps
    BY <1>1, Between
  <1>3. /\ values \in [Key -> {Absent} \cup Int64]
        /\ counters \in [Key -> {Absent} \cup Counter]
    BY DEF TypeOK
  <1>4. /\ counters'[k] = Absent
        /\ \A j \in Key \ {k} : counters'[j] = counters[j]
    BY <1>1, <1>3
  <1>5. /\ report' \in Report
        /\ ReportInv' /\ ResetsAreShown'
    <2>1. CASE Holds(k)
      <3>1. /\ report' \in Report /\ report' # NoReport /\ report'.read = 2
            /\ report'.reset <= report'.shown
        BY <1>1, <2>1, RestIs
      <3> QED
        BY <3>1 DEF ReportInv, ResetsAreShown, NoReport
    <2>2. CASE ~Holds(k)
      <3>1. report' = report
        BY <1>1, <2>2
      <3>2. ASSUME report # NoReport, report.read = 1
            PROVE  /\ report.key \in Key /\ counters'[report.key] # Absent
                   /\ report.reset <= Len(flushed'[report.key])
        BY <1>1, <1>4, <2>2, <3>2 DEF ReportInv, Holds
      <3> QED
        BY <3>1, <3>2 DEF ReportInv, ResetsAreShown, NoReport, TypeOK
    <2> QED
      BY <2>1, <2>2
  <1>6. TypeOK'
    <2>1. /\ values' \in [Key -> {Absent} \cup Int64]
          /\ counters' \in [Key -> {Absent} \cup Counter]
      BY <1>1, <1>3
    <2>2. \A j \in Key : counters'[j] # Absent => Len(counters'[j].history) <= MaxHistory
      BY <1>4 DEF TypeOK
    <2>3. /\ ticker' \in {"on", "stopping", "off"} /\ threw' \in BOOLEAN
          /\ flushing' \subseteq Key /\ half' \in flushing' \cup {Absent}
          /\ issued' \in [Key -> Int] /\ taken' \in [Key -> Int]
          /\ flushed' \in [Key -> Seq(Int64)]
      BY <1>1 DEF TypeOK
    <2> QED
      BY <1>2, <1>5, <2>1, <2>2, <2>3 DEF TypeOK, Report, NoReport
  <1>7. FlushInv'
    BY <1>1, <1>2 DEF FlushInv
  <1>8. CountInv'
    BY <1>1, <1>4 DEF CountInv, Holding, Multiple
  <1>9. WindowInv'
    <2>1. \A j \in Key : counters'[j] # Absent => WindowOK(counters'[j], flushed'[j])
      BY <1>1, <1>4 DEF WindowInv
    <2> QED
      BY <2>1 DEF WindowInv, WindowOK, Entry
  <1>10. PatternKeys'
    BY <1>1, OtherReply
  <1> QED
    BY <1>5, <1>6, <1>7, <1>8, <1>9, <1>10

-----------------------------------------------------------------------------
(* The flush                                                               *)

\* FlushCounters takes the mutex.
LEMMA FlushStep ==
    ASSUME StatsInv, FlushCounters
    PROVE  StatsInv'
  <1> USE DEF StatsInv
  <1>1. /\ flushing' = {k \in Key : counters[k] # Absent} /\ Step
        /\ values' = values /\ counters' = counters /\ ticker' = ticker
        /\ half' = half /\ report' = report /\ threw' = threw /\ reply' = reply
        /\ issued' = issued /\ flushed' = flushed /\ taken' = taken
    BY DEF FlushCounters, histVars
  <1>2. half = Absent /\ ops' \in 0..MaxOps
    BY <1>1, Between
  <1>3. TypeOK'
    BY <1>1, <1>2 DEF TypeOK, Report, NoReport
  <1>4. FlushInv'
    BY <1>1, <1>2 DEF FlushInv
  <1>5. CountInv'
    BY <1>1 DEF CountInv, Holding, Multiple
  <1>6. WindowInv'
    BY <1>1 DEF WindowInv, WindowOK, Entry
  <1>7. ReportInv' /\ ResetsAreShown'
    BY <1>1, KeepReport
  <1>8. PatternKeys'
    BY <1>1, KeepReply
  <1> QED
    BY <1>3, <1>4, <1>5, <1>6, <1>7, <1>8

\* It records the rate of a counter: the value is in the history, and is not
\* counted as held any more.
LEMMA FlushRecordStep ==
    ASSUME StatsInv, NEW k \in Key, FlushRecord(k)
    PROVE  StatsInv'
  <1> USE DEF StatsInv
  <1>1. /\ k \in flushing /\ half = Absent /\ half' = k
        /\ counters' = [counters EXCEPT ![k] = Record(@)]
        /\ flushed' = [flushed EXCEPT ![k] = Append(@, counters[k].value)]
        /\ taken' = [taken EXCEPT ![k] = @ + counters[k].value]
        /\ values' = values /\ ticker' = ticker /\ flushing' = flushing
        /\ report' = report /\ threw' = threw /\ reply' = reply /\ ops' = ops
        /\ issued' = issued
    BY DEF FlushRecord
  <1>2. counters[k] # Absent
    BY <1>1 DEF FlushInv
  <1>3. PICK c \in Counter : c = counters[k]
    BY <1>2 DEF TypeOK
  <1>4. PICK s \in Seq(Int64) : s = flushed[k]
    BY DEF TypeOK
  <1>5. c.value \in Int64 /\ c.value \in Int
    BY Int64Is DEF Counter
  <1>6. WindowOK(c, s)
    BY <1>2, <1>3, <1>4 DEF WindowInv
  <1>7. PICK d \in Counter, t \in Seq(Int64) :
          /\ d = Record(c) /\ t = Append(s, c.value)
          /\ Len(d.history) <= MaxHistory /\ WindowOK(d, t)
          /\ Len(t) = Len(s) + 1 /\ t # <<>>
    BY <1>5, <1>6, RecordIs, AppendProperties, ZenonT(60)
  <1>8. d # Absent
    BY StatsAssumption
  <1>9. /\ counters \in [Key -> {Absent} \cup Counter] /\ issued \in [Key -> Int]
        /\ taken \in [Key -> Int] /\ flushed \in [Key -> Seq(Int64)]
    BY DEF TypeOK
  <1>10. /\ counters' = [counters EXCEPT ![k] = d]
         /\ flushed' = [flushed EXCEPT ![k] = t]
         /\ taken' = [taken EXCEPT ![k] = taken[k] + c.value]
    BY <1>1, <1>3, <1>4, <1>7
  <1>11. /\ counters'[k] = d /\ flushed'[k] = t /\ taken'[k] = taken[k] + c.value
         /\ \A j \in Key \ {k} : /\ counters'[j] = counters[j]
                                 /\ taken'[j] = taken[j] /\ flushed'[j] = flushed[j]
    BY <1>9, <1>10
  <1>12. TypeOK'
    <2>1. /\ counters' \in [Key -> {Absent} \cup Counter]
          /\ flushed' \in [Key -> Seq(Int64)]
      BY <1>9, <1>10
    <2>2. issued' \in [Key -> Int] /\ taken' \in [Key -> Int]
      BY <1>1, <1>5, <1>9, <1>10
    <2>3. \A j \in Key : counters'[j] # Absent => Len(counters'[j].history) <= MaxHistory
      BY <1>7, <1>11 DEF TypeOK
    <2>4. /\ values' \in [Key -> {Absent} \cup Int64]
          /\ ticker' \in {"on", "stopping", "off"}
          /\ flushing' \subseteq Key /\ half' \in flushing' \cup {Absent}
          /\ threw' \in BOOLEAN /\ ops' \in 0..MaxOps /\ report' \in Report
      BY <1>1 DEF TypeOK
    <2> QED
      BY <2>1, <2>2, <2>3, <2>4 DEF TypeOK, Report, NoReport
  <1>13. FlushInv'
    BY <1>1, <1>7, <1>8, <1>11 DEF FlushInv, TypeOK
  <1>14. CountInv'
    <2>1. ASSUME NEW j \in Key \ {k}, counters'[j] # Absent
          PROVE  Multiple(issued'[j] - (Holding(j)' + taken'[j]))
      <3>1. j # half
        BY <1>1, KeyIs
      <3>2. Holding(j)' = Holding(j)
        BY <1>1, <1>11, <3>1 DEF Holding
      <3> QED
        BY <1>1, <1>11, <2>1, <3>2 DEF CountInv
    <2>2. Multiple(issued'[k] - (Holding(k)' + taken'[k]))
      <3>1. Holding(k) = c.value /\ Holding(k)' = 0
        BY <1>1, <1>3, KeyIs DEF Holding
      <3>2. /\ issued[k] \in Int /\ taken[k] \in Int
            /\ Multiple(issued[k] - (c.value + taken[k]))
        BY <1>2, <3>1, CountInvIs
      <3>3. c.value + taken[k] = 0 + (taken[k] + c.value)
        BY <1>5, <3>2
      <3> QED
        BY <1>1, <1>11, <3>1, <3>2, <3>3
    <2>3. \A j \in Key : counters'[j] # Absent =>
              Multiple(issued'[j] - (Holding(j)' + taken'[j]))
      BY <2>1, <2>2
    <2> QED
      BY <2>3 DEF CountInv, Multiple
  <1>15. WindowInv'
    <2>1. \A j \in Key : counters'[j] # Absent => WindowOK(counters'[j], flushed'[j])
      BY <1>7, <1>11 DEF WindowInv
    <2> QED
      BY <2>1 DEF WindowInv, WindowOK, Entry
  <1>16. ReportInv' /\ ResetsAreShown'
    <2>1. ResetsAreShown'
      BY <1>1 DEF ResetsAreShown, NoReport
    <2>2. ASSUME report # NoReport, report.read = 1
          PROVE  /\ report.key \in Key /\ counters'[report.key] # Absent
                 /\ report.reset <= Len(flushed'[report.key])
      <3>1. /\ report.key \in Key /\ counters[report.key] # Absent
            /\ report.reset <= Len(flushed[report.key])
        BY <2>2 DEF ReportInv
      <3>2. report.reset \in Nat
        BY <2>2 DEF TypeOK, Report
      <3>3. CASE report.key = k
        <4>1. report.reset <= Len(s) /\ Len(s) \in Nat
          BY <1>4, <3>1, <3>3
        <4>2. report.reset <= Len(t)
          BY <1>7, <3>2, <4>1
        <4> QED
          BY <1>8, <1>11, <3>1, <3>3, <4>2
      <3>4. CASE report.key # k
        BY <1>11, <3>1, <3>4
      <3> QED
        BY <3>3, <3>4
    <2> QED
      BY <1>1, <2>1, <2>2 DEF ReportInv, NoReport
  <1>17. PatternKeys'
    BY <1>1, KeepReply
  <1> QED
    BY <1>12, <1>13, <1>14, <1>15, <1>16, <1>17

\* It resets the value, which was counted as taken already.
LEMMA FlushResetStep ==
    ASSUME StatsInv, FlushReset
    PROVE  StatsInv'
  <1> USE DEF StatsInv
  <1>1. PICK k \in Key : k = half /\ k \in flushing
    BY DEF FlushReset, TypeOK
  <1>2. /\ counters' = [counters EXCEPT ![k].value = 0]
        /\ flushing' = flushing \ {k} /\ half' = Absent
        /\ values' = values /\ ticker' = ticker /\ report' = report
        /\ threw' = threw /\ reply' = reply /\ ops' = ops
        /\ issued' = issued /\ flushed' = flushed /\ taken' = taken
    BY <1>1 DEF FlushReset, histVars
  <1>3. counters[k] # Absent
    BY <1>1 DEF FlushInv
  <1>4. PICK c \in Counter : c = counters[k]
    BY <1>3 DEF TypeOK
  <1>5. PICK d \in Counter : /\ d = [c EXCEPT !.value = 0] /\ d.value = 0
                             /\ d.rate = c.rate /\ d.history = c.history
    <2> DEFINE d == [c EXCEPT !.value = 0]
    <2>1. d \in Counter /\ d.value = 0 /\ d.rate = c.rate /\ d.history = c.history
      BY Int64Is DEF Counter
    <2> QED
      BY <2>1
  <1>6. d # Absent
    BY StatsAssumption
  <1>7. counters \in [Key -> {Absent} \cup Counter]
    BY DEF TypeOK
  <1>8. counters' = [counters EXCEPT ![k] = d]
    BY <1>2, <1>4, <1>5
  <1>9. counters'[k] = d /\ \A j \in Key \ {k} : counters'[j] = counters[j]
    BY <1>7, <1>8
  <1>10. TypeOK'
    <2>1. counters' \in [Key -> {Absent} \cup Counter]
      BY <1>7, <1>8
    <2>2. \A j \in Key : counters'[j] # Absent => Len(counters'[j].history) <= MaxHistory
      BY <1>3, <1>4, <1>5, <1>9 DEF TypeOK
    <2>3. /\ values' \in [Key -> {Absent} \cup Int64]
          /\ ticker' \in {"on", "stopping", "off"}
          /\ flushing' \subseteq Key /\ half' \in flushing' \cup {Absent}
          /\ threw' \in BOOLEAN /\ ops' \in 0..MaxOps /\ report' \in Report
          /\ issued' \in [Key -> Int] /\ taken' \in [Key -> Int]
          /\ flushed' \in [Key -> Seq(Int64)]
      BY <1>2 DEF TypeOK
    <2> QED
      BY <2>1, <2>2, <2>3 DEF TypeOK, Report, NoReport
  <1>11. FlushInv'
    BY <1>2, <1>9 DEF FlushInv, TypeOK
  <1>12. CountInv'
    <2>1. ASSUME NEW j \in Key, counters'[j] # Absent
          PROVE  Multiple(issued'[j] - (Holding(j)' + taken'[j]))
      <3>1. Holding(j)' = Holding(j) /\ counters[j] # Absent
        <4>1. CASE j = k
          <5>1. Holding(j) = 0
            BY <1>1, <4>1 DEF Holding
          <5>2. Holding(j)' = 0
            BY <1>2, <1>5, <1>9, <4>1 DEF Holding
          <5> QED
            BY <1>3, <4>1, <5>1, <5>2
        <4>2. CASE j # k
          <5>1. j # half /\ j # half'
            BY <1>1, <1>2, <4>2, KeyIs
          <5> QED
            BY <1>9, <2>1, <4>2, <5>1 DEF Holding
        <4> QED
          BY <4>1, <4>2
      <3> QED
        BY <1>2, <3>1 DEF CountInv
    <2> QED
      BY <2>1 DEF CountInv, Multiple
  <1>13. WindowInv'
    <2>1. WindowOK(d, flushed[k])
      BY <1>3, <1>4, <1>5, WindowKept DEF WindowInv
    <2>2. \A j \in Key : counters'[j] # Absent => WindowOK(counters'[j], flushed'[j])
      BY <1>2, <1>9, <2>1 DEF WindowInv
    <2> QED
      BY <2>2 DEF WindowInv, WindowOK, Entry
  <1>14. ReportInv' /\ ResetsAreShown'
    <2>1. ResetsAreShown'
      BY <1>2 DEF ResetsAreShown, NoReport
    <2>2. \A j \in Key : counters[j] # Absent => counters'[j] # Absent
      BY <1>6, <1>9
    <2> QED
      BY <1>2, <2>1, <2>2 DEF ReportInv, NoReport
  <1>15. PatternKeys'
    BY <1>2, KeepReply
  <1> QED
    BY <1>10, <1>11, <1>12, <1>13, <1>14, <1>15

\* Unload and the end of the flush goroutine, the answer of COUNTERS, and a
\* race on the map that the runtime notices.
LEMMA OtherStep ==
    ASSUME StatsInv, Unload \/ StopTicker \/ CountersReply \/ MapRace
    PROVE  StatsInv'
  <1> USE DEF StatsInv
  <1>0. ticker \in {"on", "stopping", "off"} /\ threw \in BOOLEAN
    BY DEF TypeOK
  <1>1. /\ values' = values /\ counters' = counters /\ ops' = ops
        /\ flushing' = flushing /\ half' = half
        /\ issued' = issued /\ flushed' = flushed /\ taken' = taken
        /\ ticker' \in {"on", "stopping", "off"} /\ threw' \in BOOLEAN
        /\ report' = report \/ report' = NoReport
        /\ reply' = reply \/ reply'.op # "KEYS*"
    <2>1. CASE Unload
      BY <1>0, <2>1 DEF Unload, flushVars, histVars
    <2>2. CASE StopTicker
      BY <1>0, <2>2 DEF StopTicker, flushVars, histVars
    <2>3. CASE CountersReply
      BY <1>0, <2>3 DEF CountersReply, flushVars, histVars
    <2>4. CASE MapRace
      BY <1>0, <2>4 DEF MapRace, flushVars, histVars
    <2> QED
      BY <2>1, <2>2, <2>3, <2>4
  <1>2. report' \in Report /\ ReportInv' /\ ResetsAreShown'
    <2>1. CASE report' = report
      BY <1>1, <2>1, KeepReport DEF TypeOK
    <2>2. CASE report' = NoReport
      BY <2>2 DEF Report, ReportInv, ResetsAreShown, NoReport
    <2> QED
      BY <1>1, <2>1, <2>2
  <1>3. TypeOK'
    BY <1>1, <1>2 DEF TypeOK, Report, NoReport
  <1>4. FlushInv' /\ CountInv' /\ WindowInv'
    BY <1>1, KeepCounters DEF flushVars, histVars
  <1>5. PatternKeys'
    BY <1>1, KeepReply, OtherReply
  <1> QED
    BY <1>2, <1>3, <1>4, <1>5

-----------------------------------------------------------------------------
(* COUNTERS                                                                *)

\* COUNTERS starts, takes up a counter, or goes on with one.
LEMMA ReportStep ==
    ASSUME StatsInv,
           Counters \/ \E k \in Key : MarshalCounter(k) \/ MarshalRest(k)
    PROVE  StatsInv'
  <1> USE DEF StatsInv
  <1> DEFINE Same == /\ values' = values /\ counters' = counters /\ ops' \in 0..MaxOps
                     /\ flushing' = flushing /\ half' = half
                     /\ issued' = issued /\ flushed' = flushed /\ taken' = taken
                     /\ ticker' = ticker /\ threw' = threw /\ reply' = reply
             Good == /\ report' \in Report /\ report' # NoReport
                     /\ report'.read = 1 =>
                           /\ report'.key \in Key /\ counters[report'.key] # Absent
                           /\ report'.reset <= Len(flushed[report'.key])
                     /\ report'.read = 2 => report'.reset <= report'.shown
  <1>1. Same
    <2>1. CASE Counters
      BY <2>1, Between DEF Counters, flushVars, histVars
    <2>2. ASSUME NEW k \in Key, MarshalCounter(k) PROVE Same
      BY <2>2 DEF MarshalCounter, flushVars, histVars, TypeOK
    <2>3. ASSUME NEW k \in Key, MarshalRest(k) PROVE Same
      BY <2>3 DEF MarshalRest, flushVars, histVars, TypeOK
    <2> QED
      BY <2>1, <2>2, <2>3
  <1>2. Good
    <2>1. CASE Counters
      <3> DEFINE todo == {k \in Key : counters[k] # Absent}
                 new == [at |-> "marshal", todo |-> todo, key |-> Absent,
                         read |-> 0, reset |-> 0, shown |-> 0]
      <3>1. report' = new
        BY <2>1 DEF Counters
      <3>2. new \in Report
        BY DEF Report
      <3>3. new.read = 0 /\ new.at = "marshal"
        OBVIOUS
      <3> HIDE DEF new
      <3> QED
        BY <3>1, <3>2, <3>3 DEF NoReport
    <2>2. ASSUME NEW k \in Key, MarshalCounter(k) PROVE Good
      <3>1. /\ report \in Report /\ report # NoReport /\ report.read # 1
            /\ report' = IF counters[k] = Absent
                            THEN [report EXCEPT !.todo = @ \ {k}]
                            ELSE ReadField([report EXCEPT !.read = 0], k)
        BY <2>2 DEF MarshalCounter, TypeOK
      <3>2. report \in [at : {"marshal"}, todo : SUBSET Key, key : Key \cup {Absent},
                        read : 0..2, reset : Nat, shown : Nat]
        BY <3>1 DEF Report
      <3>3. CASE counters[k] = Absent
        <4> DEFINE new == [report EXCEPT !.todo = @ \ {k}]
        <4>1. report' = new
          BY <3>1, <3>3
        <4>2. new \in [at : {"marshal"}, todo : SUBSET Key, key : Key \cup {Absent},
                       read : 0..2, reset : Nat, shown : Nat]
          BY <3>2
        <4>3. /\ new.at = "marshal" /\ new.read = report.read
              /\ new.reset = report.reset /\ new.shown = report.shown
          BY <3>2
        <4> HIDE DEF new
        <4>4. new # NoReport /\ new \in Report
          BY <4>2, <4>3 DEF NoReport, Report
        <4> QED
          BY <3>1, <4>1, <4>3, <4>4 DEF ResetsAreShown
      <3>4. CASE counters[k] # Absent
        <4> DEFINE r == [report EXCEPT !.read = 0]
        <4>1. r \in [at : {"marshal"}, todo : SUBSET Key, key : Key \cup {Absent},
                     read : 0..2, reset : Nat, shown : Nat]
          BY <3>2
        <4>2. r.read = 0 /\ r.at = "marshal" /\ report' = ReadField(r, k)
          BY <3>1, <3>2, <3>4
        <4> HIDE DEF r
        <4>3. r \in Report /\ r # NoReport
          BY <4>1, <4>2 DEF Report, NoReport
        <4>4. /\ report' \in Report /\ report' # NoReport
              /\ report'.key = k /\ report'.read = 0 + 1
              /\ report'.reset <= Len(flushed[k])
          BY <4>2, <4>3, ReadFieldIs
        <4> QED
          BY <3>4, <4>4
      <3> QED
        BY <3>3, <3>4
    <2>3. ASSUME NEW k \in Key, MarshalRest(k) PROVE Good
      <3>1. Holds(k) /\ report' = ReadField(report, k)
        BY <2>3 DEF MarshalRest
      <3>2. /\ report' \in Report /\ report' # NoReport /\ report'.read = 2
            /\ report'.reset <= report'.shown
        BY <3>1, RestIs
      <3> QED
        BY <3>2
    <2> QED
      BY <2>1, <2>2, <2>3
  <1>3. TypeOK'
    BY <1>1, <1>2 DEF TypeOK, Report, NoReport
  <1>4. FlushInv' /\ CountInv' /\ WindowInv'
    BY <1>1, KeepCounters DEF flushVars, histVars
  <1>5. ReportInv' /\ ResetsAreShown'
    BY <1>1, <1>2 DEF ReportInv, ResetsAreShown, NoReport
  <1>6. PatternKeys'
    BY <1>1, KeepReply
  <1> QED
    BY <1>3, <1>4, <1>5, <1>6

-----------------------------------------------------------------------------
(* The invariant                                                           *)

\* It holds at the start ...
LEMMA StatsInit == Init => StatsInv
  <1> SUFFICES ASSUME Init PROVE StatsInv
    OBVIOUS
  <1>1. TypeOK
    <2>1. <<>> \in Seq(Int64) /\ 0 \in 0..MaxOps
      BY StatsAssumption
    <2>2. /\ values \in [Key -> {Absent} \cup Int64]
          /\ counters \in [Key -> {Absent} \cup Counter]
          /\ \A k \in Key : counters[k] = Absent
      BY DEF Init
    <2>3. /\ issued \in [Key -> Int] /\ taken \in [Key -> Int]
          /\ flushed \in [Key -> Seq(Int64)]
      BY <2>1 DEF Init
    <2>4. report \in Report
      BY DEF Init, Report
    <2>5. /\ ticker \in {"on", "stopping", "off"} /\ threw \in BOOLEAN
          /\ flushing \subseteq Key /\ half \in flushing \cup {Absent}
          /\ ops \in 0..MaxOps
      BY <2>1 DEF Init
    <2> QED
      BY <2>2, <2>3, <2>4, <2>5 DEF TypeOK
  <1>2. FlushInv /\ CountInv /\ WindowInv
    BY DEF Init, FlushInv, CountInv, WindowInv
  <1>3. ReportInv /\ ResetsAreShown
    BY DEF Init, ReportInv, ResetsAreShown
  <1>4. PatternKeys
    BY DEF Init, NoReply, PatternKeys
  <1> QED
    BY <1>1, <1>2, <1>3, <1>4 DEF StatsInv

\* ... and every step keeps it.
LEMMA StatsStep == StatsInv /\ [Next]_vars => StatsInv'
  <1> SUFFICES ASSUME StatsInv, [Next]_vars PROVE StatsInv'
    OBVIOUS
  <1>1. CASE UNCHANGED vars
    <2>1. /\ UNCHANGED <<counters, flushVars, histVars>>
          /\ UNCHANGED <<counters, flushed, report>>
          /\ values' = values /\ reply' = reply
      BY <1>1 DEF vars, histVars
    <2>2. TypeOK'
      BY <1>1 DEF StatsInv, TypeOK, vars, flushVars, histVars, Report, NoReport
    <2> QED
      BY <2>1, <2>2, KeepCounters, KeepReport, KeepReply DEF StatsInv
  <1>2. CASE Next
    <2>1. ASSUME NEW k \in Key, NEW n \in Amount,
                 \/ Set(k, n) \/ SetNx(k, n) \/ Incr(k, n) \/ Decr(k, n)
                 \/ Count(k, n)
          PROVE  StatsInv'
      BY <2>1, ValueCommands, CountStep
    <2>2. ASSUME NEW k \in Key, \/ Get(k) \/ Del(k) \/ FlushRecord(k)
                                \/ MarshalCounter(k) \/ MarshalRest(k)
          PROVE  StatsInv'
      BY <2>2, QuietCommands, DelStep, FlushRecordStep, ReportStep
    <2>3. CASE Rejected \/ Keys \/ FlushCounters \/ FlushReset
      BY <2>3, QuietCommands, KeysStep, FlushStep, FlushResetStep
    <2>4. CASE Unload \/ StopTicker \/ Counters \/ CountersReply \/ MapRace
      BY <2>4, OtherStep, ReportStep
    <2> QED
      BY <1>2, <2>1, <2>2, <2>3, <2>4 DEF Next
  <1> QED
    BY <1>1, <1>2

\* The inductive invariant of the counters.
LEMMA StatsInvariant == Spec => []StatsInv
  BY StatsInit, StatsStep, PTL DEF Spec

\* Whatever the amounts, every value and counter stays an int64 and no history
\* grows beyond maxCounterHistory (FlushCounters, IncrBy, DecrBy, CounterBy).
THEOREM TypeCorrect == Spec => []TypeOK
  <1>1. StatsInv => TypeOK
    BY DEF StatsInv
  <1> QED
    BY <1>1, StatsInvariant, PTL

\* COUNT loses nothing and counts nothing twice, across any flushes, deletions
\* and overflows: modulo 2^Bits, a counter holds what was put in and not taken.
THEOREM CountsConserved == Spec => []CountConserved
  <1>1. StatsInv => CountConserved
    <2> SUFFICES ASSUME StatsInv, NEW k \in Key, counters[k] # Absent, k # half
                 PROVE  Wrap(issued[k]) = Wrap(counters[k].value + taken[k])
      BY DEF CountConserved
    <2>1. Holding(k) = counters[k].value
      BY DEF Holding
    <2>2. /\ counters[k].value \in Int /\ issued[k] \in Int /\ taken[k] \in Int
          /\ Multiple(issued[k] - (counters[k].value + taken[k]))
      BY <2>1, CountInvIs DEF StatsInv
    <2>3. counters[k].value + taken[k] \in Int
      BY <2>2
    <2> QED
      BY <2>2, <2>3, WrapSame
  <1> QED
    BY <1>1, StatsInvariant, PTL

\* The history and rate of a counter are the last of its flushed counts, as many
\* as maxCounterHistory allows: FlushCounters trims the oldest and nothing else.
THEOREM HistoryIsWindow == Spec => []HistoryWindow
  <1>1. StatsInv => HistoryWindow
    <2> SUFFICES ASSUME StatsInv, NEW k \in Key, counters[k] # Absent
                 PROVE  LET all    == <<0>> \o flushed[k]
                            window == Append(counters[k].history, counters[k].rate)
                        IN  /\ IsSuffix(window, all)
                            /\ \/ Len(window) = Len(all)
                               \/ Len(window) = MaxHistory + 1
      BY DEF HistoryWindow
    <2>1. /\ counters[k] \in Counter /\ flushed[k] \in Seq(Int64)
          /\ WindowOK(counters[k], flushed[k])
      BY DEF StatsInv, TypeOK, WindowInv
    <2> QED
      BY <2>1, WindowIs
  <1> QED
    BY <1>1, StatsInvariant, PTL

\* COUNTERS, marshalling the map without the mutex, never shows a value that was
\* reset by a flush whose rate it does not show.
THEOREM ResetsShown == Spec => []ResetsAreShown
  <1>1. StatsInv => ResetsAreShown
    BY DEF StatsInv
  <1> QED
    BY <1>1, StatsInvariant, PTL

\* For any keys and patterns, KEYS a* and KEYS *a* list the matching keys and no
\* other, and KEYS a*b all of them.
THEOREM PatternsFound == Spec => []PatternKeys
  <1>1. StatsInv => PatternKeys
    BY DEF StatsInv
  <1> QED
    BY <1>1, StatsInvariant, PTL

=============================================================================
