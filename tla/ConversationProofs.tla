------------------------- MODULE ConversationProofs -------------------------
(***************************************************************************)
(* Safety of Conversation for every number of calls and keys and for any   *)
(* arguments: the wire format carries each request and each reply, and the *)
(* caller and the server stay in step.  The first part is about module     *)
(* Codec alone.                                                            *)
(***************************************************************************)
EXTENDS Conversation, SequenceTheorems, WellFoundedInduction, TLAPS

-----------------------------------------------------------------------------
(* Induction and recursion over a range of numbers.                        *)

\* A set of natural numbers that is not empty has a least element.
LEMMA LeastOf ==
    ASSUME NEW T, T \subseteq Nat, T # {}
    PROVE  \E x \in T : \A y \in T : x <= y
<1>1. \A x, y \in Nat : y < x => <<y, x>> \in OpToRel(<, Nat)
  BY DEF OpToRel
<1>2. PICK R : /\ IsWellFoundedOn(R, Nat)
               /\ \A x, y \in Nat : y < x => <<y, x>> \in R
  BY <1>1, NatLessThanWellFounded, Zenon
<1>3. PICK x \in T : \A y \in T : ~(<<y, x>> \in R)
  BY <1>2, WFMin
<1>4. ASSUME NEW y \in T PROVE x <= y
  <2>1. x \in Nat /\ y \in Nat
    OBVIOUS
  <2>2. ~(y < x)
    BY <1>2, <1>3, <2>1
  <2> QED
    BY <2>1, <2>2
<1> QED
  BY <1>4

\* A set that holds a number whenever it holds the smaller ones holds all.
LEMMA Strong ==
    ASSUME NEW n \in Nat, NEW T,
           \A i \in 0..n : (\A j \in 0..n : j < i => j \in T) => i \in T
    PROVE  \A i \in 0..n : i \in T
<1> SUFFICES ASSUME NEW i \in 0..n, i \notin T
             PROVE  FALSE
  OBVIOUS
<1> DEFINE Out == {j \in 0..n : j \notin T}
<1>1. Out \subseteq Nat /\ Out # {}
  OBVIOUS
<1>2. PICK x \in Out : \A y \in Out : x <= y
  BY <1>1, LeastOf
<1>3. \A j \in 0..n : j < x => j \in T
  BY <1>2
<1> QED
  BY <1>2, <1>3

\* A set that holds 0 and the successor of each of its numbers holds all.
LEMMA Induct ==
    ASSUME NEW n \in Nat, NEW T, 0 \in T,
           \A i \in 0..n : i < n /\ i \in T => i + 1 \in T
    PROVE  \A i \in 0..n : i \in T
<1>1. ASSUME NEW i \in 0..n, \A j \in 0..n : j < i => j \in T
      PROVE  i \in T
  <2>1. CASE i = 0
    BY <2>1
  <2>2. CASE i # 0
    <3>1. i - 1 \in 0..n /\ i - 1 < i /\ i - 1 < n /\ (i - 1) + 1 = i
      BY <2>2
    <3> QED
      BY <1>1, <3>1
  <2> QED
    BY <2>1, <2>2
<1> QED
  BY <1>1, Strong

\* There is a function with a first value and with each value computed from
\* the one before it.
Iterates(f, n, S, a, g) == /\ f \in [0..n -> S] /\ f[0] = a
                           /\ \A i \in 1..n : f[i] = g[i][f[i - 1]]

\* Iterating step functions over a range has a result.
LEMMA Recursion ==
    ASSUME NEW n \in Nat, NEW S, NEW a \in S, NEW g \in [1..n -> [S -> S]]
    PROVE  \E f : Iterates(f, n, S, a, g)
<1> DEFINE Good(f, k) == /\ f \in [0..k -> S] /\ f[0] = a
                         /\ \A i \in 1..k : f[i] = g[i][f[i - 1]]
           T == {k \in 0..n : \E f : Good(f, k)}
<1>1. 0 \in T
  <2>1. Good([i \in 0..0 |-> a], 0)
    OBVIOUS
  <2> HIDE DEF Good
  <2> QED
    BY <2>1
<1>2. ASSUME NEW k \in 0..n, k < n, k \in T
      PROVE  k + 1 \in T
  <2>1. PICK f : Good(f, k)
    BY <1>2
  <2> DEFINE h == [i \in 0..k + 1 |-> IF i = k + 1 THEN g[k + 1][f[k]] ELSE f[i]]
  <2>2. k + 1 \in 1..n /\ g[k + 1] \in [S -> S] /\ f[k] \in S
    BY <2>1, <1>2
  <2>3. h \in [0..k + 1 -> S] /\ h[0] = a
    BY <2>1, <2>2
  <2>4. ASSUME NEW i \in 1..k + 1 PROVE h[i] = g[i][h[i - 1]]
    <3>1. CASE i = k + 1
      BY <3>1, <2>1
    <3>2. CASE i # k + 1
      <4>1. i \in 1..k /\ i \in 0..k + 1 /\ i - 1 \in 0..k + 1 /\ i - 1 # k + 1
        BY <3>2
      <4>2. h[i] = f[i] /\ h[i - 1] = f[i - 1]
        BY <3>2, <4>1
      <4> QED
        BY <4>1, <4>2, <2>1
    <3> QED
      BY <3>1, <3>2
  <2>5. Good(h, k + 1)
    BY <2>3, <2>4
  <2>6. k + 1 \in 0..n
    BY <1>2
  <2> QED
    BY <2>5, <2>6
<1> HIDE DEF T
<1>3. n \in T
  <2>1. \A k \in 0..n : k < n /\ k \in T => k + 1 \in T
    BY <1>2
  <2>2. \A k \in 0..n : k \in T
    BY <1>1, <2>1, Induct
  <2> QED
    BY <2>2
<1>4. PICK f : Good(f, n)
  <2> HIDE DEF Good
  <2> QED
    BY <1>3 DEF T
<1> QED
  BY <1>4 DEF Iterates


-----------------------------------------------------------------------------
(* Lines                                                                   *)

USE DEF Text

\* Where the first c is.
LEMMA FirstIs ==
    ASSUME NEW s \in Text, NEW c, NEW i \in 1..Len(s), s[i] = c,
           \A j \in 1..i - 1 : s[j] # c
    PROVE  Index(s, c) = i
<1> DEFINE I == {j \in 1..Len(s) : s[j] = c}
<1>1. i \in I /\ \A j \in I : i <= j
  OBVIOUS
<1>2. \A x \in I : (\A y \in I : x <= y) => x = i
  <2> SUFFICES ASSUME NEW x \in I, \A y \in I : x <= y PROVE x = i
    OBVIOUS
  <2>1. x <= i /\ i <= x /\ x \in Int /\ i \in Int
    BY <1>1
  <2> QED
    BY <2>1
<1>3. Min(I) = i
  <2> HIDE DEF I
  <2> QED
    BY <1>1, <1>2 DEF Min
<1> QED
  BY <1>1, <1>3 DEF Index, SelectInSeq

\* A sequence without c.
LEMMA NoneIs ==
    ASSUME NEW s \in Text, NEW c, \A j \in 1..Len(s) : s[j] # c
    PROVE  Index(s, c) = 0
  BY DEF Index, SelectInSeq

\* What a sequence does not hold is at none of its places.
LEMMA NotIn ==
    ASSUME NEW s \in Text, NEW c
    PROVE  c \notin ToSet(s) <=> \A j \in 1..Len(s) : s[j] # c
  BY DEF ToSet

\* The symbols of the format can be on a wire.
LEMMA SymbolIs ==
    /\ CR \in Symbols /\ LF \in Symbols /\ SP \in Symbols
    /\ "$" \in Symbols /\ "*" \in Symbols /\ "&" \in Symbols /\ "+" \in Symbols
    /\ ":" \in Symbols /\ "." \in Symbols /\ "?" \in Symbols /\ "-" \in Symbols
    /\ "~" \in Symbols /\ "ERR " \in Symbols /\ "json" \in Symbols
    /\ "true" \in Symbols /\ "false" \in Symbols /\ "[" \in Symbols
    /\ "]" \in Symbols /\ "<nil>" \in Symbols /\ Code \in Symbols
    /\ \A d \in ToSet(Digits) : d \in Symbols
  BY CodecAssumption

\* The numbers of the format.
LEMMA SizeIs == BufferSize \in Nat /\ 5 <= BufferSize /\ MaxLength \in Nat
  BY CodecAssumption

\* A line and its LF, and what follows.
LEMMA SliceIs ==
    ASSUME NEW a \in Text, NEW t \in Text, LF \notin ToSet(a)
    PROVE  ReadSlice((a \o <<LF>>) \o t) =
             IF Len(a) + 1 <= BufferSize THEN Ok(a \o <<LF>>, t) ELSE Err
<1> DEFINE s == (a \o <<LF>>) \o t
           n == Len(a) + 1
<1>0. LF \in Symbols
  BY SymbolIs
<1>1. s \in Text /\ n \in 1..Len(s) /\ s[n] = LF
  BY <1>0
<1>2. \A j \in 1..n - 1 : s[j] # LF
  BY NotIn
<1>3. Index(s, LF) = n
  BY <1>1, <1>2, FirstIs
<1>4. SubSeq(s, 1, n) = a \o <<LF>> /\ Drop(s, n) = t
  BY <1>1 DEF Drop
<1>6. ReadSlice(s) = IF n <= BufferSize THEN Ok(a \o <<LF>>, t) ELSE Err
  <2> HIDE DEF s, n
  <2>1. n \in Nat /\ n > 0
    BY <1>1
  <2>2. n \in 1..BufferSize <=> n <= BufferSize
    BY SizeIs, <2>1
  <2>3. ReadSlice(s) = IF n \in 1..BufferSize
                         THEN Ok(SubSeq(s, 1, n), Drop(s, n))
                         ELSE IF n = 0 /\ Len(s) < BufferSize THEN More
                         ELSE Err
    BY <1>3 DEF ReadSlice
  <2>4. Ok(SubSeq(s, 1, n), Drop(s, n)) = Ok(a \o <<LF>>, t)
    BY <1>4
  <2>5. ~(n = 0)
    BY <2>1
  <2> QED
    BY <2>2, <2>3, <2>4, <2>5, Zenon
<1> QED
  BY <1>6


\* What a reader found.
LEMMA Found ==
    ASSUME NEW v, NEW rest
    PROVE  /\ Ok(v, rest).st = "ok" /\ Ok(v, rest).val = v
           /\ Ok(v, rest).rest = rest
           /\ Err.st = "err" /\ More.st = "more"
  BY DEF Ok, Err, More

\* ReadLine and ReadLineInvariant, in terms of ReadSlice.
LEMMA ReadLineIs ==
    ASSUME NEW s, NEW packet, NEW rest, ReadSlice(s) = Ok(packet, rest)
    PROVE  ReadLine(s) =
             IF Len(packet) - 1 > 0 /\ packet[Len(packet) - 1] = CR
               THEN Ok(SubSeq(packet, 1, Len(packet) - 1 - 1), rest) ELSE Err
  BY Found DEF ReadLine, Then

\* A reader that does not get its line returns what ReadSlice returned.
LEMMA NoLine ==
    ASSUME NEW s, ReadSlice(s).st # "ok"
    PROVE  ReadLine(s) = ReadSlice(s) /\ ReadLineInvariant(s) = ReadSlice(s)
  BY DEF ReadLine, ReadLineInvariant, Then

\* A line without a LF, CR LF and what follows.
LEMMA LineIs ==
    ASSUME NEW l \in Text, NEW t \in Text, LF \notin ToSet(l)
    PROVE  ReadLine((l \o Delims) \o t) =
             IF Len(l) + 2 <= BufferSize THEN Ok(l, t) ELSE Err
<1> DEFINE a == l \o <<CR>>
           s == (l \o Delims) \o t
<1>1. CR \in Symbols /\ LF \in Symbols /\ CR # LF
  BY SymbolIs DEF CR, LF
<1>2. a \in Text /\ Len(a) = Len(l) + 1
  BY <1>1
<1>3. LF \notin ToSet(a)
  <2>1. \A j \in 1..Len(l) : l[j] # LF
    BY NotIn
  <2>2. \A j \in 1..Len(a) : a[j] # LF
    BY <1>1, <2>1
  <2> QED
    BY <1>2, <2>2, NotIn
<1>4. s = (a \o <<LF>>) \o t
  BY <1>1 DEF Delims
<1>5. ReadSlice(s) =
        IF Len(a) + 1 <= BufferSize THEN Ok(a \o <<LF>>, t) ELSE Err
  BY <1>2, <1>3, <1>4, SliceIs, Zenon
<1>6. CASE Len(l) + 2 <= BufferSize
  <2> DEFINE packet == a \o <<LF>>
  <2>1. ReadSlice(s) = Ok(packet, t)
    <3>1. Len(a) + 1 <= BufferSize
      BY <1>2, <1>6, SizeIs
    <3> QED
      BY <3>1, <1>5
  <2>2. /\ Len(packet) = Len(l) + 2 /\ packet[Len(l) + 1] = CR
        /\ SubSeq(packet, 1, Len(l)) = l
    BY <1>1, <1>2
  <2>3. /\ Len(packet) - 1 = Len(l) + 1 /\ Len(packet) - 1 > 0
        /\ Len(packet) - 1 - 1 = Len(l)
    BY <2>2
  <2> HIDE DEF packet, s
  <2>4. ReadLine(s) = Ok(l, t)
    BY <2>1, <2>2, <2>3, ReadLineIs, Zenon
  <2> QED
    BY <1>6, <2>4 DEF s
<1>7. CASE ~(Len(l) + 2 <= BufferSize)
  <2>1. ReadSlice(s) = Err
    <3>1. ~(Len(a) + 1 <= BufferSize)
      BY <1>2, <1>7, SizeIs
    <3> QED
      BY <3>1, <1>5
  <2>2. ReadLine(s) = Err
    BY <2>1, NoLine, Found
  <2> QED
    BY <1>7, <2>2
<1> QED
  BY <1>6, <1>7


\* A sequence is what is before an element, the element and what is after it.
LEMMA CutAt ==
    ASSUME NEW S, NEW l \in Seq(S), NEW i \in 1..Len(l)
    PROVE  l = (SubSeq(l, 1, i - 1) \o <<l[i]>>) \o SubSeq(l, i + 1, Len(l))
<1>1. SubSeq(l, 1, Len(l)) = l
  BY SubSeqFull
<1>2. SubSeq(l, 1, i) \o SubSeq(l, i + 1, Len(l)) = SubSeq(l, 1, Len(l))
  <2>1. /\ 1 \in 1..Len(l) + 1 /\ i \in 1 - 1..Len(l)
        /\ Len(l) \in i..Len(l)
    OBVIOUS
  <2> QED
    BY <2>1, ConcatAdjacentSubSeq
<1>3. SubSeq(l, 1, i) = SubSeq(l, 1, i - 1) \o <<l[i]>>
  <2>1. 1 \in 1..Len(l) /\ i \in 1..Len(l)
    OBVIOUS
  <2> QED
    BY <2>1, SubSeqRecursiveSecond
<1> QED
  BY <1>1, <1>2, <1>3, Zenon

\* A LF in a line where no CR LF is makes it unreadable.
LEMMA BadLineIs ==
    ASSUME NEW l \in Text, NEW t \in Text, LF \in ToSet(l), ~HasCRLF(l)
    PROVE  ReadLine((l \o Delims) \o t) = Err
<1> DEFINE s == (l \o Delims) \o t
           Is == {i \in 1..Len(l) : l[i] = LF}
<1>1. CR \in Symbols /\ LF \in Symbols
  BY SymbolIs
<1>2. Is \subseteq Nat /\ Is # {}
  BY DEF ToSet
<1>3. PICK i \in Is : \A j \in Is : i <= j
  BY <1>2, LeastOf
<1>4. i \in 1..Len(l) /\ l[i] = LF /\ \A j \in 1..i - 1 : l[j] # LF
  BY <1>3
<1> DEFINE a == SubSeq(l, 1, i - 1)
           u == (SubSeq(l, i + 1, Len(l)) \o Delims) \o t
<1>5. /\ a \in Text /\ Len(a) = i - 1 /\ u \in Text
      /\ \A j \in 1..i - 1 : a[j] = l[j]
  BY <1>1, <1>4 DEF Delims
<1>6. LF \notin ToSet(a)
  BY <1>4, <1>5, NotIn
<1>7. s = (a \o <<LF>>) \o u
  <2>1. l = (a \o <<LF>>) \o SubSeq(l, i + 1, Len(l))
    BY <1>4, CutAt
  <2> DEFINE b == SubSeq(l, i + 1, Len(l))
             c == a \o <<LF>>
  <2>2. b \in Text /\ c \in Text /\ Delims \in Text
    BY <1>1, <1>4 DEF Delims
  <2>3. l = c \o b
    BY <2>1
  <2> HIDE DEF b, c, a
  <2>4. ((c \o b) \o Delims) \o t = c \o ((b \o Delims) \o t)
    BY <2>2, SMTT(40)
  <2> QED
    BY <2>3, <2>4 DEF b, c
<1> HIDE DEF a, u
<1>8. ReadSlice(s) =
        IF Len(a) + 1 <= BufferSize THEN Ok(a \o <<LF>>, u) ELSE Err
  BY <1>5, <1>6, <1>7, SliceIs, Zenon
<1>9. CASE ReadSlice(s) = Ok(a \o <<LF>>, u)
  <2> DEFINE packet == a \o <<LF>>
  <2>1. Len(packet) = i /\ (i - 1 > 0 => packet[i - 1] = l[i - 1])
    BY <1>1, <1>4, <1>5
  <2>2. i - 1 > 0 => l[i - 1] # CR
    <3> SUFFICES ASSUME i - 1 > 0, l[i - 1] = CR PROVE FALSE
      OBVIOUS
    <3>1. i - 1 \in 1..Len(l) - 1 /\ (i - 1) + 1 = i
      BY <1>4
    <3>2. l[i - 1] = CR /\ l[(i - 1) + 1] = LF
      BY <1>4, <3>1
    <3> QED
      BY <3>1, <3>2 DEF HasCRLF
  <2>3. ~(Len(packet) - 1 > 0 /\ packet[Len(packet) - 1] = CR)
    BY <2>1, <2>2
  <2> HIDE DEF packet, s
  <2>4. ReadSlice(s) = Ok(packet, u)
    BY <1>9 DEF packet
  <2>5. ReadLine(s) = Err
    BY <2>3, <2>4, ReadLineIs, Zenon
  <2> QED
    BY <2>5 DEF s
<1>10. CASE ReadSlice(s) = Err
  BY <1>10, NoLine, Found
<1> QED
  BY <1>8, <1>9, <1>10


\* ReadPrefixed, in terms of ReadLine.
LEMMA PrefixedIs ==
    ASSUME NEW s, NEW line, NEW rest
    PROVE  /\ ReadLine(s) = Ok(line, rest)
                => ReadPrefixed(s) = IF Len(line) < 2 THEN Err ELSE Ok(line, rest)
           /\ ReadLine(s).st # "ok" => ReadPrefixed(s) = ReadLine(s)
  BY Found DEF ReadPrefixed, Then

\* A line that begins with a prefix.
LEMMA TaggedIs ==
    ASSUME NEW p \in Symbols, p \notin {CR, LF}, NEW l \in Text, NEW t \in Text
    PROVE  /\ Readable(l) => ReadPrefixed(((<<p>> \o l) \o Delims) \o t) =
                               Ok(<<p>> \o l, t)
           /\ ~Readable(l) /\ ~HasCRLF(l)
                => ReadPrefixed(((<<p>> \o l) \o Delims) \o t) = Err
<1> DEFINE line == <<p>> \o l
           s == (line \o Delims) \o t
<1>1. line \in Text /\ Len(line) = Len(l) + 1 /\ Len(l) \in Nat
  OBVIOUS
<1>2. LF \in ToSet(line) <=> LF \in ToSet(l)
  <2>1. (\A j \in 1..Len(line) : line[j] # LF) <=> \A j \in 1..Len(l) : l[j] # LF
    <3>1. \A j \in 1..Len(l) : line[j + 1] = l[j]
      OBVIOUS
    <3>2. ASSUME \A j \in 1..Len(line) : line[j] # LF, NEW j \in 1..Len(l)
          PROVE  l[j] # LF
      <4>1. j + 1 \in 1..Len(line)
        BY <1>1
      <4> QED
        BY <3>1, <3>2, <4>1
    <3>3. ASSUME \A j \in 1..Len(l) : l[j] # LF, NEW j \in 1..Len(line)
          PROVE  line[j] # LF
      BY <3>3
    <3> QED
      BY <3>2, <3>3
  <2> QED
    BY <2>1, <1>1, NotIn
<1>3. ~HasCRLF(l) => ~HasCRLF(line)
  <2> SUFFICES ASSUME NEW i \in 1..Len(line) - 1, line[i] = CR,
                      line[i + 1] = LF, ~HasCRLF(l)
               PROVE  FALSE
    BY DEF HasCRLF
  <2>1. CASE i = 1
    <3>1. line[2] = l[1] /\ 1 \in 1..Len(l)
      BY <2>1, <1>1
    <3>2. line[1] = p
      OBVIOUS
    <3> QED
      BY <2>1, <3>1, <3>2
  <2>2. CASE i # 1
    <3>1. i - 1 \in 1..Len(l) - 1 /\ line[i] = l[i - 1] /\ line[i + 1] = l[i]
      BY <2>2, <1>1
    <3>2. l[(i - 1) + 1] = LF /\ l[i - 1] = CR
      BY <3>1
    <3> QED
      BY <3>1, <3>2 DEF HasCRLF
  <2> QED
    BY <2>1, <2>2
<1> HIDE DEF line
<1>4. CASE LF \in ToSet(l)
  <2>1. ~HasCRLF(l) => ReadLine(s) = Err
    BY <1>1, <1>2, <1>3, <1>4, BadLineIs
  <2>2. ~Readable(l)
    BY <1>4 DEF Readable
  <2> QED
    BY <2>1, <2>2, PrefixedIs, Found DEF line
<1>5. CASE LF \notin ToSet(l)
  <2>1. ReadLine(s) = IF Len(line) + 2 <= BufferSize THEN Ok(line, t) ELSE Err
    BY <1>1, <1>2, <1>5, LineIs
  <2>2. CASE Len(line) + 2 <= BufferSize
    <3>1. ReadPrefixed(s) = IF Len(line) < 2 THEN Err ELSE Ok(line, t)
      BY <2>1, <2>2, PrefixedIs
    <3>2. Len(line) < 2 <=> l = <<>>
      BY <1>1
    <3>3. Readable(l) <=> l # <<>>
      BY <1>1, <1>5, <2>2, SizeIs DEF Readable
    <3> QED
      BY <3>1, <3>2, <3>3 DEF line
  <2>3. CASE ~(Len(line) + 2 <= BufferSize)
    <3>1. ReadPrefixed(s) = Err
      BY <2>1, <2>3, PrefixedIs, Found
    <3>2. ~Readable(l)
      BY <1>1, <2>3, SizeIs DEF Readable
    <3> QED
      BY <3>1, <3>2 DEF line
  <2> QED
    BY <2>2, <2>3
<1> QED
  BY <1>4, <1>5


-----------------------------------------------------------------------------
(* Numbers                                                                 *)

Decimal == ToSet(Digits)
Numeral == Decimal \cup Signs

\* A digit stands for its value.
LEMMA DigitIs ==
    /\ \A n \in 0..9 : Digit(n) \in Decimal /\ DigitValue(Digit(n)) = n
    /\ \A ch \in Decimal : DigitValue(ch) \in 0..9
    /\ Decimal \subseteq Symbols
    /\ "-" \notin Decimal /\ LF \notin Decimal /\ CR \notin Decimal
    /\ "." \notin Decimal
    /\ "-" \in Signs /\ \A ch \in Signs : ch \in Symbols /\ ch \notin Decimal
<1>1. Decimal = {"0", "1", "2", "3", "4", "5", "6", "7", "8", "9"}
  BY DEF Decimal, ToSet, Digits
<1>2. /\ Digit(0) = "0" /\ Digit(1) = "1" /\ Digit(2) = "2" /\ Digit(3) = "3"
      /\ Digit(4) = "4" /\ Digit(5) = "5" /\ Digit(6) = "6" /\ Digit(7) = "7"
      /\ Digit(8) = "8" /\ Digit(9) = "9"
  BY DEF Digit, Digits
<1>3. \A n \in 0..9 : n = 0 \/ n = 1 \/ n = 2 \/ n = 3 \/ n = 4 \/ n = 5
                      \/ n = 6 \/ n = 7 \/ n = 8 \/ n = 9
  OBVIOUS
<1>4. \A n \in 0..9 : Digit(n) \in Decimal
  BY <1>1, <1>2, <1>3
<1>5. \A n, m \in 0..9 : Digit(n) = Digit(m) => n = m
  BY <1>2, <1>3
<1>6. \A n \in 0..9 : DigitValue(Digit(n)) = n
  BY <1>5 DEF DigitValue
<1>7. \A ch \in Decimal : \E n \in 0..9 : Digit(n) = ch
  BY <1>1, <1>2
<1>8. \A ch \in Decimal : DigitValue(ch) \in 0..9
  BY <1>6, <1>7
<1>9. "-" \notin Decimal /\ LF \notin Decimal /\ CR \notin Decimal
      /\ "." \notin Decimal
  BY <1>1 DEF LF, CR
<1>10. Decimal \subseteq Symbols
  BY SymbolIs DEF Decimal
<1>11. "-" \in Signs /\ \A ch \in Signs : ch \in Symbols /\ ch \notin Decimal
  BY <1>1, SymbolIs DEF Signs
<1> QED
  BY <1>4, <1>6, <1>8, <1>9, <1>10, <1>11


\* The values of the prefixes of a numeral.
IsValue(f, s) ==
    /\ f \in [0..Len(s) -> Int] /\ f[0] = 0
    /\ \A i \in 1..Len(s) :
         f[i] = IF s[i] \in Signs THEN 0 ELSE 10 * f[i - 1] + DigitValue(s[i])

\* ParseInt64 computes the value of every prefix.
LEMMA ParseIs ==
    ASSUME NEW s \in Seq(Numeral)
    PROVE  \E f : /\ IsValue(f, s)
                  /\ ParseInt64(s) = IF Head(s) = "-" THEN -f[Len(s)]
                                                      ELSE f[Len(s)]
<1> DEFINE n == Len(s)
           g == [i \in 1..n |-> [v \in Int |->
                   IF s[i] \in Signs THEN 0 ELSE 10 * v + DigitValue(s[i])]]
           value == CHOOSE f : f = [i \in 0..n |->
                      IF i = 0 THEN 0
                      ELSE IF s[i] \in Signs THEN 0
                      ELSE 10 * f[i - 1] + DigitValue(s[i])]
<1>0. n \in Nat
  OBVIOUS
<1>1. \A i \in 1..n : s[i] \notin Signs => DigitValue(s[i]) \in Int
  BY DigitIs DEF Numeral
<1>2. g \in [1..n -> [Int -> Int]]
  BY <1>1
<1>3. PICK f \in [0..n -> Int] :
        f[0] = 0 /\ \A i \in 1..n : f[i] = g[i][f[i - 1]]
  <2> DEFINE S == Int
  <2>1. n \in Nat /\ 0 \in S /\ g \in [1..n -> [S -> S]]
    BY <1>2
  <2> HIDE DEF g, n, S
  <2>2. \E f : Iterates(f, n, S, 0, g)
    BY <2>1, Recursion
  <2> QED
    BY <2>2 DEF S, Iterates
<1>4. f = [i \in 0..n |-> IF i = 0 THEN 0
                          ELSE IF s[i] \in Signs THEN 0
                          ELSE 10 * f[i - 1] + DigitValue(s[i])]
  <2>1. ASSUME NEW i \in 1..n
        PROVE  f[i] = IF s[i] \in Signs THEN 0 ELSE 10 * f[i - 1] + DigitValue(s[i])
    <3>1. i - 1 \in 0..n
      OBVIOUS
    <3>2. f[i - 1] \in Int /\ f[i] = g[i][f[i - 1]]
      BY <1>3, <3>1
    <3> QED
      BY <3>2
  <2> HIDE DEF g
  <2> QED
    BY <1>3, <2>1
<1>5. value = [i \in 0..n |-> IF i = 0 THEN 0
                              ELSE IF s[i] \in Signs THEN 0
                              ELSE 10 * value[i - 1] + DigitValue(s[i])]
  BY <1>4
<1>6. ParseInt64(s) = IF Head(s) = "-" THEN -value[Len(s)] ELSE value[Len(s)]
  BY DEF ParseInt64
<1> HIDE DEF value, g
<1>7. \A i \in 0..n : value[i] \in Int
  <2> DEFINE T == {i \in 0..n : value[i] \in Int}
  <2>1. 0 \in T
    BY <1>5
  <2>2. \A i \in 0..n : i < n /\ i \in T => i + 1 \in T
    <3> SUFFICES ASSUME NEW i \in 0..n, i < n, i \in T PROVE i + 1 \in T
      OBVIOUS
    <3>1. i + 1 \in 0..n /\ (i + 1) - 1 = i /\ i + 1 # 0 /\ i + 1 \in 1..n
      OBVIOUS
    <3>2. value[i + 1] = IF s[i + 1] \in Signs THEN 0
                         ELSE 10 * value[i] + DigitValue(s[i + 1])
      BY <1>5, <3>1
    <3> QED
      BY <1>1, <3>1, <3>2
  <2> HIDE DEF T, n
  <2>3. \A i \in 0..n : i \in T
    BY <1>0, <2>1, <2>2, Induct
  <2> QED
    BY <2>3 DEF T
<1>8. IsValue(value, s)
  <2>1. value \in [0..n -> Int] /\ value[0] = 0
    BY <1>0, <1>5, <1>7
  <2>2. \A i \in 1..n : value[i] = IF s[i] \in Signs THEN 0
                                    ELSE 10 * value[i - 1] + DigitValue(s[i])
    BY <1>0, <1>5
  <2> QED
    BY <2>1, <2>2 DEF IsValue
<1> QED
  BY <1>6, <1>8


\* s is in u, after d symbols.
Inside(s, u, d) == /\ d + Len(s) <= Len(u)
                   /\ \A i \in 1..Len(s) : u[i + d] = s[i]

\* A numeral has the same values inside a longer one, after a place of value 0.
LEMMA ValuesAgree ==
    ASSUME NEW s \in Seq(Numeral), NEW u \in Seq(Numeral), NEW d \in Nat,
           NEW f, NEW g, IsValue(f, s), IsValue(g, u), Inside(s, u, d),
           g[d] = 0
    PROVE  g[Len(s) + d] = f[Len(s)]
<1> DEFINE n == Len(s)
           T == {i \in 0..n : g[i + d] = f[i]}
<1>0. n \in Nat
  OBVIOUS
<1>1. 0 \in T
  BY DEF IsValue
<1>2. \A i \in 0..n : i < n /\ i \in T => i + 1 \in T
  <2> SUFFICES ASSUME NEW i \in 0..n, i < n, i \in T PROVE i + 1 \in T
    OBVIOUS
  <2>1. /\ i + 1 \in 1..Len(s) /\ (i + 1) + d \in 1..Len(u)
        /\ (i + 1) - 1 = i /\ ((i + 1) + d) - 1 = i + d
    BY DEF Inside
  <2>2. f[i + 1] = IF s[i + 1] \in Signs THEN 0
                   ELSE 10 * f[i] + DigitValue(s[i + 1])
    BY <2>1 DEF IsValue
  <2>3. g[(i + 1) + d] = IF u[(i + 1) + d] \in Signs THEN 0
                         ELSE 10 * g[i + d] + DigitValue(u[(i + 1) + d])
    BY <2>1 DEF IsValue
  <2>4. u[(i + 1) + d] = s[i + 1] /\ g[i + d] = f[i]
    BY <2>1 DEF Inside
  <2>5. g[(i + 1) + d] = f[i + 1] /\ i + 1 \in 0..n
    BY <2>1, <2>2, <2>3, <2>4
  <2> QED
    BY <2>5
<1> HIDE DEF T, n
<1>3. \A i \in 0..n : i \in T
  BY <1>0, <1>1, <1>2, Induct
<1>4. n \in T
  BY <1>0, <1>3
<1> QED
  BY <1>4 DEF T, n

\* What ParseInt64 makes of a digit, of one more digit, and of a sign.
LEMMA ParseDigit ==
    ASSUME NEW ch \in Decimal
    PROVE  ParseInt64(<<ch>>) = DigitValue(ch)
<1>1. <<ch>> \in Seq(Numeral) /\ Len(<<ch>>) = 1 /\ Head(<<ch>>) = ch
      /\ <<ch>>[1] = ch /\ ch # "-" /\ ch \notin Signs
  BY DigitIs DEF Numeral
<1>2. PICK f : /\ IsValue(f, <<ch>>)
               /\ ParseInt64(<<ch>>) = IF Head(<<ch>>) = "-"
                                         THEN -f[Len(<<ch>>)] ELSE f[Len(<<ch>>)]
  BY <1>1, ParseIs
<1>3. f[1] = 10 * f[0] + DigitValue(ch) /\ f[0] = 0
  BY <1>1, <1>2 DEF IsValue
<1>4. DigitValue(ch) \in Int
  BY DigitIs
<1> QED
  BY <1>1, <1>2, <1>3, <1>4

\* One more decimal digit: ten times the number, and the digit.
LEMMA ParseAppend ==
    ASSUME NEW s \in Seq(Decimal), s # <<>>, NEW ch \in Decimal
    PROVE  /\ ParseInt64(s) \in Int
           /\ ParseInt64(Append(s, ch)) = 10 * ParseInt64(s) + DigitValue(ch)
<1> DEFINE u == Append(s, ch)
<1>1. s \in Seq(Numeral) /\ u \in Seq(Numeral)
  BY DEF Numeral
<1>2. /\ Len(u) = Len(s) + 1 /\ u[Len(s) + 1] = ch /\ Len(s) \in Nat /\ Len(s) > 0
      /\ \A i \in 1..Len(s) : u[i] = s[i]
  OBVIOUS
<1>3. Head(s) # "-" /\ Head(u) # "-" /\ ch \notin Signs
  <2>1. s[1] \in Decimal /\ u[1] = s[1] /\ Head(s) = s[1] /\ Head(u) = u[1]
    BY <1>2
  <2> QED
    BY <2>1, DigitIs
<1>4. PICK f : IsValue(f, s) /\ ParseInt64(s) = f[Len(s)]
  BY <1>1, <1>3, ParseIs
<1>5. PICK g : IsValue(g, u) /\ ParseInt64(u) = g[Len(u)]
  BY <1>1, <1>3, ParseIs
<1> HIDE DEF u
<1>7. g[Len(s)] = f[Len(s)]
  <2>1. Inside(s, u, 0)
    BY <1>2 DEF Inside
  <2>2. g[0] = 0
    BY <1>5 DEF IsValue
  <2>3. g[Len(s) + 0] = f[Len(s)]
    BY <1>1, <1>4, <1>5, <2>1, <2>2, ValuesAgree
  <2> QED
    BY <1>2, <2>3
<1>8. g[Len(s) + 1] = 10 * g[Len(s)] + DigitValue(ch)
  <2>1. Len(s) + 1 \in 1..Len(u) /\ (Len(s) + 1) - 1 = Len(s)
    BY <1>2
  <2> QED
    BY <1>2, <1>3, <1>5, <2>1 DEF IsValue
<1>9. f[Len(s)] \in Int
  BY <1>2, <1>4 DEF IsValue
<1> QED
  BY <1>2, <1>4, <1>5, <1>7, <1>8, <1>9 DEF u

\* A minus sign negates the number, a plus sign does not.
LEMMA ParseSigned ==
    ASSUME NEW sign \in Signs, NEW s \in Seq(Decimal), s # <<>>
    PROVE  ParseInt64(<<sign>> \o s) =
             IF sign = "-" THEN -ParseInt64(s) ELSE ParseInt64(s)
<1> DEFINE u == <<sign>> \o s
<1>1. s \in Seq(Numeral) /\ u \in Seq(Numeral)
  BY DEF Numeral
<1>2. /\ Len(u) = Len(s) + 1 /\ u[1] = sign /\ Len(s) \in Nat /\ Len(s) > 0
      /\ \A i \in 1..Len(s) : u[i + 1] = s[i]
  OBVIOUS
<1>3. Head(s) # "-" /\ Head(u) = sign
  <2>1. s[1] \in Decimal /\ Head(s) = s[1] /\ Head(u) = u[1]
    BY <1>2
  <2> QED
    BY <1>2, <2>1, DigitIs
<1>4. PICK f : IsValue(f, s) /\ ParseInt64(s) = f[Len(s)]
  BY <1>1, <1>3, ParseIs
<1>5. PICK g : /\ IsValue(g, u)
               /\ ParseInt64(u) = IF sign = "-" THEN -g[Len(u)] ELSE g[Len(u)]
  BY <1>1, <1>3, ParseIs
<1> HIDE DEF u
<1>7. g[Len(s) + 1] = f[Len(s)]
  <2>1. Inside(s, u, 1) /\ 1 \in 1..Len(u)
    BY <1>2 DEF Inside
  <2>2. g[1] = 0
    BY <1>2, <1>5, <2>1 DEF IsValue
  <2> QED
    BY <1>1, <1>4, <1>5, <2>1, <2>2, ValuesAgree
<1> QED
  BY <1>2, <1>4, <1>5, <1>7 DEF u

\* A minus sign negates the number.
LEMMA ParseNegative ==
    ASSUME NEW s \in Seq(Decimal), s # <<>>
    PROVE  ParseInt64(<<"-">> \o s) = -ParseInt64(s)
  BY ParseSigned, DigitIs


\* The digits of the numbers up to k.
IsDigits(f, k) == \A m \in 0..k :
    f[m] = IF m < 10 THEN <<Digit(m)>> ELSE Append(f[m \div 10], Digit(m % 10))

\* There are such functions.
LEMMA DigitsExist ==
    ASSUME NEW n \in Nat
    PROVE  \E f : DOMAIN f = 0..n /\ IsDigits(f, n)
<1> DEFINE Good(f, k) == DOMAIN f = 0..k /\ IsDigits(f, k)
           T == {k \in 0..n : \E f : Good(f, k)}
<1>1. 0 \in T
  <2>1. Good([m \in 0..0 |-> <<Digit(m)>>], 0)
    BY DEF IsDigits
  <2> HIDE DEF Good
  <2> QED
    BY <2>1
<1>2. ASSUME NEW k \in 0..n, k < n, k \in T
      PROVE  k + 1 \in T
  <2>1. PICK f : Good(f, k)
    <3> HIDE DEF Good
    <3> QED
      BY <1>2
  <2> DEFINE new == IF k + 1 < 10 THEN <<Digit(k + 1)>>
                    ELSE Append(f[(k + 1) \div 10], Digit((k + 1) % 10))
             h == [m \in 0..k + 1 |-> IF m = k + 1 THEN new ELSE f[m]]
  <2>2. ASSUME NEW m \in 0..k + 1
        PROVE  h[m] = IF m < 10 THEN <<Digit(m)>>
                      ELSE Append(h[m \div 10], Digit(m % 10))
    <3>1. m >= 10 => m \div 10 \in 0..k + 1 /\ m \div 10 < m
      OBVIOUS
    <3>2. CASE m = k + 1
      <4>1. h[m] = new
        BY <3>2
      <4>2. m >= 10 => h[m \div 10] = f[m \div 10]
        BY <3>1, <3>2
      <4> QED
        BY <3>2, <4>1, <4>2
    <3>3. CASE m # k + 1
      <4>1. m \in 0..k /\ h[m] = f[m]
        BY <3>3
      <4>2. m >= 10 => h[m \div 10] = f[m \div 10]
        BY <3>1, <3>3
      <4>3. f[m] = IF m < 10 THEN <<Digit(m)>>
                   ELSE Append(f[m \div 10], Digit(m % 10))
        BY <2>1, <4>1 DEF IsDigits
      <4> HIDE DEF h
      <4> QED
        BY <4>1, <4>2, <4>3
    <3> QED
      BY <3>2, <3>3
  <2>3. DOMAIN h = 0..k + 1
    OBVIOUS
  <2>4. Good(h, k + 1) /\ k + 1 \in 0..n
    <3> HIDE DEF h
    <3> QED
      BY <1>2, <2>2, <2>3, SMTT(40) DEF IsDigits
  <2> HIDE DEF Good, h
  <2> QED
    BY <2>4
<1> HIDE DEF T
<1>3. \A k \in 0..n : k < n /\ k \in T => k + 1 \in T
  BY <1>2
<1>4. \A k \in 0..n : k \in T
  BY <1>1, <1>3, Induct
<1>5. n \in T
  BY <1>4
<1> HIDE DEF Good
<1>6. \E f : Good(f, n)
  BY <1>5 DEF T
<1> QED
  BY <1>6 DEF Good

\* AppendNat writes digits, and ParseInt64 reads the number back.
LEMMA NatIs ==
    ASSUME NEW n \in Nat
    PROVE  /\ AppendNat(n) \in Seq(Decimal) /\ AppendNat(n) # <<>>
           /\ ParseInt64(AppendNat(n)) = n
<1> DEFINE digits == CHOOSE f : f = [m \in 0..n |->
                       IF m < 10 THEN <<Digit(m)>>
                       ELSE Append(f[m \div 10], Digit(m % 10))]
<1>1. PICK f : DOMAIN f = 0..n /\ IsDigits(f, n)
  BY DigitsExist
<1>2. PICK g : g = [m \in 0..n |-> IF m < 10 THEN <<Digit(m)>>
                                   ELSE Append(g[m \div 10], Digit(m % 10))]
  <2> DEFINE g == [m \in 0..n |-> f[m]]
  <2>1. ASSUME NEW m \in 0..n
        PROVE  g[m] = IF m < 10 THEN <<Digit(m)>>
                      ELSE Append(g[m \div 10], Digit(m % 10))
    <3>1. m \div 10 \in 0..n
      OBVIOUS
    <3>2. g[m] = f[m] /\ g[m \div 10] = f[m \div 10]
      BY <3>1
    <3> QED
      BY <1>1, <3>2 DEF IsDigits
  <2>2. g = [m \in 0..n |-> g[m]]
    OBVIOUS
  <2> HIDE DEF g
  <2>3. g = [m \in 0..n |-> IF m < 10 THEN <<Digit(m)>>
                            ELSE Append(g[m \div 10], Digit(m % 10))]
    BY <2>1, <2>2
  <2> QED
    BY <2>3
<1>3. digits = [m \in 0..n |-> IF m < 10 THEN <<Digit(m)>>
                               ELSE Append(digits[m \div 10], Digit(m % 10))]
  BY <1>2
<1>4. AppendNat(n) = digits[n]
  BY DEF AppendNat
<1> HIDE DEF digits
<1> DEFINE T == {m \in 0..n : /\ digits[m] \in Seq(Decimal) /\ digits[m] # <<>>
                              /\ ParseInt64(digits[m]) = m}
<1>5. ASSUME NEW m \in 0..n, \A j \in 0..n : j < m => j \in T
      PROVE  m \in T
  <2>1. CASE m < 10
    <3>1. digits[m] = <<Digit(m)>> /\ m \in 0..9
      BY <1>3, <2>1
    <3>2. Digit(m) \in Decimal /\ DigitValue(Digit(m)) = m
      BY <3>1, DigitIs
    <3>3. ParseInt64(<<Digit(m)>>) = m
      BY <3>2, ParseDigit
    <3> QED
      BY <3>1, <3>2, <3>3
  <2>2. CASE m >= 10
    <3> DEFINE q == m \div 10
               d == m % 10
    <3>1. q \in 0..n /\ q < m /\ d \in 0..9 /\ m = 10 * q + d
      BY <2>2
    <3>2. digits[m] = Append(digits[q], Digit(d))
      <4>1. digits[m] = IF m < 10 THEN <<Digit(m)>>
                        ELSE Append(digits[m \div 10], Digit(m % 10))
        BY <1>3, Zenon
      <4>2. ~(m < 10)
        BY <2>2
      <4> QED
        BY <4>1, <4>2
    <3> HIDE DEF q, d
    <3>3. /\ digits[q] \in Seq(Decimal) /\ digits[q] # <<>>
          /\ ParseInt64(digits[q]) = q
      BY <1>5, <3>1
    <3>4. Digit(d) \in Decimal /\ DigitValue(Digit(d)) = d
      BY <3>1, DigitIs
    <3>5. ParseInt64(Append(digits[q], Digit(d))) = 10 * q + d
      BY <3>3, <3>4, ParseAppend
    <3>6. Append(digits[q], Digit(d)) \in Seq(Decimal)
          /\ Append(digits[q], Digit(d)) # <<>>
      BY <3>3, <3>4
    <3> QED
      BY <3>1, <3>2, <3>5, <3>6
  <2> QED
    BY <2>1, <2>2
<1> HIDE DEF T
<1>6. \A m \in 0..n : (\A j \in 0..n : j < m => j \in T) => m \in T
  BY <1>5
<1>7. \A m \in 0..n : m \in T
  BY <1>6, Strong
<1>8. n \in T
  BY <1>7
<1> QED
  BY <1>4, <1>8 DEF T


\* Digits are a text on one line, and a natural number.
LEMMA DecimalIs ==
    ASSUME NEW s \in Seq(Decimal)
    PROVE  /\ s \in Text /\ LF \notin ToSet(s) /\ "." \notin ToSet(s)
           /\ s # <<>> => IsNat(s)
<1>1. \A i \in 1..Len(s) : s[i] \in Decimal
  OBVIOUS
<1>2. s \in Text
  BY DigitIs, SeqMonotonic
<1>3. ToSet(s) \subseteq Decimal
  BY <1>1 DEF ToSet
<1> QED
  BY <1>2, <1>3, DigitIs DEF IsNat, Decimal

\* AppendInt writes a number that ParseInt64 reads back.
LEMMA IntIs ==
    ASSUME NEW n \in Int
    PROVE  /\ AppendInt(n) \in Text /\ AppendInt(n) # <<>>
           /\ LF \notin ToSet(AppendInt(n))
           /\ IsInt(AppendInt(n)) /\ ParseInt64(AppendInt(n)) = n
<1>1. CASE n >= 0
  <2>1. n \in Nat /\ AppendInt(n) = AppendNat(n)
    BY <1>1 DEF AppendInt
  <2>2. /\ AppendNat(n) \in Seq(Decimal) /\ AppendNat(n) # <<>>
        /\ ParseInt64(AppendNat(n)) = n
    BY <2>1, NatIs
  <2>3. /\ AppendNat(n) \in Text /\ LF \notin ToSet(AppendNat(n))
        /\ IsNat(AppendNat(n))
    BY <2>2, DecimalIs
  <2> QED
    BY <2>1, <2>2, <2>3 DEF IsInt
<1>2. CASE n < 0
  <2> DEFINE s == AppendNat(-n)
             u == <<"-">> \o s
  <2>1. -n \in Nat /\ AppendInt(n) = u
    BY <1>2 DEF AppendInt
  <2>2. s \in Seq(Decimal) /\ s # <<>> /\ ParseInt64(s) = -n
    BY <2>1, NatIs
  <2>3. s \in Text /\ LF \notin ToSet(s) /\ IsNat(s)
    BY <2>2, DecimalIs
  <2> HIDE DEF s
  <2>4. "-" \in Symbols /\ "-" # LF
    BY SymbolIs DEF LF
  <2>5. u \in Text /\ u # <<>> /\ Head(u) = "-" /\ Tail(u) = s
    BY <2>3, <2>4
  <2>6. LF \notin ToSet(u)
    <3>1. \A j \in 1..Len(s) : s[j] # LF
      BY <2>3, NotIn
    <3>2. \A j \in 1..Len(u) : u[j] # LF
      BY <2>3, <2>4, <3>1
    <3> QED
      BY <2>5, <3>2, NotIn
  <2>7. ParseInt64(u) = -ParseInt64(s)
    BY <2>2, ParseNegative
  <2>8. ParseInt64(u) = n
    BY <2>2, <2>7
  <2>9. IsInt(u)
    BY <2>3, <2>5, DigitIs DEF IsInt
  <2> QED
    BY <2>1, <2>5, <2>6, <2>8, <2>9
<1> QED
  BY <1>1, <1>2

\* AppendFloat writes a number that ParseFloat64 reads back.
LEMMA FloatIs ==
    ASSUME NEW n \in Nat
    PROVE  /\ AppendFloat(n) \in Text /\ AppendFloat(n) # <<>>
           /\ LF \notin ToSet(AppendFloat(n))
           /\ IsFloat(AppendFloat(n)) /\ ParseFloat64(AppendFloat(n)) = n
<1> DEFINE q == n \div 10
           r == n % 10
           a == AppendNat(q)
           s == AppendFloat(n)
<1>1. q \in Nat /\ r \in 0..9 /\ n = 10 * q + r /\ ~(q < 0)
  OBVIOUS
<1>2. s = a \o IF r = 0 THEN <<>> ELSE <<".", Digit(r)>>
  BY <1>1 DEF AppendFloat, AppendInt
<1> HIDE DEF s, q, r
<1>3. a \in Seq(Decimal) /\ a # <<>> /\ ParseInt64(a) = q
  BY <1>1, NatIs
<1>4. a \in Text /\ LF \notin ToSet(a) /\ "." \notin ToSet(a) /\ IsNat(a)
  BY <1>3, DecimalIs
<1> HIDE DEF a
<1>5. CASE r = 0
  <2>1. s = a
    BY <1>2, <1>4, <1>5
  <2>2. Point(s) = 0
    BY <1>4, <2>1, NotIn, NoneIs DEF Point
  <2>3. ParseFloat64(s) = n
    BY <1>1, <1>3, <1>5, <2>1, <2>2 DEF ParseFloat64
  <2>4. IsFloat(s)
    BY <1>4, <2>1 DEF IsFloat
  <2> QED
    BY <1>3, <1>4, <2>1, <2>3, <2>4 DEF s
<1>6. CASE r # 0
  <2> DEFINE d == Digit(r)
  <2>1. d \in Decimal /\ DigitValue(d) = r
    BY <1>1, DigitIs
  <2>2. d \in Symbols /\ d # LF /\ d # "." /\ "." \in Symbols /\ "." # LF
    BY <2>1, DigitIs, SymbolIs DEF LF
  <2> HIDE DEF d
  <2>3. s = a \o <<".", d>>
    BY <1>2, <1>6 DEF d
  <2>4. /\ s \in Text /\ Len(s) = Len(a) + 2 /\ Len(a) \in Nat /\ Len(a) > 0
        /\ s[Len(a) + 1] = "." /\ s[Len(a) + 2] = d
        /\ \A j \in 1..Len(a) : s[j] = a[j]
    BY <1>3, <1>4, <2>2, <2>3
  <2>5. SubSeq(s, 1, Len(a)) = a
    BY <1>4, <2>2, <2>3
  <2>6. Index(s, ".") = Len(a) + 1
    <3>1. \A j \in 1..(Len(a) + 1) - 1 : s[j] # "."
      BY <1>4, <2>4, NotIn
    <3>2. Len(a) + 1 \in 1..Len(s)
      BY <2>4
    <3> QED
      BY <2>4, <3>1, <3>2, FirstIs
  <2>7. /\ Point(s) = Len(a) + 1 /\ Point(s) = Len(s) - 1 /\ Point(s) > 1
        /\ SubSeq(s, 1, Point(s) - 1) = a /\ Last(s) = d
    BY <2>4, <2>5, <2>6 DEF Point, Last
  <2>8. IsNat(<<d>>)
    <3>1. <<d>> \in Seq(Decimal) /\ <<d>> # <<>>
      BY <2>1
    <3> QED
      BY <3>1, DecimalIs
  <2>9. IsFloat(s)
    BY <1>4, <2>7, <2>8 DEF IsFloat
  <2>10. a \o <<d>> = Append(a, d)
    BY <1>3, <2>1
  <2>11. ParseFloat64(s) = ParseInt64(Append(a, d))
    <3>1. Point(s) # 0
      BY <2>4, <2>7
    <3> QED
      BY <2>7, <2>10, <3>1 DEF ParseFloat64
  <2>12. ParseInt64(Append(a, d)) = 10 * q + r
    BY <1>3, <2>1, ParseAppend
  <2>13. LF \notin ToSet(s)
    <3>1. \A j \in 1..Len(a) : a[j] # LF
      BY <1>4, NotIn
    <3>2. \A j \in 1..Len(s) : s[j] # LF
      BY <2>2, <2>4, <3>1
    <3> QED
      BY <2>4, <3>2, NotIn
  <2>14. s # <<>>
    BY <2>4
  <2> QED
    BY <1>1, <2>4, <2>9, <2>11, <2>12, <2>13, <2>14 DEF s
<1> QED
  BY <1>5, <1>6


-----------------------------------------------------------------------------
(* Values                                                                  *)

\* A reader that does not get its line fails as ReadPrefixed did.
LEMMA Unprefixed ==
    ASSUME NEW s, NEW inner, ReadPrefixed(s).st # "ok"
    PROVE  /\ ReadPayload(s) = ReadPrefixed(s)
           /\ ReadBulkPayload(s) = ReadPrefixed(s)
           /\ ReadValue(s, inner) = ReadPrefixed(s)
  BY DEF ReadPayload, ReadBulkPayload, ReadValue, Then

\* What the readers do with the line they get.
LEMMA Prefixed ==
    ASSUME NEW s, NEW inner, NEW line, NEW rest, ReadPrefixed(s) = Ok(line, rest)
    PROVE  /\ line[1] = "$" => ReadPayload(s) = Payload(line, rest)
           /\ line[1] = "*" => ReadBulkPayload(s) =
                ReadArray(line, rest, [w \in Text |-> ReadPayload(w)])
  BY Found DEF ReadPayload, ReadBulkPayload, Then

\* What ReadValue makes of the line it gets.
LEMMA PrefixedValue ==
    ASSUME NEW s, NEW inner, NEW line, NEW rest, ReadPrefixed(s) = Ok(line, rest)
    PROVE  ReadValue(s, inner) = Value(line, rest, inner)
  BY Found DEF ReadValue, Then

\* A decoded JSON object.
LEMMA JsonIs ==
    ASSUME NEW inner, NEW line, NEW rest, NEW b, NEW after,
           Head(line) = "~", Tail(line) = <<"json">>,
           inner[rest] = Ok(Bytes(b), after)
    PROVE  Value(line, rest, inner) = Ok(Json, after)
<1>1. Value(line, rest, inner) = ReadEncoded(Tail(line), rest, inner)
  BY DEF Value, Markers
<1> QED
  BY <1>1, Found DEF ReadEncoded, Then, Bytes

\* A line that begins with a prefix, read by TaggedIs.
LEMMA TagIs ==
    ASSUME NEW p \in Symbols, NEW l \in Text, l # <<>>
    PROVE  /\ <<p>> \o l \in Text /\ Head(<<p>> \o l) = p /\ (<<p>> \o l)[1] = p
           /\ Tail(<<p>> \o l) = l
  OBVIOUS

\* The value of a prefix and a text.
LEMMA TagValue ==
    ASSUME NEW p \in Symbols, NEW l \in Text, l # <<>>, NEW t, NEW inner
    PROVE  /\ p = "&" => Value(<<p>> \o l, t, inner) = Ok(Byte(l[1]), t)
           /\ p = "+" => Value(<<p>> \o l, t, inner) = Ok(String(l), t)
           /\ p = ":" /\ IsInt(l) =>
                Value(<<p>> \o l, t, inner) = Ok(Int64(ParseInt64(l)), t)
           /\ p = "." /\ IsFloat(l) =>
                Value(<<p>> \o l, t, inner) = Ok(Float(ParseFloat64(l)), t)
           /\ p = "?" => Value(<<p>> \o l, t, inner) = Ok(Bool(l[1] = "1"), t)
           /\ p = "-" => Value(<<p>> \o l, t, inner) = Ok(Error(l), t)
           /\ p = "*" => Value(<<p>> \o l, t, inner) =
                            ReadArray(<<p>> \o l, t, inner)
           /\ p = "$" => Value(<<p>> \o l, t, inner) = Payload(<<p>> \o l, t)
<1> DEFINE line == <<p>> \o l
<1>1. Head(line) = p /\ Tail(line) = l
  BY TagIs
<1> HIDE DEF line
<1>2. p = "&" => Value(line, t, inner) = Ok(Byte(l[1]), t)
  BY <1>1 DEF Value, Markers
<1>3. p = "+" => Value(line, t, inner) = Ok(String(l), t)
  BY <1>1 DEF Value, Markers
<1>4. p = ":" /\ IsInt(l) => Value(line, t, inner) = Ok(Int64(ParseInt64(l)), t)
  BY <1>1 DEF Value, Markers
<1>5. p = "." /\ IsFloat(l) => Value(line, t, inner) = Ok(Float(ParseFloat64(l)), t)
  BY <1>1 DEF Value, Markers
<1>6. p = "?" => Value(line, t, inner) = Ok(Bool(l[1] = "1"), t)
  BY <1>1 DEF Value, Markers
<1>7. p = "-" => Value(line, t, inner) = Ok(Error(l), t)
  BY <1>1 DEF Value, Markers
<1>8. p = "*" => Value(line, t, inner) = ReadArray(line, t, inner)
  BY <1>1 DEF Value, Markers
<1>9. p = "$" => Value(line, t, inner) = Payload(line, t)
  BY <1>1 DEF Value, Markers
<1> QED
  BY <1>2, <1>3, <1>4, <1>5, <1>6, <1>7, <1>8, <1>9 DEF line

\* The payload after its length.
LEMMA PayloadIs ==
    ASSUME NEW b \in Text, NEW t \in Text
    PROVE  Payload(<<"$">> \o AppendInt(Len(b)), (b \o Delims) \o t) =
             Ok(Bytes(b), t)
<1> DEFINE n == Len(b)
           num == AppendInt(n)
           line == <<"$">> \o num
           u == (b \o Delims) \o t
<1>0. CR \in Symbols /\ LF \in Symbols /\ "$" \in Symbols
  BY SymbolIs
<1>1. n \in Nat
  OBVIOUS
<1>2. num \in Text /\ num # <<>> /\ IsInt(num) /\ ParseInt64(num) = n
  BY <1>1, IntIs
<1> HIDE DEF num
<1>3. Tail(line) = num
  BY <1>0, <1>2, TagIs
<1>4. /\ SubSeq(u, 1, n) = b /\ Drop(u, n) = (<<>> \o Delims) \o t
      /\ Len(u) >= n
  BY <1>0 DEF Delims, Drop
<1>5. ReadLine((<<>> \o Delims) \o t) = Ok(<<>>, t)
  <2>1. <<>> \in Text /\ Len(<<>>) = 0 /\ LF \notin ToSet(<<>>)
    BY DEF ToSet
  <2>2. Len(<<>>) + 2 <= BufferSize
    BY <2>1, SizeIs
  <2> QED
    BY <2>1, <2>2, LineIs
<1> HIDE DEF u, line, n
<1>6. ReadLine(Drop(u, n)) = Ok(<<>>, t)
  BY <1>4, <1>5
<1>7. IsInt(Tail(line)) /\ ParseInt64(Tail(line)) = n
  BY <1>2, <1>3, Zenon
<1>8. n # -1 /\ ~(n < -1) /\ ~(Len(u) < n)
  <2>1. Len(u) \in Nat
    BY <1>0 DEF u, Delims
  <2> QED
    BY <1>1, <1>4, <2>1
<1>9. Payload(line, u) =
        IF ReadLine(Drop(u, n)).st = "ok"
          THEN IF ReadLine(Drop(u, n)).val = <<>>
                 THEN Ok(Bytes(SubSeq(u, 1, n)), ReadLine(Drop(u, n)).rest)
                 ELSE Err
          ELSE ReadLine(Drop(u, n))
  BY <1>7, <1>8 DEF Payload, Then
<1>10. Payload(line, u) = Ok(Bytes(SubSeq(u, 1, n)), t)
  BY <1>6, <1>9, Found
<1> QED
  BY <1>4, <1>10 DEF u, line, num, n

\* A length fits a line.
LEMMA LengthIs ==
    ASSUME NEW n \in 0..MaxLength
    PROVE  /\ Readable(AppendInt(n)) /\ AppendInt(n) \in Text
           /\ AppendInt(n) # <<>> /\ IsNat(AppendInt(n))
           /\ ParseInt64(AppendInt(n)) = n
<1>1. n \in Nat /\ ~(n < 0)
  BY SizeIs
<1>2. AppendInt(n) = AppendNat(n)
  BY <1>1 DEF AppendInt
<1>3. /\ AppendNat(n) \in Seq(Decimal) /\ AppendNat(n) # <<>>
      /\ ParseInt64(AppendNat(n)) = n
  BY <1>1, NatIs
<1>4. /\ AppendNat(n) \in Text /\ LF \notin ToSet(AppendNat(n))
      /\ IsNat(AppendNat(n))
  BY <1>3, DecimalIs
<1>5. Len(AppendNat(n)) + 3 <= BufferSize
  BY CodecAssumption
<1> QED
  BY <1>2, <1>3, <1>4, <1>5 DEF Readable

\* A line of a length, and what follows it.
LEMMA ReadLen ==
    ASSUME NEW p \in {"$", "*"}, NEW n \in 0..MaxLength, NEW t \in Text
    PROVE  ReadPrefixed(WriteLen(p, n) \o t) = Ok(<<p>> \o AppendInt(n), t)
<1>1. p \in Symbols /\ p \notin {CR, LF}
  BY SymbolIs DEF CR, LF
<1>2. AppendInt(n) \in Text /\ Readable(AppendInt(n))
  BY LengthIs
<1> QED
  BY <1>1, <1>2, TaggedIs DEF WriteLen


\* Bytes, as the redis reader and readInterface find them.
LEMMA BytesIs ==
    ASSUME NEW b \in Text, NEW t \in Text, NEW inner, Len(b) <= MaxLength
    PROVE  /\ WriteBytes(b) \in Text
           /\ ReadPayload(WriteBytes(b) \o t) = Ok(Bytes(b), t)
           /\ ReadValue(WriteBytes(b) \o t, inner) = Ok(Bytes(b), t)
<1> DEFINE n == Len(b)
           u == (b \o Delims) \o t
           line == <<"$">> \o AppendInt(n)
<1>0. CR \in Symbols /\ LF \in Symbols /\ "$" \in Symbols
  BY SymbolIs
<1>1. n \in 0..MaxLength /\ u \in Text
  BY <1>0, SizeIs DEF Delims
<1>2. AppendInt(n) \in Text /\ AppendInt(n) # <<>>
  BY <1>1, LengthIs
<1>3. WriteBytes(b) \in Text /\ WriteBytes(b) \o t = WriteLen("$", n) \o u
  <2>1. WriteLen("$", n) \in Text
    BY <1>0, <1>2 DEF WriteLen, Delims
  <2>2. Delims \in Text
    BY <1>0 DEF Delims
  <2> QED
    BY <2>1, <2>2, SMTT(40) DEF WriteBytes
<1>4. ReadPrefixed(WriteLen("$", n) \o u) = Ok(line, u)
  BY <1>1, ReadLen
<1>5. Payload(line, u) = Ok(Bytes(b), t)
  BY PayloadIs
<1>6. Head(line) = "$" /\ line[1] = "$"
  BY <1>0, <1>2, TagIs
<1> HIDE DEF line, u, n
<1>7. ReadPayload(WriteBytes(b) \o t) = Ok(Bytes(b), t)
  BY <1>3, <1>4, <1>5, <1>6, Prefixed
<1>8. ReadValue(WriteBytes(b) \o t, inner) = Value(line, u, inner)
  BY <1>3, <1>4, PrefixedValue
<1>9. Value(line, u, inner) = Payload(line, u)
  BY <1>0, <1>2, TagValue DEF line
<1> QED
  BY <1>3, <1>5, <1>7, <1>8, <1>9

\* What a prefix, a text and the end of a line are read as, if the text can be.
LEMMA TaggedValue ==
    ASSUME NEW p \in Symbols, p \notin {CR, LF}, NEW l \in Text, NEW t \in Text,
           NEW inner
    PROVE  /\ Readable(l) =>
                ReadValue(((<<p>> \o l) \o Delims) \o t, inner) =
                  Value(<<p>> \o l, t, inner)
           /\ ~Readable(l) /\ ~HasCRLF(l) =>
                ReadValue(((<<p>> \o l) \o Delims) \o t, inner) = Err
<1> DEFINE s == ((<<p>> \o l) \o Delims) \o t
           line == <<p>> \o l
<1>1. CASE Readable(l)
  <2>1. ReadPrefixed(s) = Ok(line, t)
    BY <1>1, TaggedIs
  <2> HIDE DEF s, line
  <2>2. ReadValue(s, inner) = Value(line, t, inner)
    BY <2>1, PrefixedValue
  <2> QED
    BY <1>1, <2>2 DEF s, line
<1>2. CASE ~Readable(l) /\ ~HasCRLF(l)
  <2>1. ReadPrefixed(s) = Err
    BY <1>2, TaggedIs
  <2> HIDE DEF s
  <2>2. ReadValue(s, inner) = Err
    BY <2>1, Unprefixed, Found
  <2> QED
    BY <1>2, <2>2 DEF s
<1> QED
  BY <1>1, <1>2

\* Strings and errors.
LEMMA StringIs ==
    ASSUME NEW x \in Text, NEW t \in Text, NEW inner
    PROVE  /\ WriteString(x) \in Text
           /\ Readable(x) =>
                ReadValue(WriteString(x) \o t, inner) = Ok(String(x), t)
           /\ ~Readable(x) /\ ~HasCRLF(x) =>
                ReadValue(WriteString(x) \o t, inner) = Err
<1>1. "+" \in Symbols /\ "+" \notin {CR, LF}
  BY SymbolIs DEF CR, LF
<1>2. WriteString(x) \in Text
  <2>1. CR \in Symbols /\ LF \in Symbols
    BY SymbolIs
  <2> QED
    BY <1>1, <2>1 DEF WriteString, Delims
<1>3. Readable(x) => x # <<>>
  BY DEF Readable
<1>4. Readable(x) => Value(<<"+">> \o x, t, inner) = Ok(String(x), t)
  BY <1>1, <1>3, TagValue
<1> QED
  BY <1>1, <1>2, <1>4, TaggedValue DEF WriteString


\* An error is read back with its prefix.
LEMMA ErrorIs ==
    ASSUME NEW x \in Text, NEW t \in Text, NEW inner,
           LF \notin ToSet(x), Len(x) + 4 <= BufferSize
    PROVE  /\ WriteError(x) \in Text
           /\ ReadValue(WriteError(x) \o t, inner) = Ok(Error(<<"ERR ">> \o x), t)
<1> DEFINE e == "ERR "
           p == "-"
           l == <<e>> \o x
<1>1. p \in Symbols /\ p \notin {CR, LF} /\ e \in Symbols /\ e # LF
  BY SymbolIs DEF CR, LF
<1>2. CR \in Symbols /\ LF \in Symbols
  BY SymbolIs
<1>3. p = "-" /\ WriteError(x) = (<<p, e>> \o x) \o Delims
  BY DEF WriteError
<1> HIDE DEF e, p
<1>4. l \in Text /\ l # <<>> /\ Len(l) = Len(x) + 1
  BY <1>1
<1>5. LF \notin ToSet(l)
  <2>1. \A j \in 1..Len(x) : x[j] # LF
    BY NotIn
  <2>2. \A j \in 1..Len(l) : l[j] # LF
    BY <1>1, <1>4, <2>1
  <2> QED
    BY <1>4, <2>2, NotIn
<1>6. WriteError(x) = (<<p>> \o l) \o Delims
  BY <1>1, <1>2, <1>3 DEF Delims
<1> HIDE DEF l
<1>7. WriteError(x) \in Text
  BY <1>1, <1>2, <1>4, <1>6 DEF Delims
<1>8. Readable(l)
  <2>1. Len(l) + 3 <= BufferSize
    BY <1>4, SizeIs
  <2> QED
    BY <1>4, <1>5, <2>1 DEF Readable
<1>9. ReadValue(WriteError(x) \o t, inner) = Value(<<p>> \o l, t, inner)
  BY <1>1, <1>4, <1>6, <1>8, TaggedValue
<1>10. Value(<<p>> \o l, t, inner) = Ok(Error(l), t)
  BY <1>1, <1>3, <1>4, TagValue
<1> QED
  BY <1>7, <1>9, <1>10 DEF l, e

\* A text without a LF has no line break.
LEMMA OneLine ==
    ASSUME NEW s \in Text, LF \notin ToSet(s)
    PROVE  ~HasCRLF(s)
<1>1. \A j \in 1..Len(s) : s[j] # LF
  BY NotIn
<1> QED
  BY <1>1 DEF HasCRLF

\* Numbers.
LEMMA Int64Is ==
    ASSUME NEW n \in Int, NEW t \in Text, NEW inner
    PROVE  /\ WriteInt64(n) \in Text
           /\ Readable(AppendInt(n)) =>
                ReadValue(WriteInt64(n) \o t, inner) = Ok(Int64(n), t)
           /\ ~Readable(AppendInt(n)) =>
                ReadValue(WriteInt64(n) \o t, inner) = Err
<1> DEFINE l == AppendInt(n)
<1>1. ":" \in Symbols /\ ":" \notin {CR, LF}
  BY SymbolIs DEF CR, LF
<1>2. CR \in Symbols /\ LF \in Symbols
  BY SymbolIs
<1>3. /\ l \in Text /\ l # <<>> /\ LF \notin ToSet(l)
      /\ IsInt(l) /\ ParseInt64(l) = n
  BY IntIs
<1>4. ~HasCRLF(l)
  BY <1>3, OneLine
<1>5. WriteInt64(n) = (<<":">> \o l) \o Delims
  BY DEF WriteInt64, WriteLen
<1> HIDE DEF l
<1>6. WriteInt64(n) \in Text
  BY <1>1, <1>2, <1>3, <1>5 DEF Delims
<1>7. Value(<<":">> \o l, t, inner) = Ok(Int64(n), t)
  BY <1>1, <1>3, TagValue
<1>8. /\ Readable(l) => ReadValue(WriteInt64(n) \o t, inner) =
                          Value(<<":">> \o l, t, inner)
      /\ ~Readable(l) => ReadValue(WriteInt64(n) \o t, inner) = Err
  BY <1>1, <1>3, <1>4, <1>5, TaggedValue
<1> QED
  BY <1>6, <1>7, <1>8 DEF l

\* A float on the wire, and what the reader makes of it.
LEMMA Float64Is ==
    ASSUME NEW n \in Nat, NEW t \in Text, NEW inner
    PROVE  /\ WriteFloat64(n) \in Text
           /\ Readable(AppendFloat(n)) =>
                ReadValue(WriteFloat64(n) \o t, inner) = Ok(Float(n), t)
           /\ ~Readable(AppendFloat(n)) =>
                ReadValue(WriteFloat64(n) \o t, inner) = Err
<1> DEFINE l == AppendFloat(n)
<1>1. "." \in Symbols /\ "." \notin {CR, LF}
  BY SymbolIs DEF CR, LF
<1>2. CR \in Symbols /\ LF \in Symbols
  BY SymbolIs
<1>3. /\ l \in Text /\ l # <<>> /\ LF \notin ToSet(l)
      /\ IsFloat(l) /\ ParseFloat64(l) = n
  BY FloatIs
<1>4. ~HasCRLF(l)
  BY <1>3, OneLine
<1>5. WriteFloat64(n) = (<<".">> \o l) \o Delims
  BY DEF WriteFloat64
<1> HIDE DEF l
<1>6. WriteFloat64(n) \in Text
  BY <1>1, <1>2, <1>3, <1>5 DEF Delims
<1>7. Value(<<".">> \o l, t, inner) = Ok(Float(n), t)
  BY <1>1, <1>3, TagValue
<1>8. /\ Readable(l) => ReadValue(WriteFloat64(n) \o t, inner) =
                          Value(<<".">> \o l, t, inner)
      /\ ~Readable(l) => ReadValue(WriteFloat64(n) \o t, inner) = Err
  BY <1>1, <1>3, <1>4, <1>5, TaggedValue
<1> QED
  BY <1>6, <1>7, <1>8 DEF l

\* One symbol.
LEMMA SymbolRead ==
    ASSUME NEW p \in Symbols, p \notin {CR, LF}, NEW l \in Text, Len(l) = 1,
           NEW t \in Text, NEW inner
    PROVE  /\ (<<p>> \o l) \o Delims \in Text
           /\ l[1] # LF => ReadValue(((<<p>> \o l) \o Delims) \o t, inner) =
                             Value(<<p>> \o l, t, inner)
           /\ l[1] = LF => ReadValue(((<<p>> \o l) \o Delims) \o t, inner) = Err
<1>1. CR \in Symbols /\ LF \in Symbols
  BY SymbolIs
<1>2. Readable(l) <=> l[1] # LF
  <2>0. l # <<>>
    OBVIOUS
  <2>1. Len(l) + 3 <= BufferSize
    BY SizeIs, Len(l) = 1
  <2>2. LF \notin ToSet(l) <=> l[1] # LF
    BY NotIn
  <2> QED
    BY <2>0, <2>1, <2>2 DEF Readable
<1>3. ~HasCRLF(l)
  BY DEF HasCRLF
<1>4. (<<p>> \o l) \o Delims \in Text
  BY <1>1 DEF Delims
<1> QED
  BY <1>2, <1>3, <1>4, TaggedValue

\* A byte on the wire; only the LF cannot be read back.
LEMMA ByteIs ==
    ASSUME NEW c \in Symbols, NEW t \in Text, NEW inner
    PROVE  /\ WriteByte(c) \in Text
           /\ c # LF => ReadValue(WriteByte(c) \o t, inner) = Ok(Byte(c), t)
           /\ c = LF => ReadValue(WriteByte(c) \o t, inner) = Err
<1> DEFINE l == <<c>>
           p == "&"
<1>1. p \in Symbols /\ p \notin {CR, LF} /\ p = "&"
  BY SymbolIs DEF CR, LF
<1>2. l \in Text /\ Len(l) = 1 /\ l[1] = c /\ l # <<>>
  OBVIOUS
<1>3. WriteByte(c) = (<<p>> \o l) \o Delims
  BY DEF WriteByte
<1> HIDE DEF l, p
<1>4. Value(<<p>> \o l, t, inner) = Ok(Byte(c), t)
  BY <1>1, <1>2, TagValue
<1> QED
  BY <1>1, <1>2, <1>3, <1>4, SymbolRead

\* A boolean on the wire is read back.
LEMMA BoolIs ==
    ASSUME NEW b \in BOOLEAN, NEW t \in Text, NEW inner
    PROVE  /\ WriteBool(b) \in Text
           /\ ReadValue(WriteBool(b) \o t, inner) = Ok(Bool(b), t)
<1> DEFINE c == IF b THEN "1" ELSE "0"
           l == <<c>>
           p == "?"
<1>1. p \in Symbols /\ p \notin {CR, LF} /\ p = "?"
  BY SymbolIs DEF CR, LF
<1>2. c \in Symbols /\ c # LF
  <2>1. "1" \in ToSet(Digits) /\ "0" \in ToSet(Digits)
    BY DEF ToSet, Digits
  <2> QED
    BY <2>1, SymbolIs DEF LF
<1>3. (c = "1") = b
  OBVIOUS
<1>4. WriteBool(b) = (<<p>> \o l) \o Delims
  BY DEF WriteBool
<1> HIDE DEF c
<1>5. l \in Text /\ Len(l) = 1 /\ l[1] = c /\ l # <<>>
  BY <1>2
<1> HIDE DEF l, p
<1>6. Value(<<p>> \o l, t, inner) = Ok(Bool(b), t)
  <2>1. Value(<<p>> \o l, t, inner) = Ok(Bool(l[1] = "1"), t)
    BY <1>1, <1>5, TagValue
  <2>2. (l[1] = "1") = b
    BY <1>3, <1>5
  <2> QED
    BY <2>1, <2>2, Zenon
<1> QED
  BY <1>1, <1>2, <1>4, <1>5, <1>6, SymbolRead

\* The length -1 stands for nil.
LEMMA NullIs ==
    ASSUME NEW t \in Text, NEW inner
    PROVE  /\ WriteNull \in Text
           /\ ReadValue(WriteNull \o t, inner) = Ok(Null, t)
<1> DEFINE one == <<"1">>
           m == "-"
           l == <<m>> \o one
           p == "$"
<1>1. p \in Symbols /\ p \notin {CR, LF} /\ p = "$"
  BY SymbolIs DEF CR, LF
<1>2. CR \in Symbols /\ LF \in Symbols
  BY SymbolIs
<1>3. "1" \in Decimal /\ DigitValue("1") = 1
  <2>1. Digit(1) = "1"
    BY DEF Digit, Digits
  <2>2. 1 \in 0..9
    OBVIOUS
  <2> QED
    BY <2>1, <2>2, DigitIs
<1>4. one \in Seq(Decimal) /\ one # <<>> /\ ParseInt64(one) = 1
  BY <1>3, ParseDigit
<1>5. one \in Text /\ LF \notin ToSet(one) /\ IsNat(one)
  BY <1>4, DecimalIs
<1>6. WriteNull = (<<p>> \o l) \o Delims
  BY DEF WriteNull
<1>7. Len(one) = 1
  OBVIOUS
<1> HIDE DEF one, p
<1>8. ParseInt64(l) = -1
  BY <1>4, ParseNegative
<1>9. m \in Symbols /\ m # LF /\ m = "-"
  BY SymbolIs DEF LF
<1> HIDE DEF m
<1>10. l \in Text /\ l # <<>> /\ Len(l) = 2 /\ Head(l) = m /\ Tail(l) = one
  BY <1>5, <1>7, <1>9
<1>11. IsInt(l)
  BY <1>5, <1>9, <1>10, DigitIs DEF IsInt
<1>12. LF \notin ToSet(l)
  <2>1. \A j \in 1..Len(one) : one[j] # LF
    BY <1>5, NotIn
  <2>2. \A j \in 1..Len(l) : l[j] # LF
    BY <1>5, <1>9, <2>1
  <2> QED
    BY <1>10, <2>2, NotIn
<1> HIDE DEF l
<1>13. Readable(l)
  <2>1. Len(l) + 3 <= BufferSize
    BY <1>10, SizeIs
  <2> QED
    BY <1>10, <1>12, <2>1 DEF Readable
<1>14. ReadValue(WriteNull \o t, inner) = Value(<<p>> \o l, t, inner)
  BY <1>1, <1>6, <1>10, <1>13, TaggedValue
<1>15. Value(<<p>> \o l, t, inner) = Payload(<<p>> \o l, t)
  BY <1>1, <1>10, TagValue
<1>16. Payload(<<p>> \o l, t) = Ok(Null, t)
  <2> DEFINE line == <<p>> \o l
  <2>1. Tail(line) = l
    BY <1>1, <1>10, TagIs
  <2> HIDE DEF line
  <2>2. Payload(line, t) = Ok(Null, t)
    <3>1. IsInt(Tail(line)) /\ ParseInt64(Tail(line)) = -1
      BY <1>8, <1>11, <2>1, Zenon
    <3> QED
      BY <3>1 DEF Payload, Then
  <2> QED
    BY <2>2 DEF line
<1>17. WriteNull \in Text
  BY <1>1, <1>2, <1>6, <1>10 DEF Delims
<1> QED
  BY <1>14, <1>15, <1>16, <1>17

\* The texts that WriteBytes is given have a length it can write.
Fits(v) == v.type \in {"bytes", "other"} => Len(v.text) <= MaxLength

\* readInterface reads back what WriteInterface writes of an argument, or
\* fails where it cannot.
LEMMA ScalarIs ==
    ASSUME NEW v \in Scalar, Fits(v), NEW t \in Text, NEW inner
    PROVE  /\ WriteInterface(v) \in Text
           /\ CanReceive(v) =>
                ReadValue(WriteInterface(v) \o t, inner) =
                  Ok(Received("interface", v), t)
           /\ ~CanReceive(v) /\ (v.type = "string" => ~HasCRLF(v.text)) =>
                ReadValue(WriteInterface(v) \o t, inner) = Err
<1>1. CASE v \in [type : {"string"}, text : Text]
  <2>1. v.type = "string" /\ v.text \in Text /\ v = String(v.text)
    BY <1>1 DEF String
  <2>2. WriteInterface(v) = WriteString(v.text)
    BY <2>1 DEF WriteInterface
  <2>3. (CanReceive(v) <=> Readable(v.text)) /\ Received("interface", v) = v
    BY <2>1 DEF CanReceive, Received
  <2>4. v.text \in Text
    BY <2>1
  <2> DEFINE x == v.text
  <2> HIDE DEF x
  <2>5. /\ WriteString(x) \in Text
        /\ Readable(x) =>
             ReadValue(WriteString(x) \o t, inner) = Ok(String(x), t)
        /\ ~Readable(x) /\ ~HasCRLF(x) =>
             ReadValue(WriteString(x) \o t, inner) = Err
    BY <2>4, StringIs DEF x
  <2> QED
    BY <2>1, <2>2, <2>3, <2>5, Zenon DEF x
<1>2. CASE v \in [type : {"bytes"}, text : Text]
  <2>1. v.type = "bytes" /\ v.text \in Text /\ v = Bytes(v.text)
    BY <1>2 DEF Bytes
  <2>2. WriteInterface(v) = WriteBytes(v.text)
    BY <2>1 DEF WriteInterface
  <2>3. CanReceive(v) /\ Received("interface", v) = v
    BY <2>1 DEF CanReceive, Received
  <2>4. Len(v.text) <= MaxLength
    BY <2>1 DEF Fits
  <2> DEFINE x == v.text
  <2> HIDE DEF x
  <2>5. WriteBytes(x) \in Text /\ ReadValue(WriteBytes(x) \o t, inner) = Ok(Bytes(x), t)
    BY <2>1, <2>4, BytesIs DEF x
  <2> QED
    BY <2>1, <2>2, <2>3, <2>5, Zenon DEF x
<1>3. CASE v \in [type : {"other"}, text : Text]
  <2>1. v.type = "other" /\ v.text \in Text
    BY <1>3
  <2>2. Fprint(v) = v.text
    BY <2>1 DEF Fprint
  <2>3. WriteInterface(v) = WriteBytes(v.text)
    BY <2>1, <2>2 DEF WriteInterface
  <2>4. CanReceive(v) /\ Received("interface", v) = Bytes(v.text)
    BY <2>1 DEF CanReceive, Received
  <2>5. Len(v.text) <= MaxLength
    BY <2>1 DEF Fits
  <2> DEFINE x == v.text
  <2> HIDE DEF x
  <2>6. WriteBytes(x) \in Text /\ ReadValue(WriteBytes(x) \o t, inner) = Ok(Bytes(x), t)
    BY <2>1, <2>5, BytesIs DEF x
  <2> QED
    BY <2>1, <2>3, <2>4, <2>6, Zenon DEF x
<1>4. CASE v \in [type : {"int64"}, int : Int]
  <2>1. v.type = "int64" /\ v.int \in Int /\ v = Int64(v.int)
    BY <1>4 DEF Int64
  <2>2. WriteInterface(v) = WriteInt64(v.int)
    BY <2>1 DEF WriteInterface
  <2>3. (CanReceive(v) <=> Readable(AppendInt(v.int))) /\ Received("interface", v) = v
    BY <2>1 DEF CanReceive, Received
  <2> DEFINE x == v.int
  <2> HIDE DEF x
  <2>4. /\ WriteInt64(x) \in Text
        /\ Readable(AppendInt(x)) =>
             ReadValue(WriteInt64(x) \o t, inner) = Ok(Int64(x), t)
        /\ ~Readable(AppendInt(x)) => ReadValue(WriteInt64(x) \o t, inner) = Err
    BY <2>1, Int64Is DEF x
  <2> QED
    BY <2>1, <2>2, <2>3, <2>4, Zenon DEF x
<1>5. CASE v \in [type : {"float64"}, tenths : Nat]
  <2>1. v.type = "float64" /\ v.tenths \in Nat /\ v = Float(v.tenths)
    BY <1>5 DEF Float
  <2>2. WriteInterface(v) = WriteFloat64(v.tenths)
    BY <2>1 DEF WriteInterface
  <2>3. /\ CanReceive(v) <=> Readable(AppendFloat(v.tenths))
        /\ Received("interface", v) = v
    BY <2>1 DEF CanReceive, Received
  <2> DEFINE x == v.tenths
  <2> HIDE DEF x
  <2>4. /\ WriteFloat64(x) \in Text
        /\ Readable(AppendFloat(x)) =>
             ReadValue(WriteFloat64(x) \o t, inner) = Ok(Float(x), t)
        /\ ~Readable(AppendFloat(x)) =>
             ReadValue(WriteFloat64(x) \o t, inner) = Err
    BY <2>1, Float64Is DEF x
  <2> QED
    BY <2>1, <2>2, <2>3, <2>4, Zenon DEF x
<1>6. CASE v \in [type : {"bool"}, bool : BOOLEAN]
  <2>1. v.type = "bool" /\ v.bool \in BOOLEAN /\ v = Bool(v.bool)
    BY <1>6 DEF Bool
  <2>2. WriteInterface(v) = WriteBool(v.bool)
    BY <2>1 DEF WriteInterface
  <2>3. CanReceive(v) /\ Received("interface", v) = v
    BY <2>1 DEF CanReceive, Received
  <2> DEFINE x == v.bool
  <2> HIDE DEF x
  <2>4. WriteBool(x) \in Text /\ ReadValue(WriteBool(x) \o t, inner) = Ok(Bool(x), t)
    BY <2>1, BoolIs DEF x
  <2> QED
    BY <2>1, <2>2, <2>3, <2>4, Zenon DEF x
<1>7. CASE v \in [type : {"byte"}, byte : Symbols]
  <2>1. v.type = "byte" /\ v.byte \in Symbols /\ v = Byte(v.byte)
    BY <1>7 DEF Byte
  <2>2. WriteInterface(v) = WriteByte(v.byte)
    BY <2>1 DEF WriteInterface
  <2>3. (CanReceive(v) <=> v.byte # LF) /\ Received("interface", v) = v
    BY <2>1 DEF CanReceive, Received
  <2> DEFINE x == v.byte
  <2> HIDE DEF x
  <2>4. /\ WriteByte(x) \in Text
        /\ x # LF => ReadValue(WriteByte(x) \o t, inner) = Ok(Byte(x), t)
        /\ x = LF => ReadValue(WriteByte(x) \o t, inner) = Err
    BY <2>1, ByteIs DEF x
  <2> QED
    BY <2>1, <2>2, <2>3, <2>4, Zenon DEF x
<1>8. CASE v = Null
  <2>1. v.type = "nil"
    BY <1>8 DEF Null
  <2>2. WriteInterface(v) = WriteNull
    BY <2>1 DEF WriteInterface
  <2>3. CanReceive(v) /\ Received("interface", v) = v
    BY <2>1 DEF CanReceive, Received
  <2> QED
    BY <1>8, <2>2, <2>3, NullIs
<1> QED
  <2>1. \/ v \in [type : {"string", "bytes", "other"}, text : Text]
        \/ v \in [type : {"int64"}, int : Int]
        \/ v \in [type : {"float64"}, tenths : Nat]
        \/ v \in [type : {"bool"}, bool : BOOLEAN]
        \/ v \in [type : {"byte"}, byte : Symbols]
        \/ v = Null
    BY DEF Scalar
  <2>2. v \in [type : {"string", "bytes", "other"}, text : Text] =>
          \/ v \in [type : {"string"}, text : Text]
          \/ v \in [type : {"bytes"}, text : Text]
          \/ v \in [type : {"other"}, text : Text]
    OBVIOUS
  <2> QED
    BY <2>1, <2>2, <1>1, <1>2, <1>3, <1>4, <1>5, <1>6, <1>7, <1>8


-----------------------------------------------------------------------------
(* Concatenations                                                          *)

HIDE DEF Text

\* The concatenation of each prefix of s, which is not empty.
IsFlat(f, s) == /\ f[1] = s[1]
                /\ \A i \in 2..Len(s) : f[i] = f[i - 1] \o s[i]

\* FlattenSeq, text by text.
LEMMA FlattenIs ==
    ASSUME NEW s \in Seq(Text), s # <<>>
    PROVE  \E f : IsFlat(f, s) /\ FlattenSeq(s) = f[Len(s)]
<1> DEFINE n == Len(s)
           g == [i \in 1..n |-> [x \in Text |-> IF i = 1 THEN s[1] ELSE x \o s[i]]]
           flatten == CHOOSE f : f = [i \in 1..n |->
                        IF i = 1 THEN s[i] ELSE f[i - 1] \o s[i]]
<1>0. n \in Nat /\ n >= 1
  OBVIOUS
<1>1. \A i \in 1..n : s[i] \in Text
  OBVIOUS
<1>2. g \in [1..n -> [Text -> Text]]
  <2> SUFFICES ASSUME NEW i \in 1..n, NEW x \in Text
               PROVE  (IF i = 1 THEN s[1] ELSE x \o s[i]) \in Text
    OBVIOUS
  <2>1. s[i] \in Text
    BY <1>1
  <2> QED
    BY <2>1 DEF Text
<1>3. PICK f \in [0..n -> Text] :
        f[0] = <<>> /\ \A i \in 1..n : f[i] = g[i][f[i - 1]]
  <2> DEFINE S == Text
  <2>1. n \in Nat /\ <<>> \in S /\ g \in [1..n -> [S -> S]]
    BY <1>0, <1>2 DEF Text
  <2> HIDE DEF g, n, S
  <2>2. \E f : Iterates(f, n, S, <<>>, g)
    BY <2>1, Recursion
  <2> QED
    BY <2>2 DEF S, Iterates
<1>4. \E h : h = [i \in 1..n |-> IF i = 1 THEN s[i] ELSE h[i - 1] \o s[i]]
  <2> DEFINE h == [i \in 1..n |-> f[i]]
  <2>1. ASSUME NEW i \in 1..n
        PROVE  h[i] = IF i = 1 THEN s[i] ELSE h[i - 1] \o s[i]
    <3>1. i - 1 \in 0..n
      BY <1>0
    <3>2. f[i - 1] \in Text /\ f[i] = g[i][f[i - 1]]
      BY <1>3, <3>1
    <3>3. f[i] = IF i = 1 THEN s[i] ELSE f[i - 1] \o s[i]
      BY <3>2
    <3>4. i # 1 => i - 1 \in 1..n
      BY <1>0
    <3> QED
      BY <3>3, <3>4
  <2>2. h = [i \in 1..n |-> h[i]]
    OBVIOUS
  <2> HIDE DEF h, g, n
  <2>3. h = [i \in 1..n |-> IF i = 1 THEN s[i] ELSE h[i - 1] \o s[i]]
    BY <2>1, <2>2
  <2> QED
    BY <2>3
<1>5. flatten = [i \in 1..n |-> IF i = 1 THEN s[i] ELSE flatten[i - 1] \o s[i]]
  BY <1>4
<1>6. FlattenSeq(s) = flatten[Len(s)]
  BY <1>0 DEF FlattenSeq
<1> HIDE DEF flatten, g
<1>7. IsFlat(flatten, s)
  <2>1. flatten[1] = s[1]
    BY <1>0, <1>5
  <2>2. ASSUME NEW i \in 2..Len(s) PROVE flatten[i] = flatten[i - 1] \o s[i]
    <3>1. i \in 1..n /\ i # 1
      BY <1>0
    <3> QED
      BY <3>1, <1>5
  <2> QED
    BY <2>1, <2>2 DEF IsFlat
<1> QED
  BY <1>6, <1>7

\* Two such functions agree on a common prefix.
LEMMA FlatAgree ==
    ASSUME NEW s \in Seq(Text), NEW u \in Seq(Text), NEW f, NEW g,
           s # <<>>, Len(s) <= Len(u), IsFlat(f, s), IsFlat(g, u),
           Inside(s, u, 0)
    PROVE  \A i \in 1..Len(s) : g[i] = f[i]
<1> DEFINE n == Len(s)
           T == {i \in 0..n : i > 0 => g[i] = f[i]}
<1>0. n \in Nat /\ n >= 1 /\ Len(u) \in Nat
  OBVIOUS
<1>3. \A i \in 1..n : u[i] = s[i]
  BY <1>0 DEF Inside
<1>1. 0 \in T
  BY <1>0
<1>2. \A i \in 0..n : i < n /\ i \in T => i + 1 \in T
  <2> SUFFICES ASSUME NEW i \in 0..n, i < n, i \in T PROVE i + 1 \in T
    OBVIOUS
  <2>1. i + 1 \in 0..n /\ i + 1 \in 1..Len(s)
    BY <1>0
  <2>2. CASE i = 0
    BY <1>0, <1>3, <2>1, <2>2 DEF IsFlat
  <2>3. CASE i # 0
    <3>1. i + 1 \in 2..Len(s) /\ i + 1 \in 2..Len(u) /\ (i + 1) - 1 = i
      BY <1>0, <2>1, <2>3
    <3>2. g[i] = f[i]
      BY <2>3
    <3>3. f[i + 1] = f[i] \o s[i + 1] /\ g[i + 1] = g[i] \o u[i + 1]
      BY <3>1 DEF IsFlat
    <3>4. u[i + 1] = s[i + 1]
      BY <1>3
    <3> QED
      BY <2>1, <3>2, <3>3, <3>4
  <2> QED
    BY <2>2, <2>3
<1> HIDE DEF T, n
<1>4. \A i \in 0..n : i \in T
  BY <1>0, <1>1, <1>2, Induct
<1> QED
  BY <1>0, <1>4 DEF T, n

\* A text more at the end.
LEMMA FlattenAppend ==
    ASSUME NEW s \in Seq(Text), NEW x \in Text
    PROVE  FlattenSeq(Append(s, x)) = FlattenSeq(s) \o x
<1> DEFINE u == Append(s, x)
<1>1. /\ u \in Seq(Text) /\ u # <<>> /\ Len(u) = Len(s) + 1 /\ Len(s) \in Nat
      /\ u[Len(u)] = x /\ \A i \in 1..Len(s) : u[i] = s[i]
  OBVIOUS
<1> HIDE DEF u
<1>5. Inside(s, u, 0)
  BY <1>1 DEF Inside
<1>2. PICK g : IsFlat(g, u) /\ FlattenSeq(u) = g[Len(u)]
  BY <1>1, FlattenIs
<1>3. CASE s = <<>>
  <2>1. Len(s) = 0 /\ Len(u) = 1 /\ FlattenSeq(s) = <<>>
    BY <1>1, <1>3 DEF FlattenSeq
  <2> QED
    <3>1. <<>> \o x = x
      BY DEF Text
    <3> QED
      BY <1>1, <1>2, <2>1, <3>1 DEF IsFlat, u
<1>4. CASE s # <<>>
  <2>1. PICK f : IsFlat(f, s) /\ FlattenSeq(s) = f[Len(s)]
    BY <1>4, FlattenIs
  <2>2. Len(s) <= Len(u) /\ Len(s) \in 1..Len(s)
    BY <1>1, <1>4
  <2>3. g[Len(s)] = f[Len(s)]
    BY <1>1, <1>2, <1>4, <1>5, <2>1, <2>2, FlatAgree
  <2>4. Len(u) \in 2..Len(u) /\ Len(u) - 1 = Len(s)
    BY <1>1, <2>2
  <2>5. g[Len(u)] = g[Len(s)] \o u[Len(u)]
    BY <1>2, <2>4 DEF IsFlat
  <2> QED
    BY <1>1, <1>2, <2>1, <2>3, <2>5 DEF u
<1> QED
  BY <1>3, <1>4

\* A concatenation of texts is a text.
LEMMA FlattenType ==
    ASSUME NEW s \in Seq(Text)
    PROVE  FlattenSeq(s) \in Text /\ FlattenSeq(<<>>) = <<>>
<1> DEFINE n == Len(s)
           T == {i \in 0..n : FlattenSeq(SubSeq(s, 1, i)) \in Text}
<1>0. n \in Nat
  OBVIOUS
<1>1. FlattenSeq(<<>>) = <<>> /\ <<>> \in Text
  BY DEF FlattenSeq, Text
<1>2. 0 \in T
  <2>1. SubSeq(s, 1, 0) = <<>>
    OBVIOUS
  <2> QED
    <3>1. FlattenSeq(SubSeq(s, 1, 0)) \in Text
      BY <1>1, <2>1, Zenon
    <3>2. 0 \in 0..n
      BY <1>0
    <3> QED
      BY <3>1, <3>2
<1>3. \A i \in 0..n : i < n /\ i \in T => i + 1 \in T
  <2> SUFFICES ASSUME NEW i \in 0..n, i < n, i \in T PROVE i + 1 \in T
    OBVIOUS
  <2> DEFINE a == SubSeq(s, 1, i)
             x == s[i + 1]
  <2>1. a \in Seq(Text) /\ x \in Text /\ SubSeq(s, 1, i + 1) = Append(a, x)
    OBVIOUS
  <2>2. FlattenSeq(a) \in Text
    OBVIOUS
  <2> HIDE DEF a, x
  <2>3. FlattenSeq(Append(a, x)) = FlattenSeq(a) \o x
    BY <2>1, FlattenAppend
  <2>4. FlattenSeq(a) \o x \in Text
    BY <2>1, <2>2 DEF Text
  <2>5. i + 1 \in 0..n
    BY <1>0
  <2> QED
    BY <2>1, <2>3, <2>4, <2>5
<1> HIDE DEF T, n
<1>4. \A i \in 0..n : i \in T
  BY <1>0, <1>2, <1>3, Induct
<1>5. n \in T
  BY <1>0, <1>4
<1>6. SubSeq(s, 1, n) = s
  BY DEF n
<1> QED
  BY <1>1, <1>5, <1>6 DEF T

\* A text more at the beginning.
LEMMA FlattenCons ==
    ASSUME NEW s \in Seq(Text), NEW y \in Text
    PROVE  FlattenSeq(<<y>> \o s) = y \o FlattenSeq(s)
<1> DEFINE n == Len(s)
           T == {i \in 0..n : FlattenSeq(<<y>> \o SubSeq(s, 1, i)) =
                                y \o FlattenSeq(SubSeq(s, 1, i))}
<1>0. n \in Nat
  OBVIOUS
<1>1. 0 \in T
  <2>1. SubSeq(s, 1, 0) = <<>> /\ <<y>> \o <<>> = Append(<<>>, y) /\ <<>> \in Seq(Text)
    OBVIOUS
  <2>2. FlattenSeq(Append(<<>>, y)) = FlattenSeq(<<>>) \o y /\ FlattenSeq(<<>>) = <<>>
    BY <2>1, FlattenAppend, FlattenType
  <2>3. <<>> \o y = y /\ y \o <<>> = y
    BY DEF Text
  <2> QED
    <3>1. FlattenSeq(<<y>> \o SubSeq(s, 1, 0)) =
            y \o FlattenSeq(SubSeq(s, 1, 0))
      BY <2>1, <2>2, <2>3, Zenon
    <3>2. 0 \in 0..n
      BY <1>0
    <3> QED
      BY <3>1, <3>2
<1>2. \A i \in 0..n : i < n /\ i \in T => i + 1 \in T
  <2> SUFFICES ASSUME NEW i \in 0..n, i < n, i \in T PROVE i + 1 \in T
    OBVIOUS
  <2> DEFINE a == SubSeq(s, 1, i)
             x == s[i + 1]
             b == <<y>> \o a
  <2>1. a \in Seq(Text) /\ x \in Text /\ SubSeq(s, 1, i + 1) = Append(a, x)
    OBVIOUS
  <2>2. FlattenSeq(b) = y \o FlattenSeq(a)
    OBVIOUS
  <2> HIDE DEF a, x
  <2>3. b \in Seq(Text) /\ <<y>> \o Append(a, x) = Append(b, x)
    BY <2>1
  <2> HIDE DEF b
  <2>4. FlattenSeq(Append(a, x)) = FlattenSeq(a) \o x /\ FlattenSeq(a) \in Text
    BY <2>1, FlattenAppend, FlattenType
  <2>5. FlattenSeq(Append(b, x)) = FlattenSeq(b) \o x
    BY <2>1, <2>3, FlattenAppend
  <2>6. (y \o FlattenSeq(a)) \o x = y \o (FlattenSeq(a) \o x)
    BY <2>1, <2>4, SMTT(40) DEF Text
  <2>7. i + 1 \in 0..n
    BY <1>0
  <2>8. FlattenSeq(<<y>> \o SubSeq(s, 1, i + 1)) =
          y \o FlattenSeq(SubSeq(s, 1, i + 1))
    BY <2>1, <2>2, <2>3, <2>4, <2>5, <2>6, Zenon
  <2> QED
    BY <2>7, <2>8
<1> HIDE DEF T, n
<1>3. \A i \in 0..n : i \in T
  BY <1>0, <1>1, <1>2, Induct
<1>4. n \in T
  BY <1>0, <1>3
<1>5. SubSeq(s, 1, n) = s
  BY DEF n
<1> QED
  BY <1>4, <1>5 DEF T


-----------------------------------------------------------------------------
(* Arrays                                                                  *)

\* What is got after each item.
IsGot(f, n, s, reader) == /\ f[0] = Ok(<<>>, s)
                          /\ \A i \in 1..n : f[i] = ReadItem(f[i - 1], reader)

\* There are such functions.
LEMMA GotExists ==
    ASSUME NEW n \in Nat, NEW s, NEW reader
    PROVE  \E f : DOMAIN f = 0..n /\ IsGot(f, n, s, reader)
<1> DEFINE Good(f, k) == DOMAIN f = 0..k /\ IsGot(f, k, s, reader)
           T == {k \in 0..n : \E f : Good(f, k)}
<1>1. 0 \in T
  <2>1. Good([m \in 0..0 |-> Ok(<<>>, s)], 0)
    BY DEF IsGot
  <2> HIDE DEF Good
  <2> QED
    BY <2>1
<1>2. ASSUME NEW k \in 0..n, k < n, k \in T
      PROVE  k + 1 \in T
  <2>1. PICK f : Good(f, k)
    <3> HIDE DEF Good
    <3> QED
      BY <1>2
  <2> DEFINE h == [m \in 0..k + 1 |->
                     IF m = k + 1 THEN ReadItem(f[k], reader) ELSE f[m]]
  <2>2. ASSUME NEW m \in 1..k + 1
        PROVE  h[m] = ReadItem(h[m - 1], reader)
    <3>1. m \in 0..k + 1 /\ m - 1 \in 0..k + 1 /\ m - 1 # k + 1
      OBVIOUS
    <3>2. CASE m = k + 1
      <4>1. h[m] = ReadItem(f[k], reader) /\ h[m - 1] = f[m - 1] /\ m - 1 = k
        BY <3>1, <3>2
      <4> QED
        BY <4>1
    <3>3. CASE m # k + 1
      <4>1. m \in 1..k /\ h[m] = f[m] /\ h[m - 1] = f[m - 1]
        BY <3>1, <3>3
      <4>2. f[m] = ReadItem(f[m - 1], reader)
        BY <2>1, <4>1 DEF IsGot
      <4> QED
        BY <4>1, <4>2
    <3> QED
      BY <3>2, <3>3
  <2>3. DOMAIN h = 0..k + 1 /\ h[0] = f[0]
    OBVIOUS
  <2>4. f[0] = Ok(<<>>, s)
    BY <2>1 DEF IsGot
  <2>5. Good(h, k + 1) /\ k + 1 \in 0..n
    <3> HIDE DEF h
    <3> QED
      BY <1>2, <2>2, <2>3, <2>4 DEF IsGot
  <2> HIDE DEF Good, h
  <2> QED
    BY <2>5
<1> HIDE DEF T
<1>3. \A k \in 0..n : k < n /\ k \in T => k + 1 \in T
  BY <1>2
<1>4. \A k \in 0..n : k \in T
  BY <1>1, <1>3, Induct
<1>5. n \in T
  BY <1>4
<1> HIDE DEF Good
<1>6. \E f : Good(f, n)
  BY <1>5 DEF T
<1> QED
  BY <1>6 DEF Good

\* ReadItems reads one item after the other.
LEMMA ItemsIs ==
    ASSUME NEW n \in Nat, NEW s, NEW reader
    PROVE  \E f : IsGot(f, n, s, reader) /\ ReadItems(n, s, reader) = f[n]
<1> DEFINE got == CHOOSE f : f = [i \in 0..n |-> IF i = 0 THEN Ok(<<>>, s)
                                                 ELSE ReadItem(f[i - 1], reader)]
<1>1. PICK f : DOMAIN f = 0..n /\ IsGot(f, n, s, reader)
  BY GotExists
<1>2. \E g : g = [i \in 0..n |-> IF i = 0 THEN Ok(<<>>, s)
                                 ELSE ReadItem(g[i - 1], reader)]
  <2> DEFINE g == [i \in 0..n |-> f[i]]
  <2>1. ASSUME NEW i \in 0..n
        PROVE  g[i] = IF i = 0 THEN Ok(<<>>, s) ELSE ReadItem(g[i - 1], reader)
    <3>1. CASE i = 0
      BY <1>1, <3>1 DEF IsGot
    <3>2. CASE i # 0
      <4>1. i \in 1..n /\ i - 1 \in 0..n
        BY <3>2
      <4>2. f[i] = ReadItem(f[i - 1], reader)
        BY <1>1, <4>1 DEF IsGot
      <4> QED
        BY <3>2, <4>1, <4>2
    <3> QED
      BY <3>1, <3>2
  <2>2. g = [i \in 0..n |-> g[i]]
    OBVIOUS
  <2> HIDE DEF g
  <2>3. g = [i \in 0..n |-> IF i = 0 THEN Ok(<<>>, s)
                            ELSE ReadItem(g[i - 1], reader)]
    BY <2>1, <2>2
  <2> QED
    BY <2>3
<1>3. got = [i \in 0..n |-> IF i = 0 THEN Ok(<<>>, s)
                            ELSE ReadItem(got[i - 1], reader)]
  BY <1>2
<1>4. ReadItems(n, s, reader) = got[n]
  BY DEF ReadItems
<1> HIDE DEF got
<1>5. IsGot(got, n, s, reader)
  <2>1. got[0] = Ok(<<>>, s)
    BY <1>3
  <2>2. ASSUME NEW i \in 1..n PROVE got[i] = ReadItem(got[i - 1], reader)
    <3>1. i \in 0..n /\ i # 0
      OBVIOUS
    <3> QED
      BY <3>1, <1>3
  <2> QED
    BY <2>1, <2>2 DEF IsGot
<1> QED
  BY <1>4, <1>5

\* One more item.
LEMMA ItemIs ==
    ASSUME NEW items, NEW s, NEW reader, NEW v, NEW rest
    PROVE  reader[s] = Ok(v, rest) =>
             ReadItem(Ok(items, s), reader) = Ok(Append(items, v), rest)
  BY Found DEF ReadItem, Then

\* A list whose next item cannot be read cannot be read.
LEMMA ItemFails ==
    ASSUME NEW items, NEW s, NEW reader
    PROVE  /\ reader[s] = Err => ReadItem(Ok(items, s), reader) = Err
           /\ ReadItem(Err, reader) = Err
<1>1. ReadItem(Err, reader) = Err
  BY Found DEF ReadItem, Then
<1>2. ASSUME reader[s] = Err PROVE ReadItem(Ok(items, s), reader) = Err
  BY <1>2, Found DEF ReadItem, Then
<1> QED
  BY <1>1, <1>2

\* What reads the values inside the value at each depth.
IsReader(f, n) == /\ f[0] = [w \in Text |-> More]
                  /\ \A d \in 1..n : f[d] = [w \in Text |-> ReadValue(w, f[d - 1])]

\* There are such functions.
LEMMA ReaderExists ==
    ASSUME NEW n \in Nat
    PROVE  \E f : DOMAIN f = 0..n /\ IsReader(f, n)
<1> DEFINE Good(f, k) == DOMAIN f = 0..k /\ IsReader(f, k)
           T == {k \in 0..n : \E f : Good(f, k)}
<1>1. 0 \in T
  <2>1. Good([m \in 0..0 |-> [w \in Text |-> More]], 0)
    BY DEF IsReader
  <2> HIDE DEF Good
  <2> QED
    BY <2>1
<1>2. ASSUME NEW k \in 0..n, k < n, k \in T
      PROVE  k + 1 \in T
  <2>1. PICK f : Good(f, k)
    <3> HIDE DEF Good
    <3> QED
      BY <1>2
  <2> DEFINE new == [w \in Text |-> ReadValue(w, f[k])]
             h == [m \in 0..k + 1 |-> IF m = k + 1 THEN new ELSE f[m]]
  <2>2. ASSUME NEW m \in 1..k + 1
        PROVE  h[m] = [w \in Text |-> ReadValue(w, h[m - 1])]
    <3>1. m \in 0..k + 1 /\ m - 1 \in 0..k + 1 /\ m - 1 # k + 1
      OBVIOUS
    <3>2. CASE m = k + 1
      <4>1. h[m] = new /\ h[m - 1] = f[m - 1] /\ m - 1 = k
        BY <3>1, <3>2
      <4> QED
        BY <4>1
    <3>3. CASE m # k + 1
      <4>1. m \in 1..k /\ h[m] = f[m] /\ h[m - 1] = f[m - 1]
        BY <3>1, <3>3
      <4>2. f[m] = [w \in Text |-> ReadValue(w, f[m - 1])]
        BY <2>1, <4>1 DEF IsReader
      <4> QED
        BY <4>1, <4>2
    <3> QED
      BY <3>2, <3>3
  <2>3. DOMAIN h = 0..k + 1 /\ h[0] = f[0]
    OBVIOUS
  <2>4. f[0] = [w \in Text |-> More]
    BY <2>1 DEF IsReader
  <2>5. Good(h, k + 1) /\ k + 1 \in 0..n
    <3> HIDE DEF h
    <3> QED
      BY <1>2, <2>2, <2>3, <2>4 DEF IsReader
  <2> HIDE DEF Good, h
  <2> QED
    BY <2>5
<1> HIDE DEF T
<1>3. \A k \in 0..n : k < n /\ k \in T => k + 1 \in T
  BY <1>2
<1>4. \A k \in 0..n : k \in T
  BY <1>1, <1>3, Induct
<1>5. n \in T
  BY <1>4
<1> HIDE DEF Good
<1>6. \E f : Good(f, n)
  BY <1>5 DEF T
<1> QED
  BY <1>6 DEF Good


\* ReadInterface reads a value, and the values inside it the same way.
LEMMA InterfaceIs ==
    ASSUME NEW s \in Text
    PROVE  /\ s = <<>> => ReadInterface(s) = More
           /\ s # <<>> => \E inner : ReadInterface(s) = ReadValue(s, inner)
           /\ Len(s) >= 2 => \E within :
                ReadInterface(s) =
                  ReadValue(s, [w \in Text |-> ReadValue(w, within)])
<1> DEFINE n == Len(s)
           read == CHOOSE f : f = [d \in 0..n |-> [w \in Text |->
                     IF d = 0 THEN More ELSE ReadValue(w, f[d - 1])]]
<1>0. n \in Nat
  BY DEF Text
<1>1. PICK f : DOMAIN f = 0..n /\ IsReader(f, n)
  <2> HIDE DEF n
  <2> QED
    BY <1>0, ReaderExists
<1>2. \E g : g = [d \in 0..n |-> [w \in Text |->
                    IF d = 0 THEN More ELSE ReadValue(w, g[d - 1])]]
  <2> DEFINE g == [d \in 0..n |-> f[d]]
  <2>1. ASSUME NEW d \in 0..n
        PROVE  g[d] = [w \in Text |->
                         IF d = 0 THEN More ELSE ReadValue(w, g[d - 1])]
    <3>1. CASE d = 0
      BY <1>0, <1>1, <3>1 DEF IsReader
    <3>2. CASE d # 0
      <4>1. d \in 1..n /\ d - 1 \in 0..n
        BY <1>0, <3>2
      <4>2. f[d] = [w \in Text |-> ReadValue(w, f[d - 1])]
        BY <1>1, <4>1 DEF IsReader
      <4> QED
        BY <3>2, <4>1, <4>2
    <3> QED
      BY <3>1, <3>2
  <2>2. g = [d \in 0..n |-> g[d]]
    OBVIOUS
  <2> HIDE DEF g
  <2>3. g = [d \in 0..n |-> [w \in Text |->
               IF d = 0 THEN More ELSE ReadValue(w, g[d - 1])]]
    BY <2>1, <2>2
  <2> QED
    BY <2>3
<1>3. read = [d \in 0..n |-> [w \in Text |->
                IF d = 0 THEN More ELSE ReadValue(w, read[d - 1])]]
  BY <1>2
<1>4. ReadInterface(s) = read[n][s]
  BY DEF ReadInterface
<1> HIDE DEF read
<1>5. \A d \in 0..n : d > 0 => read[d] = [w \in Text |-> ReadValue(w, read[d - 1])]
  <2> SUFFICES ASSUME NEW d \in 0..n, d > 0
               PROVE  read[d] = [w \in Text |-> ReadValue(w, read[d - 1])]
    OBVIOUS
  <2>1. d # 0
    BY <1>0
  <2>2. read[d] = [w \in Text |-> IF d = 0 THEN More ELSE ReadValue(w, read[d - 1])]
    BY <1>3
  <2> QED
    BY <2>1, <2>2
<1>6. ASSUME s = <<>> PROVE ReadInterface(s) = More
  <2>1. n = 0 /\ 0 \in 0..n
    BY <1>6
  <2>2. read[0] = [w \in Text |-> More]
    BY <1>3, <2>1
  <2> QED
    BY <1>4, <2>1, <2>2
<1>7. ASSUME n >= 2
      PROVE  ReadInterface(s) =
               ReadValue(s, [w \in Text |-> ReadValue(w, read[n - 2])])
  <2>1. n \in 0..n /\ n > 0 /\ n - 1 \in 0..n /\ n - 1 > 0 /\ (n - 1) - 1 = n - 2
    BY <1>0, <1>7
  <2>2. read[n] = [w \in Text |-> ReadValue(w, read[n - 1])]
    BY <1>5, <2>1
  <2>3. read[n - 1] = [w \in Text |-> ReadValue(w, read[n - 2])]
    BY <1>5, <2>1
  <2>4. read[n][s] = ReadValue(s, read[n - 1])
    BY <2>2
  <2> QED
    BY <1>4, <2>3, <2>4
<1>8. ASSUME s # <<>> PROVE ReadInterface(s) = ReadValue(s, read[n - 1])
  <2>1. n \in 0..n /\ n > 0
    BY <1>0, <1>8 DEF Text
  <2>2. read[n] = [w \in Text |-> ReadValue(w, read[n - 1])]
    BY <1>5, <2>1
  <2> QED
    BY <1>4, <2>2
<1> QED
  BY <1>6, <1>7, <1>8

\* The elements of an array.
LEMMA ArrayIs ==
    ASSUME NEW n \in 0..MaxLength, NEW t \in Text, NEW reader
    PROVE  /\ ReadValue(WriteLen("*", n) \o t, reader) =
                ReadArray(<<"*">> \o AppendInt(n), t, reader)
           /\ ReadBulkPayload(WriteLen("*", n) \o t) =
                ReadArray(<<"*">> \o AppendInt(n), t,
                          [w \in Text |-> ReadPayload(w)])
           /\ WriteLen("*", n) \in Text
<1> DEFINE p == "*"
           l == AppendInt(n)
           line == <<p>> \o l
<1>1. p \in Symbols /\ p \in {"$", "*"} /\ p = "*"
  BY SymbolIs
<1>2. CR \in Symbols /\ LF \in Symbols
  BY SymbolIs
<1>3. l \in Text /\ l # <<>> /\ IsNat(l) /\ ParseInt64(l) = n
  BY LengthIs
<1>4. ReadPrefixed(WriteLen(p, n) \o t) = Ok(line, t)
  BY <1>1, ReadLen
<1>5. WriteLen(p, n) = (<<p>> \o l) \o Delims
  BY DEF WriteLen
<1> HIDE DEF p, l
<1>6. WriteLen(p, n) \in Text
  <2>1. Delims \in Text
    BY <1>2 DEF Delims, Text
  <2>2. (<<p>> \o l) \o Delims \in Text
    BY <1>1, <1>3, <2>1 DEF Text
  <2> QED
    BY <1>5, <2>2
<1>7. line[1] = p /\ Tail(line) = l
  BY <1>1, <1>3, TagIs
<1>8. ReadValue(WriteLen(p, n) \o t, reader) = Value(line, t, reader)
  BY <1>4, PrefixedValue
<1>9. Value(line, t, reader) = ReadArray(line, t, reader)
  BY <1>1, <1>3, TagValue
<1> HIDE DEF line
<1>10. ReadBulkPayload(WriteLen(p, n) \o t) =
         ReadArray(line, t, [w \in Text |-> ReadPayload(w)])
  BY <1>1, <1>4, <1>7, Prefixed
<1> QED
  BY <1>1, <1>6, <1>8, <1>9, <1>10 DEF line, l

\* ReadArray returns what ReadItems returns.
LEMMA ArrayItems ==
    ASSUME NEW n \in 0..MaxLength, NEW t, NEW reader, NEW items, NEW rest
    PROVE  /\ ReadItems(n, t, reader) = Ok(items, rest) =>
                ReadArray(<<"*">> \o AppendInt(n), t, reader) =
                  Ok(Array(items), rest)
           /\ ReadItems(n, t, reader) = Err =>
                ReadArray(<<"*">> \o AppendInt(n), t, reader) = Err
<1> DEFINE l == AppendInt(n)
           line == <<"*">> \o l
<1>1. "*" \in Symbols
  BY SymbolIs
<1>2. l \in Text /\ l # <<>> /\ IsNat(l) /\ ParseInt64(l) = n
  BY LengthIs
<1> HIDE DEF l
<1>3. Tail(line) = l
  BY <1>1, <1>2, TagIs
<1> HIDE DEF line
<1>4. IsNat(Tail(line)) /\ ParseInt64(Tail(line)) = n
  BY <1>2, <1>3, Zenon
<1>7. n >= 0
  BY SizeIs
<1>8. IsInt(Tail(line)) /\ ParseInt64(Tail(line)) >= 0
  BY <1>4, <1>7 DEF IsInt
<1>5. ASSUME ReadItems(n, t, reader) = Ok(items, rest)
      PROVE  ReadArray(line, t, reader) = Ok(Array(items), rest)
  BY <1>4, <1>5, <1>8, Found DEF ReadArray, Then
<1>6. ASSUME ReadItems(n, t, reader) = Err
      PROVE  ReadArray(line, t, reader) = Err
  BY <1>4, <1>6, <1>8, Found DEF ReadArray, Then
<1> QED
  BY <1>5, <1>6 DEF line, l

\* A reader finds vals[i] in wires[i], whatever follows, unless i is bad.
Reads(reader, wires, vals, bad) ==
    \A i \in 1..Len(wires), u \in Text :
      reader[wires[i] \o u] = IF i \in bad THEN Err ELSE Ok(vals[i], u)

\* Then it finds all of vals in their concatenation, unless one is bad.
LEMMA ItemsRead ==
    ASSUME NEW wires \in Seq(Text), NEW V, NEW vals \in Seq(V), NEW bad, NEW reader,
           NEW t \in Text, Len(vals) = Len(wires),
           Reads(reader, wires, vals, bad)
    PROVE  ReadItems(Len(wires), FlattenSeq(wires) \o t, reader) =
             IF \E i \in 1..Len(wires) : i \in bad THEN Err ELSE Ok(vals, t)
<1> DEFINE n == Len(wires)
           After(i) == FlattenSeq(SubSeq(wires, i + 1, n)) \o t
           Bad(i) == \E j \in 1..i : j \in bad
<1>0. n \in Nat /\ Len(vals) = n
  OBVIOUS
<1>1. PICK f : /\ IsGot(f, n, FlattenSeq(wires) \o t, reader)
               /\ ReadItems(n, FlattenSeq(wires) \o t, reader) = f[n]
  <2> DEFINE s == FlattenSeq(wires) \o t
  <2> HIDE DEF n, s
  <2>1. \E f : IsGot(f, n, s, reader) /\ ReadItems(n, s, reader) = f[n]
    BY <1>0, ItemsIs
  <2> QED
    BY <2>1 DEF s
<1> DEFINE T == {i \in 0..n : f[i] = IF Bad(i) THEN Err
                                     ELSE Ok(SubSeq(vals, 1, i), After(i))}
<1>2. 0 \in T
  <2>1. SubSeq(wires, 0 + 1, n) = wires /\ SubSeq(vals, 1, 0) = <<>> /\ ~Bad(0)
    OBVIOUS
  <2>2. f[0] = Ok(<<>>, FlattenSeq(wires) \o t)
    BY <1>1 DEF IsGot
  <2>3. f[0] = IF Bad(0) THEN Err ELSE Ok(SubSeq(vals, 1, 0), After(0))
    <3> HIDE DEF Bad
    <3> QED
      BY <2>1, <2>2, Zenon
  <2>4. 0 \in 0..n
    BY <1>0
  <2> HIDE DEF Bad, After
  <2> QED
    BY <2>3, <2>4
<1>3. ASSUME NEW i \in 0..n, i < n, i \in T PROVE i + 1 \in T
  <2> DEFINE k == i + 1
             rest == SubSeq(wires, k + 1, n)
  <2>1. k \in 1..n /\ k \in 0..n /\ k - 1 = i
    BY <1>0, <1>3
  <2>2. f[k] = ReadItem(f[i], reader)
    BY <1>1, <2>1 DEF IsGot
  <2>3. f[i] = IF Bad(i) THEN Err ELSE Ok(SubSeq(vals, 1, i), After(i))
    <3> HIDE DEF Bad, After
    <3> QED
      BY <1>3
  <2>4. Bad(k) <=> Bad(i) \/ k \in bad
    BY <2>1
  <2>5. wires[k] \in Text /\ rest \in Seq(Text)
        /\ SubSeq(wires, k, n) = <<wires[k]>> \o rest
    BY <2>1
  <2>6. After(i) = wires[k] \o After(k) /\ After(k) \in Text
    <3> HIDE DEF rest
    <3>1. FlattenSeq(<<wires[k]>> \o rest) = wires[k] \o FlattenSeq(rest)
      BY <2>5, FlattenCons
    <3>2. FlattenSeq(rest) \in Text
      BY <2>5, FlattenType
    <3>3. (wires[k] \o FlattenSeq(rest)) \o t = wires[k] \o (FlattenSeq(rest) \o t)
          /\ FlattenSeq(rest) \o t \in Text
      <4>1. \A a, b \in Text : (a \o b) \o t = a \o (b \o t) /\ b \o t \in Text
        BY DEF Text
      <4> QED
        BY <2>5, <3>2, <4>1, Zenon
    <3> QED
      BY <2>5, <3>1, <3>3 DEF rest
  <2>7. reader[After(i)] = IF k \in bad THEN Err ELSE Ok(vals[k], After(k))
    <3> HIDE DEF After
    <3> QED
      BY <2>1, <2>6 DEF Reads
  <2>8. Append(SubSeq(vals, 1, i), vals[k]) = SubSeq(vals, 1, k)
    BY <1>0, <2>1
  <2> HIDE DEF Bad, After, k
  <2>9. f[k] = IF Bad(k) THEN Err ELSE Ok(SubSeq(vals, 1, k), After(k))
    <3>1. CASE Bad(i)
      BY <2>2, <2>3, <2>4, <3>1, ItemFails
    <3>2. CASE ~Bad(i) /\ k \in bad
      <4>1. f[i] = Ok(SubSeq(vals, 1, i), After(i)) /\ reader[After(i)] = Err
        BY <2>3, <2>7, <3>2
      <4>2. ReadItem(Ok(SubSeq(vals, 1, i), After(i)), reader) = Err
        BY <4>1, ItemFails
      <4> QED
        BY <2>2, <2>4, <3>2, <4>1, <4>2
    <3>3. CASE ~Bad(i) /\ k \notin bad
      <4>1. f[i] = Ok(SubSeq(vals, 1, i), After(i))
            /\ reader[After(i)] = Ok(vals[k], After(k))
        BY <2>3, <2>7, <3>3
      <4>2. ReadItem(Ok(SubSeq(vals, 1, i), After(i)), reader) =
              Ok(Append(SubSeq(vals, 1, i), vals[k]), After(k))
        BY <4>1, ItemIs
      <4> QED
        BY <2>2, <2>4, <2>8, <3>3, <4>1, <4>2
    <3> QED
      BY <3>1, <3>2, <3>3
  <2>10. k \in T
    BY <2>1, <2>9
  <2> QED
    BY <2>10 DEF k
<1>4. n \in T
  <2> HIDE DEF T, n
  <2>1. \A i \in 0..n : i < n /\ i \in T => i + 1 \in T
    BY <1>3
  <2>2. \A i \in 0..n : i \in T
    BY <1>0, <1>2, <2>1, Induct
  <2> QED
    BY <1>0, <2>2
<1>5. SubSeq(vals, 1, n) = vals /\ After(n) = t
  <2>1. SubSeq(wires, n + 1, n) = <<>> /\ SubSeq(vals, 1, n) = vals
    BY <1>0
  <2>2. FlattenSeq(<<>>) = <<>> /\ <<>> \o t = t
    BY FlattenType DEF Text
  <2> QED
    BY <2>1, <2>2
<1> HIDE DEF After
<1>6. f[n] = IF Bad(n) THEN Err ELSE Ok(vals, t)
  <2> HIDE DEF Bad
  <2> QED
    BY <1>4, <1>5
<1> QED
  BY <1>1, <1>6

\* Every text is short enough to be written with its length.
Short(data) == \A i \in 1..Len(data) : Len(data[i]) <= MaxLength

\* The server's redis reader recovers any list of texts from what WriteBulk
\* wrote, whatever is in the texts (line breaks, prefixes, the length of
\* another text) and whatever follows on the connection, which it leaves
\* there.
THEOREM BulkRoundTrip ==
    ASSUME NEW data \in Seq(Text), Len(data) <= MaxLength, Short(data),
           NEW t \in Text
    PROVE  /\ WriteBulk(data) \in Text
           /\ ReadBulkPayload(WriteBulk(data) \o t) =
                Ok(Array(Map(Bytes, data)), t)
<1> DEFINE n == Len(data)
           wires == [i \in 1..n |-> WriteBytes(data[i])]
           vals == [i \in 1..n |-> Bytes(data[i])]
           V == {Bytes(data[i]) : i \in 1..n}
           reader == [w \in Text |-> ReadPayload(w)]
           u == FlattenSeq(wires) \o t
<1>0. n \in Nat /\ n \in 0..MaxLength /\ DOMAIN data = 1..n
  BY SizeIs
<1>1. ASSUME NEW i \in 1..n
      PROVE  /\ wires[i] \in Text
             /\ \A x \in Text : ReadPayload(wires[i] \o x) = Ok(Bytes(data[i]), x)
  <2>1. data[i] \in Text /\ Len(data[i]) <= MaxLength
    BY <1>0 DEF Short
  <2> QED
    BY <2>1, BytesIs
<1>2. wires \in Seq(Text) /\ Len(wires) = n
  BY <1>0, <1>1
<1>3. vals \in Seq(V) /\ Len(vals) = n
  BY <1>0
<1>4. Reads(reader, wires, vals, {})
  <2> SUFFICES ASSUME NEW i \in 1..n, NEW x \in Text
               PROVE  reader[wires[i] \o x] = Ok(vals[i], x)
    BY <1>2 DEF Reads
  <2>1. wires[i] \o x \in Text
    BY <1>1 DEF Text
  <2> QED
    BY <1>1, <2>1
<1>5. FlattenSeq(wires) \in Text /\ u \in Text
  <2> HIDE DEF wires
  <2>1. FlattenSeq(wires) \in Text
    BY <1>2, FlattenType
  <2> QED
    BY <2>1 DEF Text
<1>6. WriteBulk(data) = WriteLen("*", n) \o FlattenSeq(wires)
  BY <1>0 DEF WriteBulk, Map
<1>7. Map(Bytes, data) = vals
  BY <1>0 DEF Map
<1> HIDE DEF wires, vals, reader, V
<1>8. ReadItems(n, u, reader) = Ok(vals, t)
  <2>1. ReadItems(Len(wires), FlattenSeq(wires) \o t, reader) =
          IF \E i \in 1..Len(wires) : i \in {} THEN Err ELSE Ok(vals, t)
    BY <1>2, <1>3, <1>4, ItemsRead
  <2> QED
    BY <1>2, <2>1
<1> HIDE DEF u, n
<1>9. /\ WriteLen("*", n) \in Text
      /\ ReadBulkPayload(WriteLen("*", n) \o u) =
           ReadArray(<<"*">> \o AppendInt(n), u, reader)
  BY <1>0, <1>5, ArrayIs DEF reader
<1>10. ReadArray(<<"*">> \o AppendInt(n), u, reader) = Ok(Array(vals), t)
  BY <1>0, <1>8, ArrayItems
<1>11. /\ WriteBulk(data) \in Text
       /\ WriteBulk(data) \o t = WriteLen("*", n) \o u
  BY <1>5, <1>6, <1>9 DEF Text, u
<1> QED
  BY <1>7, <1>9, <1>10, <1>11


\* Arguments the writers can be given, whose texts have no line break.
Sendable(v) == /\ v \in Scalar /\ Fits(v)
               /\ v.type = "string" => ~HasCRLF(v.text)

\* readInterface recovers any list of such arguments, types included, from
\* what WriteCommand wrote in the interface protocol, and leaves what follows;
\* it fails if one of them is of those the format cannot carry.
THEOREM ArrayRoundTrip ==
    ASSUME NEW args \in Seq({v \in Scalar : Sendable(v)}),
           Len(args) <= MaxLength, NEW t \in Text
    PROVE  /\ WriteArray(args) \in Text
           /\ ReadInterface(WriteArray(args) \o t) =
                IF \A i \in 1..Len(args) : CanReceive(args[i])
                  THEN Ok(Array([i \in 1..Len(args) |->
                                   Received("interface", args[i])]), t)
                  ELSE Err
<1> DEFINE n == Len(args)
           wires == [i \in 1..n |-> WriteInterface(args[i])]
           vals == [i \in 1..n |-> Received("interface", args[i])]
           V == {Received("interface", args[i]) : i \in 1..n}
           bad == {i \in 1..n : ~CanReceive(args[i])}
           u == FlattenSeq(wires) \o t
<1>0. n \in Nat /\ n \in 0..MaxLength /\ DOMAIN args = 1..n
  BY SizeIs
<1>1. ASSUME NEW i \in 1..n, NEW inner
      PROVE  /\ wires[i] \in Text
             /\ \A x \in Text : ReadValue(wires[i] \o x, inner) =
                  IF CanReceive(args[i]) THEN Ok(vals[i], x) ELSE Err
  <2> DEFINE v == args[i]
  <2>1. v \in Scalar /\ Fits(v) /\ (v.type = "string" => ~HasCRLF(v.text))
    BY <1>0 DEF Sendable
  <2>2. wires[i] = WriteInterface(v) /\ vals[i] = Received("interface", v)
    OBVIOUS
  <2> HIDE DEF v, wires, vals
  <2>3. WriteInterface(v) \in Text
    <3>1. <<>> \in Text
      BY DEF Text
    <3> QED
      BY <2>1, <3>1, ScalarIs
  <2>4. ASSUME NEW x \in Text
        PROVE  ReadValue(WriteInterface(v) \o x, inner) =
                 IF CanReceive(v) THEN Ok(Received("interface", v), x) ELSE Err
    BY <2>1, ScalarIs
  <2> QED
    BY <2>2, <2>3, <2>4 DEF v
<1>2. wires \in Seq(Text) /\ Len(wires) = n
  <2>1. \A i \in 1..n : wires[i] \in Text
    BY <1>1
  <2>2. \A i \in 1..n : WriteInterface(args[i]) \in Text
    BY <2>1
  <2> QED
    BY <1>0, <2>2
<1>3. vals \in Seq(V) /\ Len(vals) = n
  BY <1>0
<1>5. FlattenSeq(wires) \in Text /\ u \in Text
  <2> HIDE DEF wires
  <2>1. FlattenSeq(wires) \in Text
    BY <1>2, FlattenType
  <2> QED
    BY <2>1 DEF Text
<1>6. WriteArray(args) = WriteLen("*", n) \o FlattenSeq(wires)
  BY <1>0 DEF WriteArray, Map
<1> DEFINE s == WriteLen("*", n) \o u
<1>7. WriteLen("*", n) \in Text /\ WriteLen("*", n) = (<<"*">> \o AppendInt(n)) \o Delims
  BY <1>0, <1>5, ArrayIs DEF WriteLen
<1>8. /\ WriteArray(args) \in Text /\ WriteArray(args) \o t = s
      /\ s \in Text
  <2> HIDE DEF wires
  <2> QED
    BY <1>5, <1>6, <1>7 DEF Text
<1>9. Len(s) >= 2
  <2>1. AppendInt(n) \in Text /\ CR \in Symbols /\ LF \in Symbols /\ "*" \in Symbols
    BY <1>0, LengthIs, SymbolIs
  <2>2. Len(WriteLen("*", n)) >= 2
    BY <1>7, <2>1 DEF Text, Delims
  <2> HIDE DEF u
  <2> QED
    BY <1>5, <1>7, <2>2 DEF Text
<1> HIDE DEF s
<1>10. PICK within : ReadInterface(s) =
         ReadValue(s, [w \in Text |-> ReadValue(w, within)])
  BY <1>8, <1>9, InterfaceIs
<1> DEFINE reader == [w \in Text |-> ReadValue(w, within)]
<1>4. Reads(reader, wires, vals, bad)
  <2> SUFFICES ASSUME NEW i \in 1..n, NEW x \in Text
               PROVE  reader[wires[i] \o x] =
                        IF i \in bad THEN Err ELSE Ok(vals[i], x)
    BY <1>2 DEF Reads
  <2> HIDE DEF wires, vals
  <2>1. wires[i] \in Text /\ ReadValue(wires[i] \o x, within) =
          IF CanReceive(args[i]) THEN Ok(vals[i], x) ELSE Err
    BY <1>1
  <2>2. wires[i] \o x \in Text
    BY <2>1 DEF Text
  <2> QED
    BY <2>1, <2>2
<1> HIDE DEF wires, vals, reader, V
<1>11. ReadItems(n, u, reader) =
         IF \E i \in 1..n : i \in bad THEN Err ELSE Ok(vals, t)
  <2> HIDE DEF bad
  <2>1. ReadItems(Len(wires), FlattenSeq(wires) \o t, reader) =
          IF \E i \in 1..Len(wires) : i \in bad THEN Err ELSE Ok(vals, t)
    BY <1>2, <1>3, <1>4, ItemsRead
  <2> QED
    BY <1>2, <2>1
<1>12. ReadValue(s, reader) = ReadArray(<<"*">> \o AppendInt(n), u, reader)
  <2> HIDE DEF u, n
  <2> QED
    BY <1>0, <1>5, ArrayIs DEF s
<1>13. CASE \A i \in 1..n : CanReceive(args[i])
  <2>1. ReadItems(n, u, reader) = Ok(vals, t)
    BY <1>11, <1>13
  <2>2. ReadArray(<<"*">> \o AppendInt(n), u, reader) = Ok(Array(vals), t)
    <3> HIDE DEF u, n
    <3> QED
      BY <1>0, <2>1, ArrayItems
  <2> QED
    BY <1>8, <1>10, <1>12, <1>13, <2>2 DEF vals, reader
<1>14. CASE ~(\A i \in 1..n : CanReceive(args[i]))
  <2>1. ReadItems(n, u, reader) = Err
    BY <1>11, <1>14
  <2>2. ReadArray(<<"*">> \o AppendInt(n), u, reader) = Err
    <3> HIDE DEF u, n
    <3> QED
      BY <1>0, <2>1, ArrayItems
  <2> QED
    BY <1>8, <1>10, <1>12, <1>14, <2>2 DEF vals, reader
<1> QED
  BY <1>13, <1>14


-----------------------------------------------------------------------------
(* Replies                                                                 *)

\* There is nothing to read in an empty text.
LEMMA EmptyIs ==
    ASSUME NEW inner
    PROVE  /\ <<>> \in Text /\ ReadValue(<<>>, inner) = More
           /\ ReadInterface(<<>>) = More
           /\ ReadBulkPayload(<<>>) = More /\ ReadBulk(<<>>) = More
<1>1. <<>> \in Text /\ Len(<<>>) = 0
  BY DEF Text
<1>2. Index(<<>>, LF) = 0
  BY <1>1, NoneIs
<1>3. ReadSlice(<<>>) = More
  <2>1. Len(<<>>) < BufferSize /\ 0 \notin 1..BufferSize
    BY <1>1, SizeIs
  <2> QED
    BY <1>2, <2>1 DEF ReadSlice
<1>4. ReadLine(<<>>) = More /\ ReadLineInvariant(<<>>) = More
  BY <1>3, NoLine, Found
<1>5. ReadPrefixed(<<>>) = More
  BY <1>4, PrefixedIs, Found
<1>6. ReadValue(<<>>, inner) = More /\ ReadBulkPayload(<<>>) = More
  BY <1>5, Unprefixed, Found
<1>7. ReadBulk(<<>>) = More
  BY <1>4, Found DEF ReadBulk, Then
<1>8. ReadInterface(<<>>) = More
  BY <1>1, InterfaceIs
<1> QED
  BY <1>1, <1>6, <1>7, <1>8

\* A value that is read the same way whatever reads the values inside it.
Always(s, r) == \A inner : ReadValue(s, inner) = r

\* It is also what readInterface makes of it.
LEMMA ReplyIs ==
    ASSUME NEW s \in Text, NEW r, Always(s, r)
    PROVE  ReadInterface(s) = r
<1>1. CASE s = <<>>
  <2>1. ReadValue(<<>>, <<>>) = More /\ ReadInterface(<<>>) = More
    BY EmptyIs
  <2> QED
    BY <1>1, <2>1 DEF Always
<1>2. CASE s # <<>>
  <2>1. PICK inner : ReadInterface(s) = ReadValue(s, inner)
    BY <1>2, InterfaceIs
  <2> QED
    BY <2>1 DEF Always
<1> QED
  BY <1>1, <1>2

\* Two symbols.
LEMMA PairIs ==
    ASSUME NEW e \in Symbols, NEW c \in Symbols
    PROVE  <<e>> \o <<c>> = <<e, c>> /\ <<e, c>> \in Text
<1>1. <<e>> \in Seq(Symbols) /\ <<c>> \in Seq(Symbols) /\ <<e, c>> \in Seq(Symbols)
  OBVIOUS
<1>2. /\ Len(<<e>> \o <<c>>) = 2 /\ Len(<<e, c>>) = 2
      /\ <<e>> \o <<c>> \in Seq(Symbols)
  BY <1>1
<1>3. \A i \in 1..2 : (<<e>> \o <<c>>)[i] = <<e, c>>[i]
  BY <1>1
<1> QED
  BY <1>1, <1>2, <1>3, SeqEqual DEF Text

\* What the caller makes of a string, an argument and an error.
LEMMA StringReply ==
    ASSUME NEW x \in Text
    PROVE  /\ WriteString(x) \in Text
           /\ Readable(x) => ReadInterface(WriteString(x)) = Ok(String(x), <<>>)
           /\ ~Readable(x) /\ ~HasCRLF(x) => ReadInterface(WriteString(x)) = Err
<1>1. <<>> \in Text
  BY DEF Text
<1>2. WriteString(x) \in Text
  BY <1>1, StringIs
<1>3. WriteString(x) \o <<>> = WriteString(x)
  BY <1>2 DEF Text
<1>4. ASSUME NEW inner
      PROVE  /\ Readable(x) =>
                  ReadValue(WriteString(x), inner) = Ok(String(x), <<>>)
             /\ ~Readable(x) /\ ~HasCRLF(x) =>
                  ReadValue(WriteString(x), inner) = Err
  <2> DEFINE e == <<>>
  <2>1. e \in Text /\ WriteString(x) \o e = WriteString(x)
    BY <1>1, <1>3
  <2> HIDE DEF e
  <2>2. /\ Readable(x) =>
             ReadValue(WriteString(x) \o e, inner) = Ok(String(x), e)
        /\ ~Readable(x) /\ ~HasCRLF(x) =>
             ReadValue(WriteString(x) \o e, inner) = Err
    BY <2>1, StringIs
  <2> QED
    BY <2>1, <2>2 DEF e
<1>5. /\ Readable(x) => Always(WriteString(x), Ok(String(x), <<>>))
      /\ ~Readable(x) /\ ~HasCRLF(x) => Always(WriteString(x), Err)
  BY <1>4 DEF Always
<1> QED
  BY <1>2, <1>5, ReplyIs

\* A scalar that the format can carry, as a reply.
LEMMA ScalarReply ==
    ASSUME NEW v, Sendable(v), CanReceive(v)
    PROVE  ReadInterface(WriteInterface(v)) = Ok(Received("interface", v), <<>>)
<1>1. <<>> \in Text /\ v \in Scalar /\ Fits(v)
  BY DEF Text, Sendable
<1>2. WriteInterface(v) \in Text
  BY <1>1, ScalarIs
<1>3. WriteInterface(v) \o <<>> = WriteInterface(v)
  BY <1>2 DEF Text
<1>4. Always(WriteInterface(v), Ok(Received("interface", v), <<>>))
  BY <1>1, <1>3, ScalarIs DEF Always
<1> QED
  BY <1>2, <1>4, ReplyIs

\* An error comes back with its prefix.
LEMMA ErrorReply ==
    ASSUME NEW c \in Symbols, c # LF
    PROVE  /\ WriteError(<<c>>) \in Text
           /\ ReadInterface(WriteError(<<c>>)) = Ok(Error(<<"ERR ", c>>), <<>>)
<1> DEFINE x == <<c>>
<1>1. <<>> \in Text /\ x \in Text /\ Len(x) = 1 /\ ToSet(x) = {c}
  BY DEF Text, ToSet
<1>2. <<"ERR ">> \o x = <<"ERR ", c>>
  <2> DEFINE e == "ERR "
  <2>1. e \in Symbols
    BY SymbolIs
  <2> HIDE DEF e
  <2>2. <<e>> \o x = <<e, c>>
    BY <2>1, PairIs
  <2> QED
    BY <2>2 DEF e
<1> HIDE DEF x
<1>3. LF \notin ToSet(x) /\ Len(x) + 4 <= BufferSize
  <2>1. Len(x) + 4 <= BufferSize
    BY <1>1, SizeIs
  <2> QED
    BY <1>1, <2>1
<1>4. WriteError(x) \in Text
  BY <1>1, <1>3, ErrorIs
<1>5. WriteError(x) \o <<>> = WriteError(x)
  BY <1>4 DEF Text
<1>6. Always(WriteError(x), Ok(Error(<<"ERR ">> \o x), <<>>))
  BY <1>1, <1>3, <1>5, ErrorIs DEF Always
<1>7. ReadInterface(WriteError(x)) = Ok(Error(<<"ERR ">> \o x), <<>>)
  BY <1>4, <1>6, ReplyIs
<1> QED
  BY <1>2, <1>4, <1>7 DEF x

\* The symbols that handlers write.
LEMMA WordIs ==
    /\ "PONG" \in Symbols /\ "OK" \in Symbols /\ "{" \in Symbols
    /\ "}" \in Symbols /\ "key" \in Symbols /\ "arguments" \in Symbols
    /\ "not found" \in Symbols /\ "a" \in Symbols
<1>1. ToSet(Words) \subseteq Symbols
  BY ConversationAssumption
<1>2. DOMAIN Words = 1..8
  BY DEF Words
<1>3. \A i \in 1..8 : Words[i] \in Symbols
  BY <1>1, <1>2 DEF ToSet
<1>4. /\ Words[1] = "PONG" /\ Words[2] = "OK" /\ Words[3] = "{" /\ Words[4] = "}"
      /\ Words[5] = "key" /\ Words[6] = "arguments" /\ Words[7] = "not found"
      /\ Words[8] = "a"
  BY DEF Words
<1>5. /\ Words[1] \in Symbols /\ Words[2] \in Symbols /\ Words[3] \in Symbols
      /\ Words[4] \in Symbols /\ Words[5] \in Symbols /\ Words[6] \in Symbols
      /\ Words[7] \in Symbols /\ Words[8] \in Symbols
  BY <1>3
<1> QED
  BY <1>4, <1>5, Zenon

\* A string of one symbol.
LEMMA WordReply ==
    ASSUME NEW c \in Symbols, c # LF
    PROVE  /\ <<c>> \in Text /\ Readable(<<c>>)
           /\ ReadInterface(WriteString(<<c>>)) = Ok(String(<<c>>), <<>>)
<1> DEFINE x == <<c>>
<1>1. x \in Text /\ Len(x) = 1 /\ ToSet(x) = {c} /\ x # <<>>
  BY DEF Text, ToSet
<1> HIDE DEF x
<1>2. Readable(x)
  <2>1. Len(x) + 3 <= BufferSize
    BY <1>1, SizeIs
  <2> QED
    BY <1>1, <2>1 DEF Readable
<1> QED
  BY <1>1, <1>2, StringReply DEF x


\* The reply to INFO and CMDS.
LEMMA JsonReply ==
    /\ WriteJson(<<"{", "}">>) \in Text
    /\ ReadInterface(WriteJson(<<"{", "}">>)) = Ok(Json, <<>>)
<1> DEFINE p == "~"
           j == "json"
           l == <<j>>
           b == <<"{", "}">>
           u == WriteBytes(b)
           s == ((<<p>> \o l) \o Delims) \o u
<1>1. /\ p \in Symbols /\ p \notin {CR, LF} /\ p = "~"
      /\ j \in Symbols /\ j # LF
  BY SymbolIs DEF CR, LF
<1>2. CR \in Symbols /\ LF \in Symbols
  BY SymbolIs
<1>3. b \in Text /\ Len(b) = 2
  BY WordIs, PairIs
<1>4. Len(b) <= MaxLength
  <2>1. 3 <= MaxLength /\ MaxLength \in Nat
    BY ConversationAssumption, SizeIs
  <2> HIDE DEF b
  <2> QED
    BY <1>3, <2>1
<1>5. WriteJson(b) = s
  <2>1. <<p, j>> = <<p>> \o l
    <3> HIDE DEF p, j
    <3> QED
      BY <1>1, PairIs
  <2> QED
    BY <2>1 DEF WriteJson
<1>6. <<>> \in Text
  BY DEF Text
<1> HIDE DEF b
<1>7. u \in Text
  BY <1>3, <1>4, <1>6, BytesIs
<1>8. \A inner : ReadValue(u, inner) = Ok(Bytes(b), <<>>)
  <2> DEFINE e == <<>>
  <2>1. e \in Text /\ u \o e = u
    BY <1>6, <1>7 DEF Text
  <2> HIDE DEF e
  <2>2. \A inner : ReadValue(WriteBytes(b) \o e, inner) = Ok(Bytes(b), e)
    BY <1>3, <1>4, <2>1, BytesIs
  <2> QED
    BY <2>1, <2>2 DEF e
<1> HIDE DEF j, p, u
<1>9. l \in Text /\ l # <<>> /\ ToSet(l) = {j} /\ Len(l) = 1
  BY <1>1 DEF Text, ToSet
<1>10. Readable(l)
  <2>1. Len(l) + 3 <= BufferSize
    BY <1>9, SizeIs
  <2> HIDE DEF l
  <2> QED
    BY <1>1, <1>9, <2>1 DEF Readable
<1>11. Head(<<p>> \o l) = "~" /\ Tail(<<p>> \o l) = <<"json">>
  <2> HIDE DEF l
  <2>1. Head(<<p>> \o l) = p /\ Tail(<<p>> \o l) = l
    BY <1>1, <1>9, TagIs
  <2> QED
    BY <1>1, <2>1 DEF l, j
<1> HIDE DEF l
<1>12. s \in Text /\ Len(s) >= 2
  <2>1. Delims \in Text /\ Len(Delims) = 2
    BY <1>2 DEF Delims, Text
  <2>2. (<<p>> \o l) \o Delims \in Text /\ Len((<<p>> \o l) \o Delims) >= 2
    BY <1>1, <1>9, <2>1 DEF Text
  <2> QED
    BY <1>7, <2>2 DEF Text
<1> HIDE DEF s
<1>13. PICK within : ReadInterface(s) =
         ReadValue(s, [w \in Text |-> ReadValue(w, within)])
  BY <1>12, InterfaceIs
<1> DEFINE inner == [w \in Text |-> ReadValue(w, within)]
<1>14. inner[u] = Ok(Bytes(b), <<>>)
  BY <1>7, <1>8
<1> HIDE DEF inner
<1>15. ReadValue(s, inner) = Value(<<p>> \o l, u, inner)
  BY <1>1, <1>7, <1>9, <1>10, TaggedValue DEF s
<1>16. Value(<<p>> \o l, u, inner) = Ok(Json, <<>>)
  BY <1>11, <1>14, JsonIs
<1> QED
  BY <1>5, <1>12, <1>13, <1>15, <1>16 DEF inner, b


\* The reply to KEYS can be read if there is at most one key: the others are
\* empty strings.
LEMMA KeysReply ==
    ASSUME NEW n \in 0..MaxKeys
    PROVE  /\ Keys(n) \in Text
           /\ ReadInterface(Keys(n)) =
                IF n > 1 THEN Err
                ELSE Ok(Array([i \in 1..n |-> String(<<"key">>)]), <<>>)
<1> DEFINE text(i) == IF i = 1 THEN <<"key">> ELSE <<>>
           wires == [i \in 1..n |-> WriteString(text(i))]
           key == String(<<"key">>)
           vals == [i \in 1..n |-> key]
           e == <<>>
           u == FlattenSeq(wires) \o e
           bad == 2..n
<1>0. n \in Nat /\ n \in 0..MaxLength
  BY ConversationAssumption, SizeIs
<1>1. e \in Text /\ ~Readable(e) /\ ~HasCRLF(e)
  BY DEF Text, Readable, HasCRLF
<1>2. <<"key">> \in Text /\ Readable(<<"key">>)
  <2>1. "key" \in Symbols /\ "key" # LF
    BY WordIs DEF LF
  <2> QED
    BY <2>1, WordReply
<1>3. ASSUME NEW i \in 1..n, NEW inner
      PROVE  /\ wires[i] \in Text
             /\ \A x \in Text : ReadValue(wires[i] \o x, inner) =
                  IF i \in bad THEN Err ELSE Ok(key, x)
  <2>1. CASE i = 1
    <3> DEFINE k == <<"key">>
    <3>1. wires[i] = WriteString(k) /\ i \notin bad /\ key = String(k)
      BY <1>0, <2>1
    <3>2. k \in Text /\ Readable(k)
      BY <1>2
    <3> HIDE DEF k, bad, key
    <3>3. \A x \in Text : ReadValue(WriteString(k) \o x, inner) = Ok(String(k), x)
      BY <3>2, StringIs
    <3>4. WriteString(k) \in Text
      BY <3>2, StringReply
    <3> HIDE DEF wires
    <3> QED
      BY <3>1, <3>3, <3>4
  <2>2. CASE i # 1
    <3>1. wires[i] = WriteString(e) /\ i \in bad
      BY <1>0, <2>2
    <3> HIDE DEF e, bad, key
    <3>2. \A x \in Text : ReadValue(WriteString(e) \o x, inner) = Err
      BY <1>1, StringIs
    <3>3. WriteString(e) \in Text
      BY <1>1, StringReply
    <3> HIDE DEF wires
    <3> QED
      BY <3>1, <3>2, <3>3
  <2> QED
    BY <2>1, <2>2
<1>4. wires \in Seq(Text) /\ Len(wires) = n
  <2>1. \A i \in 1..n : wires[i] \in Text
    BY <1>3
  <2>2. \A i \in 1..n : WriteString(text(i)) \in Text
    BY <2>1
  <2> HIDE DEF text
  <2> QED
    BY <1>0, <2>2
<1>5. vals \in Seq({key}) /\ Len(vals) = n /\ \A i \in 1..n : vals[i] = key
  <2> HIDE DEF key
  <2> QED
    BY <1>0
<1>6. Keys(n) = WriteLen("*", n) \o FlattenSeq(wires)
  BY DEF Keys
<1> HIDE DEF wires, vals, key, e, text
<1>7. FlattenSeq(wires) \in Text /\ u \in Text /\ FlattenSeq(wires) = u
  <2>1. FlattenSeq(wires) \in Text
    BY <1>4, FlattenType
  <2> QED
    BY <1>1, <2>1 DEF Text, e
<1> DEFINE s == WriteLen("*", n) \o u
<1>8. WriteLen("*", n) \in Text /\ WriteLen("*", n) = (<<"*">> \o AppendInt(n)) \o Delims
  BY <1>0, <1>7, ArrayIs DEF WriteLen
<1>9. s \in Text /\ Len(s) >= 2
  <2>1. AppendInt(n) \in Text /\ CR \in Symbols /\ LF \in Symbols /\ "*" \in Symbols
    BY <1>0, LengthIs, SymbolIs
  <2>2. Len(WriteLen("*", n)) >= 2
    BY <1>8, <2>1 DEF Text, Delims
  <2> HIDE DEF u
  <2> QED
    BY <1>7, <1>8, <2>2 DEF Text
<1>10. Keys(n) = s
  BY <1>6, <1>7
<1> HIDE DEF s
<1>11. PICK within : ReadInterface(s) =
         ReadValue(s, [w \in Text |-> ReadValue(w, within)])
  BY <1>9, InterfaceIs
<1> DEFINE reader == [w \in Text |-> ReadValue(w, within)]
<1>12. Reads(reader, wires, vals, bad)
  <2> SUFFICES ASSUME NEW i \in 1..n, NEW x \in Text
               PROVE  reader[wires[i] \o x] =
                        IF i \in bad THEN Err ELSE Ok(vals[i], x)
    BY <1>4 DEF Reads
  <2> HIDE DEF bad
  <2>1. wires[i] \in Text /\ ReadValue(wires[i] \o x, within) =
          IF i \in bad THEN Err ELSE Ok(key, x)
    BY <1>3
  <2>2. wires[i] \o x \in Text
    BY <2>1 DEF Text
  <2> QED
    BY <1>5, <2>1, <2>2
<1> HIDE DEF reader
<1>13. ReadItems(n, u, reader) =
         IF \E i \in 1..n : i \in bad THEN Err ELSE Ok(vals, e)
  <2> HIDE DEF bad
  <2>1. ReadItems(Len(wires), FlattenSeq(wires) \o e, reader) =
          IF \E i \in 1..Len(wires) : i \in bad THEN Err ELSE Ok(vals, e)
    BY <1>1, <1>4, <1>5, <1>12, ItemsRead
  <2> QED
    BY <1>4, <2>1
<1>14. (\E i \in 1..n : i \in bad) <=> n > 1
  BY <1>0
<1>15. ReadValue(s, reader) = ReadArray(<<"*">> \o AppendInt(n), u, reader)
  <2> HIDE DEF u
  <2> QED
    BY <1>0, <1>7, ArrayIs DEF s
<1> HIDE DEF u, bad
<1>16. CASE n > 1
  <2>1. ReadArray(<<"*">> \o AppendInt(n), u, reader) = Err
    BY <1>0, <1>13, <1>14, <1>16, ArrayItems
  <2> QED
    BY <1>9, <1>10, <1>11, <1>15, <1>16, <2>1 DEF reader
<1>17. CASE ~(n > 1)
  <2>1. ReadItems(n, u, reader) = Ok(vals, e)
    BY <1>13, <1>14, <1>17
  <2>2. ReadArray(<<"*">> \o AppendInt(n), u, reader) = Ok(Array(vals), e)
    BY <1>0, <2>1, ArrayItems
  <2> QED
    BY <1>9, <1>10, <1>11, <1>15, <1>17, <2>2 DEF reader, vals, key, e
<1> QED
  BY <1>16, <1>17

-----------------------------------------------------------------------------
(* The line protocol                                                       *)

\* The texts joined so far.
IsJoin(f, s) == /\ f \in [0..Len(s) -> Text]
                /\ \A i \in 1..Len(s) :
                     f[i] = IF i = 1 THEN s[1] ELSE f[i - 1] \o <<SP>> \o s[i]

\* Join, text by text.
LEMMA JoinIs ==
    ASSUME NEW s \in Seq(Text)
    PROVE  \E f : IsJoin(f, s) /\ f[0] = <<>> /\ Join(s) = f[Len(s)]
<1> DEFINE n == Len(s)
           g == [i \in 1..n |-> [x \in Text |->
                   IF i = 1 THEN s[1] ELSE x \o <<SP>> \o s[i]]]
           join == CHOOSE f : f = [i \in 0..n |->
                     IF i = 0 THEN <<>>
                     ELSE IF i = 1 THEN s[1] ELSE f[i - 1] \o <<SP>> \o s[i]]
<1>0. n \in Nat
  OBVIOUS
<1>1. SP \in Symbols /\ <<>> \in Text
  <2>1. <<>> \in Text
    BY DEF Text
  <2> QED
    BY <2>1, SymbolIs
<1>2. \A x, y \in Text : x \o <<SP>> \o y \in Text
  BY <1>1 DEF Text
<1>3. \A i \in 1..n : s[i] \in Text
  OBVIOUS
<1>4. g \in [1..n -> [Text -> Text]]
  BY <1>0, <1>2, <1>3
<1>5. PICK f \in [0..n -> Text] :
        f[0] = <<>> /\ \A i \in 1..n : f[i] = g[i][f[i - 1]]
  <2> DEFINE e == <<>>
  <2>1. n \in Nat /\ e \in Text /\ g \in [1..n -> [Text -> Text]]
    BY <1>0, <1>1, <1>4
  <2> HIDE DEF g, n, e
  <2>2. \E f : Iterates(f, n, Text, e, g)
    BY <2>1, Recursion
  <2> QED
    BY <2>2 DEF Iterates, e
<1>6. ASSUME NEW i \in 1..n
      PROVE  f[i] = IF i = 1 THEN s[1] ELSE f[i - 1] \o <<SP>> \o s[i]
  <2>1. i - 1 \in 0..n
    BY <1>0
  <2>2. f[i - 1] \in Text /\ f[i] = g[i][f[i - 1]]
    BY <1>5, <2>1
  <2> QED
    BY <2>2
<1> HIDE DEF g
<1>7. f = [i \in 0..n |-> IF i = 0 THEN <<>>
                          ELSE IF i = 1 THEN s[1]
                          ELSE f[i - 1] \o <<SP>> \o s[i]]
  <2>1. \A i \in 0..n : f[i] = IF i = 0 THEN <<>>
                               ELSE IF i = 1 THEN s[1]
                               ELSE f[i - 1] \o <<SP>> \o s[i]
    <3> SUFFICES ASSUME NEW i \in 0..n
                 PROVE  f[i] = IF i = 0 THEN <<>>
                               ELSE IF i = 1 THEN s[1]
                               ELSE f[i - 1] \o <<SP>> \o s[i]
      OBVIOUS
    <3>1. CASE i = 0
      BY <1>5, <3>1
    <3>2. CASE i # 0
      <4>1. i \in 1..n
        BY <1>0, <3>2
      <4> QED
        BY <1>6, <3>2, <4>1
    <3> QED
      BY <3>1, <3>2
  <2>2. f = [i \in 0..n |-> f[i]]
    BY <1>5
  <2> QED
    BY <2>1, <2>2
<1>8. join = [i \in 0..n |-> IF i = 0 THEN <<>>
                             ELSE IF i = 1 THEN s[1]
                             ELSE join[i - 1] \o <<SP>> \o s[i]]
  BY <1>7
<1>9. Join(s) = join[n]
  BY DEF Join
<1> HIDE DEF join
<1>10. join[0] = <<>>
  BY <1>0, <1>8
<1>11. \A i \in 1..n :
         join[i] = IF i = 1 THEN s[1] ELSE join[i - 1] \o <<SP>> \o s[i]
  <2> SUFFICES ASSUME NEW i \in 1..n
               PROVE  join[i] = IF i = 1 THEN s[1]
                                ELSE join[i - 1] \o <<SP>> \o s[i]
    OBVIOUS
  <2>1. i \in 0..n /\ i # 0
    BY <1>0
  <2> QED
    BY <2>1, <1>8
<1>12. \A i \in 0..n : join[i] \in Text
  <2> DEFINE T == {i \in 0..n : join[i] \in Text}
  <2>1. 0 \in T
    BY <1>0, <1>1, <1>10
  <2>2. \A i \in 0..n : i < n /\ i \in T => i + 1 \in T
    <3> SUFFICES ASSUME NEW i \in 0..n, i < n, i \in T PROVE i + 1 \in T
      OBVIOUS
    <3>1. i + 1 \in 0..n /\ (i + 1) - 1 = i /\ i + 1 \in 1..n
      BY <1>0
    <3>2. join[i + 1] = IF i + 1 = 1 THEN s[1] ELSE join[i] \o <<SP>> \o s[i + 1]
      BY <1>11, <3>1
    <3>3. s[i + 1] \in Text /\ join[i] \in Text
      BY <1>3, <3>1
    <3>4. join[i] \o <<SP>> \o s[i + 1] \in Text
      BY <1>2, <3>3
    <3>5. join[i + 1] \in Text
      BY <1>3, <3>1, <3>2, <3>4
    <3> QED
      BY <3>1, <3>5
  <2> HIDE DEF T, n
  <2>3. \A i \in 0..n : i \in T
    BY <1>0, <2>1, <2>2, Induct
  <2> QED
    BY <2>3 DEF T
<1>13. join \in [0..n -> Text]
  <2>1. join = [i \in 0..n |-> join[i]]
    BY <1>8
  <2> QED
    BY <1>12, <2>1
<1>14. IsJoin(join, s)
  BY <1>11, <1>13 DEF IsJoin
<1> QED
  BY <1>9, <1>10, <1>14


\* Two such functions agree on a common prefix.
LEMMA JoinsAgree ==
    ASSUME NEW s \in Seq(Text), NEW u \in Seq(Text), NEW f, NEW g,
           IsJoin(f, s), IsJoin(g, u), Inside(s, u, 0)
    PROVE  \A i \in 1..Len(s) : g[i] = f[i]
<1> DEFINE n == Len(s)
           T == {i \in 0..n : i > 0 => g[i] = f[i]}
<1>0. n \in Nat /\ Len(u) \in Nat /\ n <= Len(u) /\ \A i \in 1..n : u[i] = s[i]
  BY DEF Inside
<1>1. 0 \in T
  BY <1>0
<1>2. \A i \in 0..n : i < n /\ i \in T => i + 1 \in T
  <2> SUFFICES ASSUME NEW i \in 0..n, i < n, i \in T PROVE i + 1 \in T
    OBVIOUS
  <2>1. /\ i + 1 \in 0..n /\ i + 1 \in 1..Len(s) /\ i + 1 \in 1..Len(u)
        /\ (i + 1) - 1 = i /\ u[i + 1] = s[i + 1] /\ 1 \in 1..n /\ u[1] = s[1]
    BY <1>0
  <2>2. /\ f[i + 1] = IF i + 1 = 1 THEN s[1] ELSE f[i] \o <<SP>> \o s[i + 1]
        /\ g[i + 1] = IF i + 1 = 1 THEN u[1] ELSE g[i] \o <<SP>> \o u[i + 1]
    BY <2>1 DEF IsJoin
  <2>3. i + 1 # 1 => g[i] = f[i]
    OBVIOUS
  <2> QED
    BY <2>1, <2>2, <2>3
<1> HIDE DEF T, n
<1>3. \A i \in 0..n : i \in T
  BY <1>0, <1>1, <1>2, Induct
<1> QED
  BY <1>0, <1>3 DEF T, n

\* The text of a join, and one more text at the end.
LEMMA JoinAppend ==
    ASSUME NEW s \in Seq(Text), NEW x \in Text
    PROVE  /\ Join(s) \in Text
           /\ Join(Append(s, x)) =
                IF s = <<>> THEN x ELSE (Join(s) \o <<SP>>) \o x
<1> DEFINE u == Append(s, x)
<1>1. /\ u \in Seq(Text) /\ Len(u) = Len(s) + 1 /\ Len(s) \in Nat
      /\ u[Len(u)] = x /\ \A i \in 1..Len(s) : u[i] = s[i]
  OBVIOUS
<1> HIDE DEF u
<1>2. PICK f : IsJoin(f, s) /\ Join(s) = f[Len(s)]
  BY JoinIs
<1>3. PICK g : IsJoin(g, u) /\ Join(u) = g[Len(u)]
  BY <1>1, JoinIs
<1>4. f[Len(s)] \in Text
  BY <1>1, <1>2 DEF IsJoin
<1>5. Len(u) \in 1..Len(u) /\ Len(u) - 1 = Len(s)
  BY <1>1
<1>6. g[Len(u)] = IF Len(u) = 1 THEN u[1] ELSE g[Len(s)] \o <<SP>> \o u[Len(u)]
  BY <1>3, <1>5 DEF IsJoin
<1>7. CASE s = <<>>
  <2>1. Len(u) = 1
    BY <1>1, <1>7
  <2> QED
    BY <1>1, <1>2, <1>3, <1>4, <1>6, <1>7, <2>1 DEF u
<1>8. CASE s # <<>>
  <2>1. Len(s) \in 1..Len(s) /\ Len(u) # 1
    BY <1>1, <1>8
  <2>2. Inside(s, u, 0)
    BY <1>1 DEF Inside
  <2>3. g[Len(s)] = f[Len(s)]
    BY <1>1, <1>2, <1>3, <2>1, <2>2, JoinsAgree
  <2>4. Join(u) = (Join(s) \o <<SP>>) \o x
    BY <1>1, <1>2, <1>3, <1>6, <2>1, <2>3
  <2> QED
    BY <1>2, <1>4, <1>8, <2>4 DEF u
<1> QED
  BY <1>7, <1>8

\* Up to three texts.
LEMMA TupleIs ==
    ASSUME NEW a \in Text, NEW b \in Text, NEW c \in Text
    PROVE  /\ <<>> \in Seq(Text) /\ <<a>> \in Seq(Text) /\ <<a, b>> \in Seq(Text)
           /\ <<a>> # <<>> /\ <<a, b>> # <<>>
           /\ <<a>> = Append(<<>>, a) /\ <<a, b>> = Append(<<a>>, b)
           /\ <<a, b, c>> = Append(<<a, b>>, c)
<1>1. /\ <<>> \in Seq(Text) /\ <<a>> \in Seq(Text) /\ <<a, b>> \in Seq(Text)
      /\ <<a>> # <<>> /\ <<a, b>> # <<>>
  OBVIOUS
<1>2. /\ <<a>> = Append(<<>>, a) /\ <<a, b>> = Append(<<a>>, b)
      /\ <<a, b, c>> = Append(<<a, b>>, c)
  BY <1>1
<1> QED
  BY <1>1, <1>2

\* One, two and three texts.
LEMMA JoinTexts ==
    ASSUME NEW a \in Text, NEW b \in Text, NEW c \in Text
    PROVE  /\ Join(<<a>>) = a
           /\ Join(<<a, b>>) = (a \o <<SP>>) \o b
           /\ Join(<<a, b, c>>) = (((a \o <<SP>>) \o b) \o <<SP>>) \o c
<1>1. Join(<<a>>) = a
  BY TupleIs, JoinAppend
<1>2. Join(<<a, b>>) = (Join(<<a>>) \o <<SP>>) \o b
  BY TupleIs, JoinAppend
<1>3. Join(<<a, b, c>>) = (Join(<<a, b>>) \o <<SP>>) \o c
  <2> DEFINE t == <<a, b>>
  <2>1. t \in Seq(Text) /\ t # <<>> /\ <<a, b, c>> = Append(t, c)
    BY TupleIs
  <2> HIDE DEF t
  <2>2. Join(Append(t, c)) = (Join(t) \o <<SP>>) \o c
    BY <2>1, JoinAppend
  <2> QED
    BY <2>1, <2>2 DEF t
<1> QED
  BY <1>1, <1>2, <1>3

\* The parts so far, at least one.
Parts == Seq(Text) \ {<<>>}
IsSplit(f, s) == /\ f \in [0..Len(s) -> Parts] /\ f[0] = << <<>> >>
                 /\ \A i \in 1..Len(s) : f[i] = Extended(f[i - 1], s[i])

\* A further symbol leaves a list of at least one text.
LEMMA ExtendedType ==
    ASSUME NEW q \in Parts, NEW ch \in Symbols
    PROVE  Extended(q, ch) \in Parts /\ << <<>> >> \in Parts
<1>1. q \in Seq(Text) /\ Len(q) \in Nat /\ Len(q) > 0
  BY DEF Parts
<1>2. Last(q) \in Text /\ Front(q) \in Seq(Text)
  BY <1>1 DEF Last, Front
<1>3. Append(Last(q), ch) \in Text /\ <<>> \in Text
  BY <1>2 DEF Text
<1> QED
  BY <1>1, <1>2, <1>3 DEF Extended, Parts

\* Split, symbol by symbol.
LEMMA SplitIs ==
    ASSUME NEW s \in Text
    PROVE  \E f : IsSplit(f, s) /\ Split(s) = f[Len(s)]
<1> DEFINE n == Len(s)
           g == [i \in 1..n |-> [q \in Parts |-> Extended(q, s[i])]]
           split == CHOOSE f : f = [i \in 0..n |->
                      IF i = 0 THEN << <<>> >> ELSE Extended(f[i - 1], s[i])]
<1>0. n \in Nat
  BY DEF Text
<1>1. \A i \in 1..n : s[i] \in Symbols
  BY DEF Text
<1>2. << <<>> >> \in Parts
  <2>1. <<>> \in Text
    BY DEF Text
  <2> QED
    BY <2>1 DEF Parts
<1>3. g \in [1..n -> [Parts -> Parts]]
  BY <1>1, ExtendedType
<1>4. PICK f \in [0..n -> Parts] :
        f[0] = << <<>> >> /\ \A i \in 1..n : f[i] = g[i][f[i - 1]]
  <2> DEFINE e == << <<>> >>
  <2>1. n \in Nat /\ e \in Parts /\ g \in [1..n -> [Parts -> Parts]]
    BY <1>0, <1>2, <1>3
  <2> HIDE DEF g, n, e
  <2>2. \E f : Iterates(f, n, Parts, e, g)
    BY <2>1, Recursion
  <2> QED
    BY <2>2 DEF Iterates, e
<1>5. ASSUME NEW i \in 1..n PROVE f[i] = Extended(f[i - 1], s[i])
  <2>1. i - 1 \in 0..n
    BY <1>0
  <2>2. f[i - 1] \in Parts /\ f[i] = g[i][f[i - 1]]
    BY <1>4, <2>1
  <2> QED
    BY <2>2
<1> HIDE DEF g
<1>6. f = [i \in 0..n |-> IF i = 0 THEN << <<>> >> ELSE Extended(f[i - 1], s[i])]
  <2>1. \A i \in 0..n :
          f[i] = IF i = 0 THEN << <<>> >> ELSE Extended(f[i - 1], s[i])
    <3> SUFFICES ASSUME NEW i \in 0..n
                 PROVE  f[i] = IF i = 0 THEN << <<>> >>
                               ELSE Extended(f[i - 1], s[i])
      OBVIOUS
    <3>1. CASE i = 0
      BY <1>4, <3>1
    <3>2. CASE i # 0
      <4>1. i \in 1..n
        BY <1>0, <3>2
      <4> QED
        BY <1>5, <3>2, <4>1
    <3> QED
      BY <3>1, <3>2
  <2>2. f = [i \in 0..n |-> f[i]]
    BY <1>4
  <2> QED
    BY <2>1, <2>2
<1>7. split = [i \in 0..n |-> IF i = 0 THEN << <<>> >>
                              ELSE Extended(split[i - 1], s[i])]
  BY <1>6
<1>8. Split(s) = split[n]
  BY DEF Split
<1> HIDE DEF split
<1>9. split[0] = << <<>> >>
  BY <1>0, <1>7
<1>10. \A i \in 1..n : split[i] = Extended(split[i - 1], s[i])
  <2> SUFFICES ASSUME NEW i \in 1..n PROVE split[i] = Extended(split[i - 1], s[i])
    OBVIOUS
  <2>1. i \in 0..n /\ i # 0
    BY <1>0
  <2> QED
    BY <2>1, <1>7
<1>11. \A i \in 0..n : split[i] \in Parts
  <2> DEFINE T == {i \in 0..n : split[i] \in Parts}
  <2>1. 0 \in T
    BY <1>0, <1>2, <1>9
  <2>2. \A i \in 0..n : i < n /\ i \in T => i + 1 \in T
    <3> SUFFICES ASSUME NEW i \in 0..n, i < n, i \in T PROVE i + 1 \in T
      OBVIOUS
    <3>1. i + 1 \in 0..n /\ (i + 1) - 1 = i /\ i + 1 \in 1..n
      BY <1>0
    <3>2. split[i + 1] = Extended(split[i], s[i + 1])
      BY <1>10, <3>1
    <3>3. Extended(split[i], s[i + 1]) \in Parts
      BY <1>1, <3>1, ExtendedType
    <3> QED
      BY <3>1, <3>2, <3>3
  <2> HIDE DEF T, n
  <2>3. \A i \in 0..n : i \in T
    BY <1>0, <2>1, <2>2, Induct
  <2> QED
    BY <2>3 DEF T
<1>12. split \in [0..n -> Parts]
  <2>1. split = [i \in 0..n |-> split[i]]
    BY <1>7
  <2> QED
    BY <1>11, <2>1
<1>13. IsSplit(split, s)
  BY <1>9, <1>10, <1>12 DEF IsSplit
<1> QED
  BY <1>8, <1>13


\* What is before the last part, and the last part.
LEMMA FrontIs ==
    ASSUME NEW p \in Seq(Text), NEW y \in Text
    PROVE  Front(Append(p, y)) = p /\ Last(Append(p, y)) = y
  BY DEF Front, Last

\* A word without a space goes to the last part.
LEMMA SplitWord ==
    ASSUME NEW s \in Text, NEW f, IsSplit(f, s), NEW w \in Text, NEW d \in Nat,
           Inside(w, s, d), SP \notin ToSet(w)
    PROVE  f[Len(w) + d] = Append(Front(f[d]), Last(f[d]) \o w)
<1> DEFINE n == Len(w)
           q == f[d]
           T == {i \in 0..n : f[i + d] = Append(Front(q), Last(q) \o SubSeq(w, 1, i))}
<1>0. n \in Nat /\ Len(s) \in Nat /\ d + n <= Len(s)
  BY DEF Text, Inside
<1>1. q \in Seq(Text) /\ Len(q) \in Nat /\ Len(q) > 0
  <2>1. q \in Parts
    BY <1>0 DEF IsSplit
  <2> QED
    BY <2>1 DEF Parts
<1>2. Last(q) \in Text /\ Front(q) \in Seq(Text) /\ q = Append(Front(q), Last(q))
  BY <1>1 DEF Last, Front
<1> HIDE DEF q
<1>3. 0 \in T
  <2>1. SubSeq(w, 1, 0) = <<>> /\ Last(q) \o <<>> = Last(q)
    BY <1>2 DEF Text
  <2>2. f[0 + d] = q
    BY DEF q
  <2>3. f[0 + d] = Append(Front(q), Last(q) \o SubSeq(w, 1, 0))
    BY <1>2, <2>1, <2>2
  <2>4. 0 \in 0..n
    BY <1>0
  <2> QED
    BY <2>3, <2>4
<1>4. \A i \in 0..n : i < n /\ i \in T => i + 1 \in T
  <2> SUFFICES ASSUME NEW i \in 0..n, i < n, i \in T PROVE i + 1 \in T
    OBVIOUS
  <2> DEFINE x == SubSeq(w, 1, i)
             ch == w[i + 1]
             y == Last(q) \o x
  <2>1. /\ i + 1 \in 0..n /\ i + 1 \in 1..Len(w) /\ (i + 1) + d \in 1..Len(s)
        /\ ((i + 1) + d) - 1 = i + d
    BY <1>0
  <2>2. s[(i + 1) + d] = ch
    BY <2>1 DEF Inside
  <2>3. ch \in Symbols /\ ch # SP
    BY <2>1, NotIn DEF Text
  <2>4. f[(i + 1) + d] = Extended(f[i + d], ch)
    BY <2>1, <2>2 DEF IsSplit
  <2>5. f[i + d] = Append(Front(q), y)
    OBVIOUS
  <2>6. x \in Text /\ y \in Text /\ SubSeq(w, 1, i + 1) = Append(x, ch)
        /\ Last(q) \o Append(x, ch) = Append(y, ch)
    <3>1. x \in Text /\ SubSeq(w, 1, i + 1) = Append(x, ch)
      BY <1>0, <2>1 DEF Text
    <3> DEFINE z == Last(q)
    <3>2. z \in Text
      BY <1>2
    <3> HIDE DEF z, x, ch
    <3>3. z \o x \in Text /\ z \o Append(x, ch) = Append(z \o x, ch)
      BY <2>3, <3>1, <3>2, SMTT(40) DEF Text
    <3> QED
      BY <3>1, <3>3 DEF z
  <2> HIDE DEF x, y, ch
  <2>7. Front(Append(Front(q), y)) = Front(q) /\ Last(Append(Front(q), y)) = y
    BY <1>2, <2>6, FrontIs
  <2>8. Extended(Append(Front(q), y), ch) = Append(Front(q), Append(y, ch))
    BY <2>3, <2>7 DEF Extended
  <2>9. f[(i + 1) + d] = Append(Front(q), Last(q) \o SubSeq(w, 1, i + 1))
    BY <2>4, <2>5, <2>6, <2>8, Zenon
  <2> QED
    BY <2>1, <2>9
<1> HIDE DEF T, n
<1>5. \A i \in 0..n : i \in T
  BY <1>0, <1>3, <1>4, Induct
<1>6. n \in T
  BY <1>0, <1>5
<1>7. SubSeq(w, 1, n) = w
  BY DEF n, Text
<1> QED
  BY <1>6, <1>7 DEF T, n, q

\* A space begins a part.
LEMMA SplitSpace ==
    ASSUME NEW s \in Text, NEW f, IsSplit(f, s), NEW d \in Nat, d + 1 <= Len(s),
           s[d + 1] = SP
    PROVE  f[d + 1] = Append(f[d], <<>>)
<1>1. d + 1 \in 1..Len(s) /\ (d + 1) - 1 = d
  BY DEF Text
<1> QED
  BY <1>1 DEF IsSplit, Extended

\* Words without spaces.
LEMMA SplitWords ==
    ASSUME NEW a \in Text, NEW b \in Text, NEW c \in Text,
           SP \notin ToSet(a), SP \notin ToSet(b), SP \notin ToSet(c)
    PROVE  /\ Split(a) = <<a>>
           /\ Split((a \o <<SP>>) \o b) = <<a, b>>
           /\ Split((((a \o <<SP>>) \o b) \o <<SP>>) \o c) = <<a, b, c>>
<1> DEFINE e == <<>>
<1>0. SP \in Symbols /\ e \in Text
  <2>1. <<>> \in Text
    BY DEF Text
  <2> QED
    BY <2>1, SymbolIs
<1>1. /\ Front(<<e>>) = <<>> /\ Last(<<e>>) = e /\ e \o a = a
      /\ Append(<<>>, a) = <<a>>
  BY <1>0 DEF Front, Last, Text
<1>2. /\ Front(<<a, e>>) = <<a>> /\ Last(<<a, e>>) = e /\ e \o b = b
      /\ Append(<<a>>, e) = <<a, e>> /\ Append(<<a>>, b) = <<a, b>>
  <2>1. e \o b = b
    BY DEF Text
  <2> HIDE DEF e
  <2>2. Append(<<a>>, e) = <<a, e>> /\ Append(<<a>>, b) = <<a, b>> /\ <<a>> \in Seq(Text)
    BY <1>0, TupleIs
  <2> QED
    BY <1>0, <2>1, <2>2, FrontIs
<1>3. /\ Front(<<a, b, e>>) = <<a, b>> /\ Last(<<a, b, e>>) = e /\ e \o c = c
      /\ Append(<<a, b>>, e) = <<a, b, e>> /\ Append(<<a, b>>, c) = <<a, b, c>>
  <2>1. e \o c = c
    BY DEF Text
  <2> HIDE DEF e
  <2>2. Append(<<a, b>>, e) = <<a, b, e>> /\ Append(<<a, b>>, c) = <<a, b, c>> /\ <<a, b>> \in Seq(Text)
    BY <1>0, TupleIs, ZenonT(60)
  <2> QED
    BY <1>0, <2>1, <2>2, FrontIs
<1>4. Len(a) \in Nat /\ Len(b) \in Nat /\ Len(c) \in Nat
  BY DEF Text
\* The first word, in any line that begins with it.
<1>5. ASSUME NEW s \in Text, NEW f, IsSplit(f, s), Inside(a, s, 0)
      PROVE  f[Len(a)] = <<a>>
  <2>1. f[0] = <<e>>
    BY <1>5 DEF IsSplit
  <2>2. 0 \in Nat
    OBVIOUS
  <2>3. f[Len(a) + 0] = Append(Front(f[0]), Last(f[0]) \o a)
    BY <1>5, <2>2, SplitWord
  <2>4. Len(a) + 0 = Len(a)
    BY <1>4
  <2> HIDE DEF e
  <2> QED
    BY <1>1, <2>1, <2>3, <2>4
\* The second one.
<1>6. ASSUME NEW s \in Text, NEW f, IsSplit(f, s), Inside(a, s, 0),
             Inside(b, s, Len(a) + 1), Len(a) + 1 <= Len(s), s[Len(a) + 1] = SP
      PROVE  f[Len(b) + (Len(a) + 1)] = <<a, b>>
  <2>1. f[Len(a)] = <<a>>
    BY <1>5, <1>6
  <2>2. f[Len(a) + 1] = Append(f[Len(a)], <<>>)
    BY <1>4, <1>6, SplitSpace
  <2>3. f[Len(a) + 1] = <<a, e>>
    BY <1>2, <2>1, <2>2
  <2>4. Len(a) + 1 \in Nat
    BY <1>4
  <2>5. f[Len(b) + (Len(a) + 1)] =
          Append(Front(f[Len(a) + 1]), Last(f[Len(a) + 1]) \o b)
    BY <1>6, <2>4, SplitWord, ZenonT(60)
  <2> HIDE DEF e
  <2> QED
    BY <1>2, <2>3, <2>5
<1>7. Split(a) = <<a>>
  <2>1. PICK f : IsSplit(f, a) /\ Split(a) = f[Len(a)]
    BY SplitIs
  <2>2. Inside(a, a, 0)
    BY <1>4 DEF Inside, Text
  <2> QED
    BY <1>5, <2>1, <2>2
<1>8. Split((a \o <<SP>>) \o b) = <<a, b>>
  <2> DEFINE s == (a \o <<SP>>) \o b
  <2>1. s \in Text /\ Len(s) = Len(b) + (Len(a) + 1) /\ s[Len(a) + 1] = SP
    BY <1>0 DEF Text
  <2>2. Inside(a, s, 0) /\ Inside(b, s, Len(a) + 1)
    BY <1>0, <1>4, <2>1 DEF Inside, Text
  <2> HIDE DEF s
  <2>3. PICK f : IsSplit(f, s) /\ Split(s) = f[Len(s)]
    BY <2>1, SplitIs
  <2>4. Len(a) + 1 <= Len(s)
    BY <1>4, <2>1
  <2>5. Split(s) = <<a, b>>
    BY <1>6, <2>1, <2>2, <2>3, <2>4
  <2> QED
    BY <2>5 DEF s
<1>9. Split((((a \o <<SP>>) \o b) \o <<SP>>) \o c) = <<a, b, c>>
  <2> DEFINE s == (((a \o <<SP>>) \o b) \o <<SP>>) \o c
             m == Len(b) + (Len(a) + 1)
  <2>1. /\ s \in Text /\ Len(s) = Len(c) + (m + 1) /\ s[Len(a) + 1] = SP
        /\ s[m + 1] = SP
    BY <1>0 DEF Text
  <2>2. Inside(a, s, 0) /\ Inside(b, s, Len(a) + 1) /\ Inside(c, s, m + 1)
    <3>1. \A i \in 1..Len(a) : s[i] = a[i]
      BY <1>0, <1>4 DEF Text
    <3>2. \A i \in 1..Len(b) : s[i + (Len(a) + 1)] = b[i]
      BY <1>0, <1>4 DEF Text
    <3>3. \A i \in 1..Len(c) : s[i + (m + 1)] = c[i]
      BY <1>0, <1>4 DEF Text
    <3> HIDE DEF s
    <3> QED
      BY <1>4, <2>1, <3>1, <3>2, <3>3 DEF Inside
  <2> HIDE DEF s
  <2>3. PICK f : IsSplit(f, s) /\ Split(s) = f[Len(s)]
    BY <2>1, SplitIs
  <2>4. Len(a) + 1 <= Len(s) /\ m \in Nat /\ m + 1 \in Nat /\ m + 1 <= Len(s)
    BY <1>4, <2>1
  <2>5. f[m] = <<a, b>>
    BY <1>6, <2>1, <2>2, <2>3, <2>4
  <2> HIDE DEF m
  <2>6. f[m + 1] = Append(f[m], <<>>)
    BY <2>1, <2>3, <2>4, SplitSpace
  <2>7. f[m + 1] = <<a, b, e>>
    BY <1>3, <2>5, <2>6
  <2>8. f[Len(c) + (m + 1)] = Append(Front(f[m + 1]), Last(f[m + 1]) \o c)
    BY <2>1, <2>2, <2>3, <2>4, SplitWord
  <2> HIDE DEF e
  <2>9. Split(s) = <<a, b, c>>
    BY <1>3, <2>1, <2>3, <2>7, <2>8
  <2> QED
    BY <2>9 DEF s
<1> QED
  BY <1>7, <1>8, <1>9


\* The join of the parts grows as the line does.
LEMMA JoinExtended ==
    ASSUME NEW q \in Parts, NEW ch \in Symbols
    PROVE  Join(q) \in Text /\ Join(Extended(q, ch)) = Append(Join(q), ch)
<1> DEFINE p == Front(q)
           y == Last(q)
<1>0. SP \in Symbols /\ q \in Seq(Text) /\ Len(q) \in Nat /\ Len(q) > 0 /\ q # <<>>
  <2>1. SP \in Symbols
    BY SymbolIs
  <2>2. q \in Seq(Text) /\ Len(q) \in Nat /\ Len(q) > 0 /\ q # <<>>
    BY DEF Parts
  <2> QED
    BY <2>1, <2>2
<1>1. p \in Seq(Text) /\ y \in Text /\ q = Append(p, y)
  BY <1>0 DEF Front, Last
<1>2. <<>> \in Text
  BY DEF Text
<1>3. Join(q) \in Text /\ Join(p) \in Text
  BY <1>0, <1>1, <1>2, JoinAppend
<1>4. CASE ch = SP
  <2> DEFINE e == <<>>
  <2>1. e \in Text /\ Extended(q, ch) = Append(q, e)
    BY <1>2, <1>4 DEF Extended
  <2> HIDE DEF e
  <2>2. Join(Append(q, e)) = (Join(q) \o <<SP>>) \o e
    BY <1>0, <2>1, JoinAppend
  <2>3. \A j \in Text : (j \o <<SP>>) \o e = Append(j, SP)
    BY <1>0 DEF Text, e
  <2> QED
    BY <1>3, <1>4, <2>1, <2>2, <2>3
<1>5. CASE ch # SP
  <2> HIDE DEF p, y
  <2>1. Extended(q, ch) = Append(p, Append(y, ch)) /\ Append(y, ch) \in Text
    BY <1>1, <1>5 DEF Extended, Text, p, y
  <2>2. Join(Append(p, Append(y, ch))) =
          IF p = <<>> THEN Append(y, ch) ELSE (Join(p) \o <<SP>>) \o Append(y, ch)
    BY <1>1, <2>1, JoinAppend
  <2>3. Join(q) = IF p = <<>> THEN y ELSE (Join(p) \o <<SP>>) \o y
    BY <1>1, JoinAppend
  <2>4. \A j \in Text : (j \o <<SP>>) \o Append(y, ch) = Append((j \o <<SP>>) \o y, ch)
    BY <1>0, <1>1 DEF Text
  <2> QED
    BY <1>3, <2>1, <2>2, <2>3, <2>4
<1> QED
  BY <1>3, <1>4, <1>5

\* A word without a space and anything after it.
LEMMA SplitRest ==
    ASSUME NEW a \in Text, NEW x \in Text, SP \notin ToSet(a)
    PROVE  \E q \in Parts : /\ Split((a \o <<SP>>) \o x) = <<a>> \o q
                            /\ Join(q) = x
<1> DEFINE s == (a \o <<SP>>) \o x
           m == Len(a) + 1
           n == Len(x)
           e == <<>>
<1>0. SP \in Symbols /\ e \in Text
  <2>1. <<>> \in Text
    BY DEF Text
  <2> QED
    BY <2>1, SymbolIs
<1>1. /\ s \in Text /\ Len(s) = n + m /\ s[m] = SP /\ n \in Nat
      /\ Len(a) \in Nat /\ m <= Len(s) /\ m \in Nat
  BY <1>0 DEF Text
<1>2. Inside(a, s, 0) /\ \A i \in 1..n : s[i + m] = x[i]
  <2>1. \A i \in 1..Len(a) : s[i] = a[i]
    BY <1>0 DEF Text
  <2>2. \A i \in 1..n : s[i + m] = x[i]
    BY <1>0 DEF Text
  <2> HIDE DEF s
  <2> QED
    BY <1>1, <2>1, <2>2 DEF Inside
<1> HIDE DEF s
<1>3. PICK f : IsSplit(f, s) /\ Split(s) = f[Len(s)]
  BY <1>1, SplitIs
<1>4. f[m] = <<a>> \o <<e>>
  <2>1. f[0] = <<e>>
    BY <1>3 DEF IsSplit
  <2>2. f[Len(a) + 0] = Append(Front(f[0]), Last(f[0]) \o a)
    <3> HIDE DEF e
    <3>1. 0 \in Nat
      OBVIOUS
    <3>2. Inside(a, s, 0) /\ s \in Text /\ IsSplit(f, s)
      BY <1>1, <1>2, <1>3
    <3> QED
      BY <3>1, <3>2, SplitWord
  <2>3. Front(<<e>>) = <<>> /\ Last(<<e>>) = e /\ Append(<<>>, a) = <<a>>
    BY <1>0 DEF Front, Last, Text
  <2>4. e \o a = a
    BY DEF Text
  <2>5. f[Len(a)] = <<a>>
    <3> HIDE DEF e
    <3>1. Len(a) + 0 = Len(a)
      BY <1>1
    <3> QED
      BY <2>1, <2>2, <2>3, <2>4, <3>1
  <2>6. f[m] = Append(f[Len(a)], <<>>)
    BY <1>1, <1>3, SplitSpace
  <2> HIDE DEF e
  <2>7. Append(<<a>>, e) = <<a>> \o <<e>>
    BY <1>0
  <2> QED
    BY <2>5, <2>6, <2>7 DEF e
<1> DEFINE Is(q, i) == f[i + m] = <<a>> \o q /\ Join(q) = SubSeq(x, 1, i)
           T == {i \in 0..n : \E q \in Parts : Is(q, i)}
<1>5. 0 \in T
  <2>1. <<e>> \in Parts /\ Join(<<e>>) = e
    <3> HIDE DEF e
    <3>1. <<e>> \in Seq(Text) /\ <<e>> # <<>>
      BY <1>0, TupleIs
    <3>2. Join(<<e>>) = e
      BY <1>0, JoinTexts
    <3> QED
      BY <3>1, <3>2 DEF Parts
  <2>2. SubSeq(x, 1, 0) = e /\ 0 + m = m /\ 0 \in 0..n
    BY <1>1 DEF Text
  <2>3. Is(<<e>>, 0)
    BY <1>4, <2>1, <2>2
  <2> HIDE DEF Is, e
  <2> QED
    BY <2>1, <2>2, <2>3
<1>6. ASSUME NEW i \in 0..n, i < n, i \in T PROVE i + 1 \in T
  <2>1. PICK q \in Parts : Is(q, i)
    <3> HIDE DEF Is
    <3> QED
      BY <1>6
  <2> DEFINE ch == x[i + 1]
             p == Extended(q, ch)
  <2>2. /\ i + 1 \in 0..n /\ i + 1 \in 1..n /\ (i + 1) + m \in 1..Len(s)
        /\ ((i + 1) + m) - 1 = i + m
    BY <1>1, <1>6
  <2>3. ch \in Symbols /\ s[(i + 1) + m] = ch
    BY <1>2, <2>2 DEF Text
  <2>4. f[(i + 1) + m] = Extended(f[i + m], ch)
    BY <1>3, <2>2, <2>3 DEF IsSplit
  <2>5. p \in Parts /\ Join(p) = Append(Join(q), ch)
    BY <2>3, ExtendedType, JoinExtended
  <2>6. SubSeq(x, 1, i + 1) = Append(SubSeq(x, 1, i), ch)
    BY <2>2 DEF Text
  <2>7. Extended(<<a>> \o q, ch) = <<a>> \o p
    <3> HIDE DEF ch
    <3>1. q \in Seq(Text) /\ Len(q) \in Nat /\ Len(q) > 0
      BY DEF Parts
    <3>2. /\ Front(<<a>> \o q) = <<a>> \o Front(q)
          /\ Last(<<a>> \o q) = Last(q)
      BY <3>1 DEF Front, Last
    <3>3. Last(q) \in Text /\ Front(q) \in Seq(Text) /\ <<>> \in Text
      BY <3>1 DEF Front, Last, Text
    <3>4. Append(Last(q), ch) \in Text
      BY <2>3, <3>3 DEF Text
    <3>5. /\ Append(<<a>> \o q, <<>>) = <<a>> \o Append(q, <<>>)
          /\ Append(<<a>> \o Front(q), Append(Last(q), ch)) =
               <<a>> \o Append(Front(q), Append(Last(q), ch))
      <4>1. \A z \in Seq(Text), y \in Text :
              Append(<<a>> \o z, y) = <<a>> \o Append(z, y)
        OBVIOUS
      <4> QED
        BY <3>1, <3>3, <3>4, <4>1
    <3> QED
      BY <3>2, <3>5 DEF Extended
  <2> HIDE DEF p
  <2>8. Is(p, i + 1)
    BY <2>1, <2>4, <2>5, <2>6, <2>7, Zenon
  <2> HIDE DEF Is
  <2> QED
    BY <2>2, <2>5, <2>8
<1>7. n \in T
  <2> HIDE DEF T, n
  <2>1. \A i \in 0..n : i < n /\ i \in T => i + 1 \in T
    BY <1>6
  <2>2. \A i \in 0..n : i \in T
    BY <1>1, <1>5, <2>1, Induct
  <2> QED
    BY <1>1, <2>2
<1>8. PICK q \in Parts : Is(q, n)
  <2> HIDE DEF Is
  <2> QED
    BY <1>7
<1>9. SubSeq(x, 1, n) = x
  BY DEF Text
<1> QED
  BY <1>1, <1>3, <1>8, <1>9 DEF s


-----------------------------------------------------------------------------
(* The values and the calls                                                *)

\* A text of one symbol.
LEMMA LetterIs ==
    ASSUME NEW c \in Symbols
    PROVE  <<c>> \in Text
  BY DEF Text

\* Digits stand for a natural number.
LEMMA ParseNat ==
    ASSUME NEW s \in Seq(Decimal), s # <<>>
    PROVE  ParseInt64(s) \in Nat
<1> DEFINE n == Len(s)
<1>0. s \in Seq(Numeral) /\ n \in Nat /\ n > 0
  <2>1. Decimal \subseteq Numeral
    BY DEF Numeral
  <2> QED
    BY <2>1, SeqMonotonic
<1>1. PICK f : /\ IsValue(f, s)
               /\ ParseInt64(s) = IF Head(s) = "-" THEN -f[n] ELSE f[n]
  BY <1>0, ParseIs
<1>2. \A i \in 1..n : s[i] \in Decimal /\ s[i] \notin Signs /\ DigitValue(s[i]) \in 0..9
  BY DigitIs
<1>3. Head(s) # "-"
  BY <1>0, <1>2, DigitIs
<1> DEFINE T == {i \in 0..n : f[i] \in Nat}
<1>4. 0 \in T
  BY <1>0, <1>1 DEF IsValue
<1>5. \A i \in 0..n : i < n /\ i \in T => i + 1 \in T
  <2> SUFFICES ASSUME NEW i \in 0..n, i < n, i \in T PROVE i + 1 \in T
    OBVIOUS
  <2>1. i + 1 \in 1..n /\ i + 1 \in 0..n /\ (i + 1) - 1 = i
    BY <1>0
  <2>2. f[i + 1] = 10 * f[i] + DigitValue(s[i + 1])
    BY <1>1, <1>2, <2>1 DEF IsValue
  <2>3. DigitValue(s[i + 1]) \in 0..9 /\ f[i] \in Nat
    BY <1>2, <2>1
  <2> QED
    BY <2>1, <2>2, <2>3, SMTT(40)
<1> HIDE DEF T, n
<1>6. \A i \in 0..n : i \in T
  BY <1>0, <1>4, <1>5, Induct
<1>7. n \in T
  BY <1>0, <1>6
<1> QED
  BY <1>1, <1>3, <1>7 DEF T

\* A text of digits.
LEMMA IsNatIs ==
    ASSUME NEW s \in Text, IsNat(s)
    PROVE  s \in Seq(Decimal) /\ s # <<>>
<1>1. DOMAIN s = 1..Len(s) /\ Len(s) \in Nat
  BY DEF Text
<1>2. ToSet(s) \subseteq Decimal /\ s # <<>>
  BY DEF IsNat, Decimal
<1>3. \A i \in 1..Len(s) : s[i] \in Decimal
  BY <1>1, <1>2 DEF ToSet
<1> QED
  BY <1>2, <1>3 DEF Text

\* Numbers typed at the prompt.
LEMMA NumberIs ==
    ASSUME NEW s \in Text
    PROVE  /\ IsInt(s) => ParseInt64(s) \in Int
           /\ ~IsInt(s) /\ IsFloat(s) => ParseFloat64(s) \in Nat
<1>1. ASSUME IsInt(s) PROVE ParseInt64(s) \in Int
  <2>1. CASE IsNat(s)
    <3>1. ParseInt64(s) \in Nat
      BY <2>1, IsNatIs, ParseNat
    <3> QED
      BY <3>1
  <2>2. CASE ~IsNat(s)
    <3> DEFINE u == Tail(s)
    <3>1. s # <<>> /\ Head(s) \in Signs /\ IsNat(u)
      BY <1>1, <2>2 DEF IsInt
    <3>2. u \in Text /\ s = <<Head(s)>> \o u
      BY <3>1 DEF Text
    <3> HIDE DEF u
    <3>3. u \in Seq(Decimal) /\ u # <<>>
      BY <3>1, <3>2, IsNatIs
    <3>4. ParseInt64(<<Head(s)>> \o u) =
            IF Head(s) = "-" THEN -ParseInt64(u) ELSE ParseInt64(u)
      BY <3>1, <3>3, ParseSigned
    <3>5. ParseInt64(u) \in Nat
      BY <3>3, ParseNat
    <3>6. \A n \in Nat : -n \in Int /\ n \in Int
      OBVIOUS
    <3> QED
      BY <3>2, <3>4, <3>5, <3>6
  <2> QED
    BY <2>1, <2>2
<1>2. ASSUME ~IsInt(s), IsFloat(s) PROVE ParseFloat64(s) \in Nat
  <2> DEFINE i == Point(s)
             u == SubSeq(s, 1, i - 1)
             d == <<Last(s)>>
  <2>1. i = Len(s) - 1 /\ i > 1 /\ IsNat(u) /\ IsNat(d)
    BY <1>2 DEF IsInt, IsFloat
  <2>2. i \in Nat /\ i # 0 /\ Len(s) \in Nat
    <3>1. Len(s) \in Nat
      BY DEF Text
    <3>2. \A j : j = Len(s) - 1 /\ j > 1 => j \in Nat /\ j # 0
      BY <3>1, SMTT(40)
    <3>3. i = Len(s) - 1 /\ i > 1
      BY <2>1
    <3> HIDE DEF i, u, d
    <3> QED
      BY <3>1, <3>2, <3>3
  <2>3. u \in Text /\ d \in Text
    BY <2>1, <2>2 DEF Text, Last
  <2>4. ParseFloat64(s) = ParseInt64(u \o d)
    BY <2>2 DEF ParseFloat64
  <2> HIDE DEF u, d
  <2>5. u \in Seq(Decimal) /\ u # <<>> /\ d \in Seq(Decimal)
    BY <2>1, <2>3, IsNatIs
  <2>6. u \o d \in Seq(Decimal) /\ u \o d # <<>>
    BY <2>5
  <2> QED
    BY <2>4, <2>6, ParseNat
<1> QED
  BY <1>1, <1>2

\* fmt.Fprint prints a text.
LEMMA FprintIs ==
    ASSUME NEW v \in Scalar
    PROVE  Fprint(v) \in Text
<1>1. CASE v \in [type : {"string", "other"}, text : Text]
  <2>1. v.type \in {"string", "other"} /\ v.text \in Text
    BY <1>1
  <2> QED
    BY <2>1 DEF Fprint
<1>2. CASE v \in [type : {"bytes"}, text : Text]
  <2> DEFINE m == [i \in DOMAIN v.text |-> <<Code>>]
  <2>1. v.type = "bytes" /\ v.text \in Text
    BY <1>2
  <2>2. <<Code>> \in Text /\ <<"[">> \in Text /\ <<"]">> \in Text
    BY SymbolIs, LetterIs
  <2>3. m \in Seq(Text)
    <3>1. DOMAIN v.text = 1..Len(v.text) /\ Len(v.text) \in Nat
      BY <2>1 DEF Text
    <3> QED
      BY <2>2, <3>1
  <2>4. Fprint(v) = <<"[">> \o Join(m) \o <<"]">>
    BY <2>1 DEF Fprint, Map
  <2> HIDE DEF m
  <2>5. Join(m) \in Text
    BY <2>2, <2>3, JoinAppend
  <2>6. \A x, y, z \in Text : x \o y \o z \in Text
    BY DEF Text
  <2> QED
    BY <2>2, <2>4, <2>5, <2>6
<1>3. CASE v \in [type : {"int64"}, int : Int]
  <2>1. v.type = "int64" /\ v.int \in Int
    BY <1>3
  <2>2. Fprint(v) = AppendInt(v.int)
    BY <2>1 DEF Fprint
  <2> QED
    BY <2>1, <2>2, IntIs
<1>4. CASE v \in [type : {"float64"}, tenths : Nat]
  <2>1. v.type = "float64" /\ v.tenths \in Nat
    BY <1>4
  <2>2. Fprint(v) = AppendFloat(v.tenths)
    BY <2>1 DEF Fprint
  <2> QED
    BY <2>1, <2>2, FloatIs
<1>5. CASE v \in [type : {"bool"}, bool : BOOLEAN]
  <2>1. v.type = "bool"
    BY <1>5
  <2>2. Fprint(v) = IF v.bool THEN <<"true">> ELSE <<"false">>
    BY <2>1 DEF Fprint
  <2>3. <<"true">> \in Text /\ <<"false">> \in Text
    BY SymbolIs, LetterIs
  <2> QED
    BY <2>2, <2>3
<1>6. CASE v \in [type : {"byte"}, byte : Symbols]
  <2>1. v.type = "byte"
    BY <1>6
  <2>2. Fprint(v) = <<Code>>
    BY <2>1 DEF Fprint
  <2> QED
    BY <2>2, SymbolIs, LetterIs
<1>7. CASE v = Null
  <2>1. v.type = "nil"
    BY <1>7 DEF Null
  <2>2. Fprint(v) = <<"<nil>">>
    BY <2>1 DEF Fprint
  <2> QED
    BY <2>2, SymbolIs, LetterIs
<1> QED
  <2>1. \/ v \in [type : {"string", "bytes", "other"}, text : Text]
        \/ v \in [type : {"int64"}, int : Int]
        \/ v \in [type : {"float64"}, tenths : Nat]
        \/ v \in [type : {"bool"}, bool : BOOLEAN]
        \/ v \in [type : {"byte"}, byte : Symbols]
        \/ v = Null
    BY DEF Scalar
  <2>2. v \in [type : {"string", "bytes", "other"}, text : Text] =>
          \/ v \in [type : {"string", "other"}, text : Text]
          \/ v \in [type : {"bytes"}, text : Text]
    OBVIOUS
  <2> QED
    BY <2>1, <2>2, <1>1, <1>2, <1>3, <1>4, <1>5, <1>6, <1>7

\* What the cli makes of a text.
LEMMA CliArgIs ==
    ASSUME NEW t \in Text
    PROVE  CliArg(t) \in Scalar
<1>1. CASE IsInt(t)
  BY <1>1, NumberIs DEF CliArg, Int64, Scalar
<1>2. CASE ~IsInt(t) /\ IsFloat(t)
  BY <1>2, NumberIs DEF CliArg, Float, Scalar
<1>3. CASE ~IsInt(t) /\ ~IsFloat(t)
  <2>1. Bool(TRUE) \in Scalar /\ Bool(FALSE) \in Scalar /\ String(t) \in Scalar
    BY DEF Bool, String, Scalar
  <2> QED
    BY <1>3, <2>1 DEF CliArg
<1> QED
  BY <1>1, <1>2, <1>3

\* The arguments of all calls.
LEMMA ValueIs ==
    ASSUME NEW v \in AllValues
    PROVE  /\ v \in Scalar /\ Fprint(v) \in Text /\ Len(Fprint(v)) <= MaxLength
           /\ Fits(v)
<1>1. v \in Scalar
  <2>1. CASE v \in CliValues
    <3>1. PICK t \in Items : v = CliArg(t)
      BY <2>1 DEF CliValues
    <3>2. t \in Text
      BY ConversationAssumption
    <3> QED
      BY <3>1, <3>2, CliArgIs
  <2>2. CASE v \in Values
    BY <2>2, ConversationAssumption
  <2>3. CASE v = Int64(12)
    BY <2>3 DEF Int64, Scalar
  <2>4. CASE v = String(<<"a">>)
    <3>1. <<"a">> \in Text
      BY WordIs, LetterIs
    <3> QED
      BY <2>4, <3>1 DEF String, Scalar
  <2> QED
    BY <2>1, <2>2, <2>3, <2>4 DEF AllValues
<1>2. Len(Fprint(v)) <= MaxLength /\ (v.type = "bytes" => Len(v.text) <= MaxLength)
  BY ConversationAssumption
<1>3. v.type = "other" => Fprint(v) = v.text
  BY DEF Fprint
<1> QED
  BY <1>1, <1>2, <1>3, FprintIs DEF Fits


\* Two symbols that have no meaning to the format.
Plain(cmd) == /\ cmd \in Text /\ Len(cmd) = 2
              /\ LF \notin ToSet(cmd) /\ CR \notin ToSet(cmd)
              /\ SP \notin ToSet(cmd)

\* Two symbols that are neither break nor space make a plain command.
LEMMA PlainIs ==
    ASSUME NEW c \in Symbols, NEW d \in Symbols, c \notin {LF, CR, SP},
           d \notin {LF, CR, SP}
    PROVE  Plain(<<c, d>>)
<1> DEFINE x == <<c, d>>
<1>1. x \in Text /\ Len(x) = 2 /\ x[1] = c /\ x[2] = d
  BY DEF Text
<1> HIDE DEF x
<1>2. \A ch : ch # c /\ ch # d => ch \notin ToSet(x)
  BY <1>1, NotIn
<1>3. Plain(x)
  BY <1>1, <1>2 DEF Plain
<1> QED
  BY <1>3 DEF x

\* The commands.
LEMMA CommandIs ==
    ASSUME NEW cmd \in Commands \cup {NOPE}
    PROVE  Plain(cmd)
<1>1. ToSet(cmd) \subseteq Symbols
  BY ConversationAssumption
<1>2. \A c, d : ToSet(<<c, d>>) = {c, d}
  <2> SUFFICES ASSUME NEW c, NEW d PROVE ToSet(<<c, d>>) = {c, d}
    OBVIOUS
  <2>1. DOMAIN <<c, d>> = {1, 2} /\ <<c, d>>[1] = c /\ <<c, d>>[2] = d
    OBVIOUS
  <2> QED
    BY <2>1 DEF ToSet
<1>3. ASSUME NEW c, NEW d, cmd = <<c, d>>, c \notin {LF, CR, SP},
             d \notin {LF, CR, SP}
      PROVE  Plain(cmd)
  <2>1. c \in Symbols /\ d \in Symbols
    BY <1>1, <1>2, <1>3
  <2> QED
    BY <1>3, <2>1, PlainIs
<1>4. \/ cmd = <<"PI", "NG">> \/ cmd = <<"EC", "HO">> \/ cmd = <<"IN", "FO">>
      \/ cmd = <<"CM", "DS">> \/ cmd = <<"KE", "YS">> \/ cmd = <<"CO", "UNT">>
      \/ cmd = <<"QU", "IT">> \/ cmd = <<"NO", "PE">>
  BY DEF Commands, PING, ECHO, INFO, CMDS, KEYS, COUNT, QUIT, NOPE
<1>5. /\ "PI" \notin {LF, CR, SP} /\ "NG" \notin {LF, CR, SP}
      /\ "EC" \notin {LF, CR, SP} /\ "HO" \notin {LF, CR, SP}
      /\ "IN" \notin {LF, CR, SP} /\ "FO" \notin {LF, CR, SP}
      /\ "CM" \notin {LF, CR, SP} /\ "DS" \notin {LF, CR, SP}
      /\ "KE" \notin {LF, CR, SP} /\ "YS" \notin {LF, CR, SP}
      /\ "CO" \notin {LF, CR, SP} /\ "UNT" \notin {LF, CR, SP}
      /\ "QU" \notin {LF, CR, SP} /\ "IT" \notin {LF, CR, SP}
      /\ "NO" \notin {LF, CR, SP} /\ "PE" \notin {LF, CR, SP}
  BY DEF LF, CR, SP
<1> QED
  BY <1>3, <1>4, <1>5

\* The commands are distinct.
LEMMA CommandsDiffer ==
    /\ PING \notin {ECHO, INFO, CMDS, KEYS, COUNT, QUIT, NOPE}
    /\ ECHO \notin {INFO, CMDS, KEYS, COUNT, QUIT, NOPE}
    /\ INFO \notin {KEYS, COUNT, QUIT, NOPE}
    /\ CMDS \notin {KEYS, COUNT, QUIT, NOPE}
    /\ KEYS \notin {COUNT, QUIT, NOPE}
    /\ COUNT \notin {QUIT, NOPE} /\ QUIT # NOPE
<1>1. \A c, d, e, f : c # e => <<c, d>> # <<e, f>>
  OBVIOUS
<1> QED
  BY <1>1 DEF PING, ECHO, INFO, CMDS, KEYS, COUNT, QUIT, NOPE

\* The calls: no argument, one argument of ECHO, two of ECHO or COUNT.
Plainly(call) == call.args = <<>>
Single(call)  == /\ call.cmd = ECHO
                 /\ \E v \in AllValues : call.args = <<v>>
Double(call)  == /\ call.cmd \in {ECHO, COUNT}
                 /\ \E v, w \in AllValues :
                      /\ call.args = <<v, w>>
                      /\ call.cmd = ECHO => v.type = "string" /\ w.type = "string"
                      /\ call.cmd = COUNT => {v, w} \subseteq {String(<<"a">>), Int64(12)}

\* Every call has one of these forms.
LEMMA CallIs ==
    ASSUME NEW call \in AllCalls
    PROVE  /\ call = Call(call.cmd, call.args)
           /\ call.cmd \in Commands \cup {NOPE}
           /\ Plainly(call) \/ Single(call) \/ Double(call)
<1>1. \A cmd, args : /\ Call(cmd, args).cmd = cmd /\ Call(cmd, args).args = args
                     /\ Call(cmd, args) = Call(Call(cmd, args).cmd, Call(cmd, args).args)
  BY DEF Call
<1>2. {PING, ECHO, INFO, KEYS, COUNT, QUIT, NOPE, CMDS} = Commands \cup {NOPE}
  BY DEF Commands
<1>3. ASSUME NEW values, values \subseteq AllValues, call \in Calls(values)
      PROVE  /\ call = Call(call.cmd, call.args)
             /\ call.cmd \in Commands \cup {NOPE}
             /\ Plainly(call) \/ Single(call) \/ Double(call)
  <2>1. CASE \E cmd \in {PING, ECHO, INFO, KEYS, COUNT, QUIT, NOPE} :
               call = Call(cmd, <<>>)
    <3>1. PICK cmd \in {PING, ECHO, INFO, KEYS, COUNT, QUIT, NOPE} :
                 call = Call(cmd, <<>>)
      BY <2>1
    <3>2. call.cmd = cmd /\ call.args = <<>> /\ call = Call(call.cmd, call.args)
      BY <1>1, <3>1
    <3> QED
      BY <1>2, <3>2 DEF Plainly
  <2>2. CASE \E v \in values : call = Call(ECHO, <<v>>)
    <3>1. PICK v \in values : call = Call(ECHO, <<v>>)
      BY <2>2
    <3>2. call.cmd = ECHO /\ call.args = <<v>> /\ call = Call(call.cmd, call.args)
      BY <1>1, <3>1
    <3>3. v \in AllValues
      BY <1>3
    <3> QED
      BY <1>2, <3>2, <3>3 DEF Single
  <2>3. CASE \E v, w \in {u \in values : u.type = "string"} :
               call = Call(ECHO, <<v, w>>)
    <3>1. PICK v, w \in {u \in values : u.type = "string"} :
                 call = Call(ECHO, <<v, w>>)
      BY <2>3
    <3>2. call.cmd = ECHO /\ call.args = <<v, w>> /\ call = Call(call.cmd, call.args)
      BY <1>1, <3>1
    <3>3. v \in AllValues /\ w \in AllValues /\ v.type = "string" /\ w.type = "string"
      BY <1>3
    <3>4. ECHO # COUNT
      BY CommandsDiffer
    <3> QED
      BY <1>2, <3>2, <3>3, <3>4 DEF Double
  <2>4. CASE \E v, w \in {String(<<"a">>), Int64(12)} : call = Call(COUNT, <<v, w>>)
    <3>1. PICK v, w \in {String(<<"a">>), Int64(12)} : call = Call(COUNT, <<v, w>>)
      BY <2>4
    <3>2. call.cmd = COUNT /\ call.args = <<v, w>> /\ call = Call(call.cmd, call.args)
      BY <1>1, <3>1
    <3>3. v \in AllValues /\ w \in AllValues
      BY DEF AllValues
    <3>4. ECHO # COUNT
      BY CommandsDiffer
    <3> QED
      BY <1>2, <3>2, <3>3, <3>4 DEF Double
  <2> QED
    BY <1>3, <2>1, <2>2, <2>3, <2>4 DEF Calls
<1>4. CASE call \in Calls(CliValues)
  BY <1>3, <1>4 DEF AllValues
<1>5. CASE call \in Calls(Values)
  BY <1>3, <1>5 DEF AllValues
<1>6. CASE call = Call(CMDS, <<>>)
  <2>1. call.cmd = CMDS /\ call.args = <<>> /\ call = Call(call.cmd, call.args)
    BY <1>1, <1>6
  <2> QED
    BY <1>2, <2>1 DEF Plainly
<1> QED
  BY <1>4, <1>5, <1>6 DEF AllCalls


-----------------------------------------------------------------------------
(* One request                                                             *)

\* What a call puts on the wire, and the texts of redis and line.
Wire(p, call) == WriteCommand(p, call.cmd, call.args)
Data(call)    == <<call.cmd>> \o Map(Fprint, call.args)

\* At most two arguments.
LEMMA ArgsAre ==
    ASSUME NEW call \in AllCalls
    PROVE  call.args \in Seq(AllValues) /\ Len(call.args) <= 2
<1>1. CASE Plainly(call)
  <2>1. \A S : <<>> \in Seq(S) /\ Len(<<>>) <= 2
    OBVIOUS
  <2> QED
    BY <1>1, <2>1 DEF Plainly
<1>2. CASE Single(call)
  <2>1. \A S : \A v \in S : <<v>> \in Seq(S) /\ Len(<<v>>) <= 2
    OBVIOUS
  <2> QED
    BY <1>2, <2>1 DEF Single
<1>3. CASE Double(call)
  <2>1. \A S : \A v, w \in S : <<v, w>> \in Seq(S) /\ Len(<<v, w>>) <= 2
    OBVIOUS
  <2> QED
    BY <1>3, <2>1 DEF Double
<1> QED
  BY <1>1, <1>2, <1>3, CallIs

\* The texts of a call: its command, and each argument as text.
LEMMA DataIs ==
    ASSUME NEW call \in AllCalls
    PROVE  /\ Data(call) \in Seq(Text) /\ Len(Data(call)) = Len(call.args) + 1
           /\ Len(Data(call)) <= MaxLength /\ Short(Data(call))
           /\ \A i \in 1..Len(call.args) : Data(call)[i + 1] = Fprint(call.args[i])
           /\ Data(call)[1] = call.cmd
           /\ Map(Fprint, call.args) \in Seq(Text)
<1> DEFINE args == call.args
           m == Map(Fprint, args)
           c == call.cmd
<1>1. args \in Seq(AllValues) /\ Len(args) <= 2 /\ Len(args) \in Nat
      /\ DOMAIN args = 1..Len(args)
  BY ArgsAre
<1>2. c \in Text /\ Len(c) = 2
  BY CallIs, CommandIs DEF Plain
<1>3. \A i \in 1..Len(args) : Fprint(args[i]) \in Text /\ Len(Fprint(args[i])) <= MaxLength
  BY <1>1, ValueIs
<1>4. m = [i \in 1..Len(args) |-> Fprint(args[i])]
  BY <1>1 DEF Map
<1>5. m \in Seq(Text) /\ Len(m) = Len(args)
  BY <1>1, <1>3, <1>4
<1>6. MaxLength \in Nat /\ 3 <= MaxLength
  BY SizeIs, ConversationAssumption
<1>7. \A i \in 1..Len(args) : m[i] = Fprint(args[i])
  BY <1>4
<1> HIDE DEF m, args, c
<1> DEFINE d == <<c>> \o m
<1>8. /\ d \in Seq(Text) /\ Len(d) = Len(args) + 1 /\ d[1] = c
      /\ \A i \in 1..Len(args) : d[i + 1] = m[i]
  BY <1>1, <1>2, <1>5
<1>9. d = Data(call)
  BY DEF Data, m, c, args
<1> HIDE DEF d
<1>10. Len(d) <= MaxLength
  BY <1>1, <1>6, <1>8
<1>11. Short(d)
  <2> SUFFICES ASSUME NEW i \in 1..Len(d) PROVE Len(d[i]) <= MaxLength
    BY DEF Short
  <2>1. CASE i = 1
    <3>1. d[i] = c
      BY <1>8, <2>1
    <3>2. Len(c) <= MaxLength
      BY <1>2, <1>6
    <3> QED
      BY <3>1, <3>2
  <2>2. CASE i # 1
    <3>1. i - 1 \in 1..Len(args) /\ (i - 1) + 1 = i
      BY <1>1, <1>8, <2>2
    <3>2. d[i] = Fprint(args[i - 1])
      BY <1>7, <1>8, <3>1
    <3> QED
      BY <1>3, <3>1, <3>2
  <2> QED
    BY <2>1, <2>2
<1>12. \A i \in 1..Len(args) : d[i + 1] = Fprint(args[i])
  BY <1>7, <1>8
<1> QED
  BY <1>5, <1>8, <1>9, <1>10, <1>11, <1>12 DEF args, c, m

\* The request of redis and line, from the texts.
LEMMA RequestIs ==
    ASSUME NEW call \in AllCalls, NEW p, p # "interface"
    PROVE  Array(Map(Bytes, Data(call))) = Request(p, call)
<1> DEFINE args == call.args
           d == Data(call)
           c == call.cmd
           r == [i \in DOMAIN args |-> Received(p, args[i])]
           q == <<Bytes(c)>> \o r
<1>1. /\ args \in Seq(AllValues) /\ Len(args) \in Nat
      /\ DOMAIN args = 1..Len(args)
  BY ArgsAre
<1>2. /\ d \in Seq(Text) /\ Len(d) = Len(args) + 1 /\ d[1] = c
      /\ \A i \in 1..Len(args) : d[i + 1] = Fprint(args[i])
  BY DataIs
<1>3. \A i \in 1..Len(args) : r[i] = Bytes(Fprint(args[i]))
  BY <1>1 DEF Received
<1>4. r = [i \in 1..Len(args) |-> r[i]]
  BY <1>1
<1> HIDE DEF r, d, args, c
<1>5. /\ DOMAIN q = 1..Len(args) + 1 /\ q[1] = Bytes(c)
      /\ \A i \in 1..Len(args) : q[i + 1] = r[i]
      /\ q = [i \in 1..Len(args) + 1 |-> q[i]]
  <2>1. r \in Seq({r[i] : i \in 1..Len(args)}) /\ Len(r) = Len(args)
    BY <1>1, <1>4
  <2> QED
    BY <1>1, <2>1
<1> HIDE DEF q
<1>6. \A i \in 1..Len(args) + 1 : q[i] = Bytes(d[i])
  <2> SUFFICES ASSUME NEW i \in 1..Len(args) + 1 PROVE q[i] = Bytes(d[i])
    OBVIOUS
  <2>1. CASE i = 1
    BY <1>2, <1>5, <2>1
  <2>2. CASE i # 1
    <3>1. i - 1 \in 1..Len(args) /\ (i - 1) + 1 = i
      BY <1>1, <2>2
    <3> QED
      BY <1>2, <1>3, <1>5, <3>1, ZenonT(60)
  <2> QED
    BY <2>1, <2>2
<1>7. DOMAIN d = 1..Len(args) + 1
  BY <1>2
<1>8. [i \in DOMAIN d |-> Bytes(d[i])] = q
  BY <1>5, <1>6, <1>7
<1>9. Map(Bytes, d) = q
  BY <1>8 DEF Map
<1>10. Request(p, call) = Array(q)
  BY DEF Request, q, r, args, c, Map
<1> QED
  BY <1>9, <1>10 DEF d

\* Redis carries every request, whatever follows it.
LEMMA RedisRequest ==
    ASSUME NEW call \in AllCalls, NEW t \in Text
    PROVE  /\ Wire("redis", call) \in Text
           /\ ReadRequest("redis", Wire("redis", call) \o t) =
                Ok(Request("redis", call), t)
<1> DEFINE d == Data(call)
<1>1. d \in Seq(Text) /\ Len(d) <= MaxLength /\ Short(d)
  BY DataIs
<1>2. Wire("redis", call) = WriteBulk(d)
  BY DEF Wire, WriteCommand, Data
<1>3. \A s : ReadRequest("redis", s) = ReadBulkPayload(s)
  BY DEF ReadRequest
<1>4. Array(Map(Bytes, d)) = Request("redis", call)
  BY RequestIs
<1> HIDE DEF d
<1>5. /\ WriteBulk(d) \in Text
      /\ ReadBulkPayload(WriteBulk(d) \o t) = Ok(Array(Map(Bytes, d)), t)
  BY <1>1, BulkRoundTrip
<1> QED
  BY <1>2, <1>3, <1>4, <1>5


\* ReadLineInvariant, in terms of ReadSlice.
LEMMA LooseLineIs ==
    ASSUME NEW s, NEW packet, NEW rest, ReadSlice(s) = Ok(packet, rest),
           Len(packet) - 1 # 0, packet[Len(packet) - 1] = CR
    PROVE  ReadLineInvariant(s) = Ok(SubSeq(packet, 1, Len(packet) - 1 - 1), rest)
  BY Found DEF ReadLineInvariant, Then

\* A line and CR LF.
LEMMA LooseLine ==
    ASSUME NEW l \in Text, LF \notin ToSet(l)
    PROVE  ReadLineInvariant(l \o Delims) =
             IF Len(l) + 2 <= BufferSize THEN Ok(l, <<>>) ELSE Err
<1> DEFINE a == l \o <<CR>>
           s == l \o Delims
           e == <<>>
<1>1. CR \in Symbols /\ LF \in Symbols /\ CR # LF
  BY SymbolIs DEF CR, LF
<1>2. a \in Text /\ Len(a) = Len(l) + 1 /\ Len(l) \in Nat /\ e \in Text
  BY <1>1 DEF Text
<1>3. LF \notin ToSet(a)
  <2>1. \A j \in 1..Len(l) : l[j] # LF
    BY NotIn
  <2>2. \A j \in 1..Len(a) : a[j] # LF
    BY <1>1, <2>1 DEF Text
  <2> QED
    BY <1>2, <2>2, NotIn
<1>4. s = (a \o <<LF>>) \o e
  <2>1. s = a \o <<LF>> /\ a \o <<LF>> \in Text
    <3>1. a \o <<LF>> \in Text
      BY <1>1, <1>2 DEF Text
    <3>2. \A x, y \in Text : l \o (x \o y) = (l \o x) \o y
      BY DEF Text
    <3>3. <<CR>> \in Text /\ <<LF>> \in Text /\ <<CR, LF>> = <<CR>> \o <<LF>>
      BY <1>1, LetterIs, PairIs
    <3>4. l \o <<CR, LF>> = (l \o <<CR>>) \o <<LF>>
      BY <3>2, <3>3, Zenon
    <3> QED
      BY <3>1, <3>4, Zenon DEF Delims
  <2>2. \A u \in Text : u \o <<>> = u
    BY DEF Text
  <2> QED
    BY <2>1, <2>2
<1> HIDE DEF e
<1>5. ReadSlice(s) =
        IF Len(a) + 1 <= BufferSize THEN Ok(a \o <<LF>>, e) ELSE Err
  BY <1>2, <1>3, <1>4, SliceIs, Zenon
<1>6. CASE Len(l) + 2 <= BufferSize
  <2> DEFINE packet == a \o <<LF>>
  <2>1. ReadSlice(s) = Ok(packet, e)
    <3>1. Len(a) + 1 <= BufferSize
      BY <1>2, <1>6, SizeIs
    <3> QED
      BY <3>1, <1>5
  <2>2. /\ Len(packet) = Len(l) + 2 /\ packet[Len(l) + 1] = CR
        /\ SubSeq(packet, 1, Len(l)) = l
    BY <1>1, <1>2 DEF Text
  <2>3. /\ Len(packet) - 1 = Len(l) + 1 /\ Len(packet) - 1 # 0
        /\ Len(packet) - 1 - 1 = Len(l)
    BY <1>2, <2>2
  <2> HIDE DEF packet, s
  <2>4. ReadLineInvariant(s) = Ok(l, e)
    BY <2>1, <2>2, <2>3, LooseLineIs, Zenon
  <2> QED
    BY <1>6, <2>4 DEF s, e
<1>7. CASE ~(Len(l) + 2 <= BufferSize)
  <2>1. ReadSlice(s) = Err
    <3>1. ~(Len(a) + 1 <= BufferSize)
      BY <1>2, <1>7, SizeIs
    <3> QED
      BY <3>1, <1>5
  <2>2. ReadLineInvariant(s) = Err
    BY <2>1, NoLine, Found
  <2> QED
    BY <1>7, <2>2
<1> QED
  BY <1>6, <1>7

\* readBulk of the line protocol, of a line and CR LF.
LEMMA LineRead ==
    ASSUME NEW l \in Text, LF \notin ToSet(l), Len(l) >= 2
    PROVE  ReadBulk(l \o Delims) =
             IF Len(l) + 2 <= BufferSize
               THEN Ok(Array(Map(Bytes, Split(l))), <<>>) ELSE Err
<1> DEFINE s == l \o Delims
           b == Array(Map(Bytes, Split(l)))
<1>1. ReadLineInvariant(s) =
        IF Len(l) + 2 <= BufferSize THEN Ok(l, <<>>) ELSE Err
  BY LooseLine
<1>2. ~(Len(l) < 2)
  BY DEF Text
<1> HIDE DEF s
<1>3. ASSUME ReadLineInvariant(s) = Ok(l, <<>>)
      PROVE  ReadBulk(s) = Ok(b, <<>>)
  BY <1>2, <1>3, Found DEF ReadBulk, Then
<1>4. ASSUME ReadLineInvariant(s) = Err PROVE ReadBulk(s) = Err
  BY <1>4, Found DEF ReadBulk, Then
<1> HIDE DEF b
<1>5. ReadBulk(s) = IF Len(l) + 2 <= BufferSize THEN Ok(b, <<>>) ELSE Err
  BY <1>1, <1>3, <1>4
<1> QED
  BY <1>5 DEF s, b


\* A symbol of neither of two texts.
LEMMA NotInBoth ==
    ASSUME NEW a \in Text, NEW b \in Text, NEW ch, ch \notin ToSet(a),
           ch \notin ToSet(b)
    PROVE  ch \notin ToSet(a \o b)
<1>1. (\A j \in 1..Len(a) : a[j] # ch) /\ (\A j \in 1..Len(b) : b[j] # ch)
  BY NotIn
<1>2. a \o b \in Text /\ \A j \in 1..Len(a \o b) : (a \o b)[j] # ch
  BY <1>1 DEF Text
<1> QED
  BY <1>2, NotIn

\* At most two texts.
LEMMA FewAre ==
    ASSUME NEW m \in Seq(Text), Len(m) <= 2, NEW c \in Text
    PROVE  \/ m = <<>> /\ <<c>> \o m = <<c>>
           \/ \E x \in Text : /\ m = <<x>> /\ <<c>> \o m = <<c, x>>
                              /\ Len(m) = 1 /\ m[1] = x
           \/ \E x, y \in Text : /\ m = <<x, y>> /\ <<c>> \o m = <<c, x, y>>
                                 /\ Len(m) = 2 /\ m[1] = x /\ m[2] = y
<1>0. \A z \in Text : <<c>> \o <<z>> = <<c, z>>
  <2> SUFFICES ASSUME NEW z \in Text PROVE <<c>> \o <<z>> = <<c, z>>
    OBVIOUS
  <2>1. <<c, z>> = Append(<<c>>, z) /\ <<c>> \in Seq(Text)
    BY TupleIs
  <2>2. \A a \in Seq(Text) : a \o <<z>> = Append(a, z)
    OBVIOUS
  <2> QED
    BY <2>1, <2>2, Zenon
<1>1. CASE Len(m) = 0
  <2>1. m = <<>>
    BY <1>1
  <2>2. <<c>> \o <<>> = <<c>>
    OBVIOUS
  <2> QED
    BY <2>1, <2>2
<1>2. CASE Len(m) = 1
  <2> DEFINE x == m[1]
  <2>1. x \in Text /\ m = <<x>>
    BY <1>2
  <2>2. m[1] = x /\ Len(m) = 1
    BY <1>2
  <2> HIDE DEF x
  <2>4. <<c>> \o m = <<c, x>>
    BY <1>0, <2>1
  <2> QED
    BY <2>1, <2>2, <2>4
<1>3. CASE Len(m) = 2
  <2> DEFINE x == m[1]
             y == m[2]
  <2>1. x \in Text /\ y \in Text
    BY <1>3
  <2>2. m[1] = x /\ m[2] = y /\ Len(m) = 2
    BY <1>3
  <2> HIDE DEF x, y
  <2>3. m = Append(<<x>>, y)
    BY <2>1, <2>2
  <2>4. \A w, z \in Text : <<c>> \o Append(<<w>>, z) = Append(<<c>> \o <<w>>, z)
    OBVIOUS
  <2>6. /\ <<x, y>> = Append(<<x>>, y) /\ <<c, x, y>> = Append(<<c, x>>, y)
    BY <2>1, TupleIs
  <2>7. m = <<x, y>>
    BY <2>3, <2>6, Zenon
  <2>8. <<c>> \o m = <<c, x, y>>
    BY <1>0, <2>1, <2>3, <2>4, <2>6, Zenon
  <2> QED
    BY <2>1, <2>2, <2>7, <2>8
<1>4. Len(m) = 0 \/ Len(m) = 1 \/ Len(m) = 2
  <2> DEFINE k == Len(m)
  <2>1. k \in Nat /\ k <= 2
    OBVIOUS
  <2> HIDE DEF k
  <2>2. k = 0 \/ k = 1 \/ k = 2
    BY <2>1
  <2> QED
    BY <2>2 DEF k
<1> QED
  BY <1>1, <1>2, <1>3, <1>4, Zenon

\* The line of a command and at most two texts.
LEMMA JoinPlain ==
    ASSUME NEW c, Plain(c), NEW m \in Seq(Text), Len(m) <= 2
    PROVE  /\ Join(<<c>> \o m) \in Text /\ Len(Join(<<c>> \o m)) >= 2
           /\ (\A i \in 1..Len(m) : LF \notin ToSet(m[i]))
                => LF \notin ToSet(Join(<<c>> \o m))
<1>1. c \in Text /\ Len(c) = 2 /\ LF \notin ToSet(c)
  BY DEF Plain
<1>2. SP \in Symbols /\ SP # LF
  BY SymbolIs DEF SP, LF
<1>3. <<SP>> \in Text /\ LF \notin ToSet(<<SP>>)
  BY <1>2 DEF Text, ToSet
<1>8. \A a, b, d \in Text :
        /\ a \o b \in Text /\ (a \o b) \o d \in Text
        /\ Len(a) >= 2 => Len((a \o b) \o d) >= 2
  BY DEF Text
<1>5. CASE m = <<>> /\ <<c>> \o m = <<c>>
  <2>1. Join(<<c>>) = c
    BY <1>1, JoinTexts
  <2> QED
    BY <1>1, <1>5, <2>1
<1> DEFINE s == <<SP>>
<1>9. s \in Text /\ LF \notin ToSet(s) /\ Len(c) >= 2
  BY <1>1, <1>3
<1> HIDE DEF s
<1>6. ASSUME NEW x \in Text, m = <<x>>, <<c>> \o m = <<c, x>>, Len(m) = 1, m[1] = x
      PROVE  /\ Join(<<c>> \o m) \in Text /\ Len(Join(<<c>> \o m)) >= 2
             /\ (\A i \in 1..Len(m) : LF \notin ToSet(m[i]))
                  => LF \notin ToSet(Join(<<c>> \o m))
  <2>1. Join(<<c, x>>) = (c \o s) \o x
    BY <1>1, JoinTexts DEF s
  <2>2. c \o s \in Text /\ (c \o s) \o x \in Text /\ Len((c \o s) \o x) >= 2
    BY <1>1, <1>8, <1>9
  <2>3. LF \notin ToSet(c \o s)
    BY <1>1, <1>3, NotInBoth DEF s
  <2>4. ASSUME \A i \in 1..Len(m) : LF \notin ToSet(m[i])
        PROVE  LF \notin ToSet((c \o s) \o x)
    <3>1. 1 \in 1..Len(m)
      BY <1>6
    <3>2. LF \notin ToSet(x)
      BY <1>6, <2>4, <3>1
    <3> QED
      BY <2>2, <2>3, <3>2, NotInBoth
  <2> QED
    BY <1>6, <2>1, <2>2, <2>4
<1>7. ASSUME NEW x \in Text, NEW y \in Text, m = <<x, y>>,
             <<c>> \o m = <<c, x, y>>, Len(m) = 2, m[1] = x, m[2] = y
      PROVE  /\ Join(<<c>> \o m) \in Text /\ Len(Join(<<c>> \o m)) >= 2
             /\ (\A i \in 1..Len(m) : LF \notin ToSet(m[i]))
                  => LF \notin ToSet(Join(<<c>> \o m))
  <2> DEFINE u == (c \o s) \o x
             w == (u \o s) \o y
  <2>1. Join(<<c, x, y>>) = w
    BY <1>1, JoinTexts, ZenonT(60) DEF s
  <2>2. c \o s \in Text /\ u \in Text /\ Len(u) >= 2
    BY <1>1, <1>8, <1>9
  <2>3. ASSUME LF \notin ToSet(x) PROVE LF \notin ToSet(u)
    <3>1. LF \notin ToSet(c \o s)
      BY <1>1, <1>3, NotInBoth DEF s
    <3> QED
      BY <2>2, <2>3, <3>1, NotInBoth
  <2> HIDE DEF u
  <2>4. u \o s \in Text /\ w \in Text /\ Len(w) >= 2
    BY <1>8, <1>9, <2>2
  <2>5. ASSUME \A i \in 1..Len(m) : LF \notin ToSet(m[i])
        PROVE  LF \notin ToSet(w)
    <3>1. 1 \in 1..Len(m) /\ 2 \in 1..Len(m)
      BY <1>7
    <3>2. LF \notin ToSet(x) /\ LF \notin ToSet(y)
      BY <1>7, <2>5, <3>1
    <3>3. LF \notin ToSet(u \o s)
      BY <1>3, <2>2, <2>3, <3>2, NotInBoth DEF s
    <3> QED
      BY <2>4, <3>2, <3>3, NotInBoth
  <2> HIDE DEF w
  <2> QED
    BY <1>7, <2>1, <2>4, <2>5
<1> QED
  BY <1>1, <1>5, <1>6, <1>7, FewAre

\* The parts of that line after the command.
Splits(q, c, m) == /\ Split(Join(<<c>> \o m)) = <<c>> \o q
                   /\ q \in Seq(Text) /\ Join(q) = Join(m)
                   /\ m # <<>> => q # <<>>
                   /\ (\A i \in 1..Len(m) : SP \notin ToSet(m[i])) => q = m

\* Splitting a joined line gives the command first, then the words.
LEMMA SplitJoin ==
    ASSUME NEW c, Plain(c), NEW m \in Seq(Text), Len(m) <= 2
    PROVE  \E q : Splits(q, c, m)
<1> DEFINE s == <<SP>>
<1>1. c \in Text /\ SP \notin ToSet(c)
  BY DEF Plain
<1>2. s \in Text
  BY SymbolIs, LetterIs
<1> HIDE DEF s
<1>3. ASSUME \A i \in 1..Len(m) : SP \notin ToSet(m[i])
      PROVE  Splits(m, c, m)
  <2>1. CASE m = <<>> /\ <<c>> \o m = <<c>>
    <3>1. Join(<<c>>) = c /\ Split(c) = <<c>>
      BY <1>1, JoinTexts, SplitWords
    <3> QED
      BY <2>1, <3>1 DEF Splits
  <2>2. ASSUME NEW x \in Text, m = <<x>>, <<c>> \o m = <<c, x>>, Len(m) = 1, m[1] = x
        PROVE  Splits(m, c, m)
    <3>1. 1 \in 1..Len(m)
      BY <2>2
    <3>2. SP \notin ToSet(x)
      BY <1>3, <2>2, <3>1
    <3>3. Split(Join(<<c, x>>)) = <<c, x>>
      BY <1>1, <3>2, JoinTexts, SplitWords
    <3> QED
      BY <2>2, <3>3 DEF Splits
  <2>3. ASSUME NEW x \in Text, NEW y \in Text, m = <<x, y>>,
               <<c>> \o m = <<c, x, y>>, Len(m) = 2, m[1] = x, m[2] = y
        PROVE  Splits(m, c, m)
    <3>1. 1 \in 1..Len(m) /\ 2 \in 1..Len(m)
      BY <2>3
    <3>2. SP \notin ToSet(x) /\ SP \notin ToSet(y)
      BY <1>3, <2>3, <3>1
    <3>3. Split((((c \o <<SP>>) \o x) \o <<SP>>) \o y) = <<c, x, y>>
      BY <1>1, <3>2, SplitWords
    <3>4. Join(<<c, x, y>>) = (((c \o <<SP>>) \o x) \o <<SP>>) \o y
      BY <1>1, JoinTexts, ZenonT(60)
    <3> QED
      BY <2>3, <3>3, <3>4 DEF Splits
  <2> QED
    BY <1>1, <2>1, <2>2, <2>3, FewAre
<1>4. ASSUME ~ \A i \in 1..Len(m) : SP \notin ToSet(m[i]),
             NEW u \in Text, Join(m) = u, Join(<<c>> \o m) = (c \o s) \o u
      PROVE  \E q : Splits(q, c, m)
  <2>1. PICK q \in Parts : Split((c \o s) \o u) = <<c>> \o q /\ Join(q) = u
    BY <1>1, SplitRest DEF s
  <2>2. Splits(q, c, m)
    BY <1>4, <2>1 DEF Splits, Parts
  <2> QED
    BY <2>2
<1>5. ASSUME ~ \A i \in 1..Len(m) : SP \notin ToSet(m[i])
      PROVE  \E q : Splits(q, c, m)
  <2>1. CASE m = <<>> /\ <<c>> \o m = <<c>>
    <3>1. Len(m) = 0
      BY <2>1
    <3> QED
      BY <1>5, <3>1
  <2>2. ASSUME NEW x \in Text, m = <<x>>, <<c>> \o m = <<c, x>>, Len(m) = 1, m[1] = x
        PROVE  \E q : Splits(q, c, m)
    <3>1. Join(<<x>>) = x /\ Join(<<c, x>>) = (c \o s) \o x
      BY <1>1, JoinTexts DEF s
    <3> QED
      BY <1>4, <1>5, <2>2, <3>1
  <2>3. ASSUME NEW x \in Text, NEW y \in Text, m = <<x, y>>,
               <<c>> \o m = <<c, x, y>>, Len(m) = 2, m[1] = x, m[2] = y
        PROVE  \E q : Splits(q, c, m)
    <3> DEFINE u == (x \o s) \o y
    <3>1. Join(<<x, y>>) = u /\ Join(<<c, x, y>>) = (((c \o s) \o x) \o s) \o y
      BY <1>1, JoinTexts, ZenonT(60) DEF s
    <3>2. \A a, b, d \in Text : a \o b \in Text /\ (a \o b) \o d = a \o (b \o d)
      BY DEF Text
    <3>3. u \in Text /\ x \o s \in Text /\ c \o s \in Text /\ (c \o s) \o x \in Text
      BY <1>1, <1>2, <3>2
    <3>4. (((c \o s) \o x) \o s) \o y = (c \o s) \o u
      <4> DEFINE k == c \o s
      <4>1. k \in Text
        BY <3>3
      <4> HIDE DEF k
      <4>2. (k \o x) \o s = k \o (x \o s)
        BY <1>2, <3>2, <4>1
      <4>3. (k \o (x \o s)) \o y = k \o ((x \o s) \o y)
        BY <3>2, <3>3, <4>1, ZenonT(60)
      <4> QED
        BY <4>2, <4>3 DEF k
    <3> HIDE DEF u
    <3>5. Join(m) = u /\ Join(<<c>> \o m) = (c \o s) \o u
      BY <2>3, <3>1, <3>4
    <3> QED
      BY <1>4, <1>5, <3>3, <3>5
  <2> QED
    BY <1>1, <2>1, <2>2, <2>3, FewAre
<1> QED
  BY <1>3, <1>5


\* What a request makes the server write, with n keys, if it is read as sent.
ReplyTo(p, n, call) == HandleData(p, n, call.cmd, Tail(Request(p, call).items))

\* No text of the call breaks its line; some text has a space that separates.
Whole(p, call)  == \A t \in TextsOf(p, call) : ~Breaks(p, t)
Spaced(p, call) == p = "line" /\ \E t \in TextsOf(p, call) : SP \in ToSet(t)

\* What the server makes of the request v: the reply is the same.
Understood(p, call, v) ==
    /\ v.type = "array" /\ ~Panics(p, v.items) /\ CmdOf(v.items) = call.cmd
    /\ \A n : HandleData(p, n, call.cmd, Tail(v.items)) = ReplyTo(p, n, call)
    /\ v = Request(p, call) \/ Spaced(p, call)

\* A sequence of bytes and what follows the first.
LEMMA TailIs ==
    ASSUME NEW c, NEW n \in Nat, NEW F(_)
    PROVE  LET s == <<c>> \o [i \in 1..n |-> F(i)]
           IN  s[1] = c /\ Tail(s) = [i \in 1..n |-> F(i)] /\ Len(s) = n + 1
               /\ DOMAIN s = 1..n + 1
               /\ \A i \in 1..n : s[i + 1] = F(i)
<1> DEFINE r == [i \in 1..n |-> F(i)]
           S == {c} \cup {F(i) : i \in 1..n}
<1>1. r \in Seq(S) /\ Len(r) = n /\ c \in S /\ \A i \in 1..n : r[i] = F(i)
  OBVIOUS
<1> HIDE DEF r, S
<1>2. LET s == <<c>> \o r
      IN  s[1] = c /\ Tail(s) = r /\ Len(s) = n + 1 /\ DOMAIN s = 1..n + 1
          /\ \A i \in 1..n : s[i + 1] = r[i]
  BY <1>1
<1> QED
  BY <1>1, <1>2 DEF r

\* A request that begins with the bytes of a command.
LEMMA BytesFirst ==
    ASSUME NEW p, NEW c, NEW items, items # <<>>, items[1] = Bytes(c)
    PROVE  ~Panics(p, items) /\ CmdOf(items) = c
<1>1. Bytes(c).type = "bytes" /\ Bytes(c).text = c
  BY DEF Bytes
<1> QED
  BY <1>1 DEF Panics, CmdOf

\* The request as sent is understood.
LEMMA RequestItems ==
    ASSUME NEW call \in AllCalls, NEW p
    PROVE  /\ CmdOf(Request(p, call).items) = call.cmd
           /\ Tail(Request(p, call).items) =
                [i \in 1..Len(call.args) |-> Received(p, call.args[i])]
           /\ Understood(p, call, Request(p, call))
<1> DEFINE args == call.args
           n == Len(args)
           F(i) == Received(p, args[i])
           s == <<Bytes(call.cmd)>> \o [i \in 1..n |-> F(i)]
<1>1. n \in Nat /\ DOMAIN args = 1..n
  BY ArgsAre
<1>2. Request(p, call) = Array(s)
  BY <1>1 DEF Request, Map
<1>3. Request(p, call).items = s
  BY <1>2 DEF Array
<1>4. s[1] = Bytes(call.cmd) /\ Tail(s) = [i \in 1..n |-> F(i)] /\ Len(s) = n + 1
  <2> HIDE DEF n, F
  <2> QED
    BY <1>1, TailIs
<1>5. Request(p, call).type = "array"
  BY <1>2 DEF Array
<1> HIDE DEF s
<1>6. s # <<>>
  BY <1>1, <1>4
<1>7. ~Panics(p, s) /\ CmdOf(s) = call.cmd
  BY <1>4, <1>6, BytesFirst
<1> QED
  BY <1>3, <1>4, <1>5, <1>7 DEF Understood, ReplyTo

\* The texts of the line protocol and of redis.
LEMMA TextsAre ==
    ASSUME NEW call \in AllCalls, NEW p
    PROVE  /\ p # "interface" =>
                \A i \in 1..Len(call.args) : Fprint(call.args[i]) \in TextsOf(p, call)
           /\ \A i \in 1..Len(call.args) :
                call.args[i].type = "string" =>
                  call.args[i].text \in TextsOf(p, call)
<1> DEFINE args == call.args
<1>1. DOMAIN args = 1..Len(args)
  BY ArgsAre
<1>2. \A i \in 1..Len(args) : args[i] \in ToSet(args)
  BY <1>1 DEF ToSet
<1>3. \A v : v.type = "string" => Fprint(v) = v.text
  BY DEF Fprint
<1> QED
  BY <1>2, <1>3 DEF TextsOf

\* ECHO of the line protocol and of redis.
LEMMA EchoLine ==
    ASSUME NEW q \in Seq(Text), NEW p, p # "interface"
    PROVE  Echo(p, [i \in 1..Len(q) |-> Bytes(q[i])]) =
             IF q = <<>> THEN WriteString(<<>>) ELSE WriteString(Join(q))
<1> DEFINE n == Len(q)
           args == [i \in 1..n |-> Bytes(q[i])]
<1>1. n \in Nat /\ DOMAIN q = 1..n /\ (q = <<>> <=> n = 0)
  OBVIOUS
<1>2. DOMAIN args = 1..n /\ \A i \in 1..n : args[i].text = q[i]
  BY DEF Bytes
<1>3. args = <<>> <=> q = <<>>
  <2>1. n = 0 => args = <<>>
    BY <1>2
  <2>2. args = <<>> => n = 0
    <3> SUFFICES ASSUME args = <<>>, n # 0 PROVE FALSE
      OBVIOUS
    <3>1. 1 \in DOMAIN args
      BY <1>1, <1>2
    <3>2. \A a : a = <<>> => DOMAIN a = {}
      OBVIOUS
    <3> QED
      BY <3>1, <3>2
  <2> QED
    BY <1>1, <2>1, <2>2
<1> HIDE DEF args
<1>4. [i \in DOMAIN args |-> args[i].text] = q
  <2>1. q = [i \in 1..n |-> q[i]]
    BY <1>1
  <2> QED
    BY <1>2, <2>1
<1>5. Map(LAMBDA v : v.text, args) = [i \in DOMAIN args |-> args[i].text]
  BY DEF Map
<1>6. Map(LAMBDA v : v.text, args) = q
  BY <1>4, <1>5
<1>7. Echo(p, args) = IF args = <<>> THEN WriteString(<<>>) ELSE WriteString(Join(q))
  BY <1>6 DEF Echo
<1> QED
  BY <1>3, <1>7 DEF args


\* The key and the value that COUNT is given have no space.
LEMMA NoSpace ==
    ASSUME NEW v \in {String(<<"a">>), Int64(12)}
    PROVE  SP \notin ToSet(Fprint(v))
<1>1. CASE v = String(<<"a">>)
  <2> DEFINE c == "a"
             x == <<c>>
  <2>1. v.type = "string" /\ v.text = x
    BY <1>1 DEF String
  <2>2. Fprint(v) = x
    BY <2>1 DEF Fprint
  <2>3. c # SP
    BY DEF SP
  <2> HIDE DEF c
  <2>4. ToSet(x) = {c}
    BY DEF ToSet
  <2> QED
    BY <2>2, <2>3, <2>4
<1>2. CASE v = Int64(12)
  <2>1. v.type = "int64" /\ v.int = 12
    BY <1>2 DEF Int64
  <2>2. Fprint(v) = AppendInt(12)
    BY <2>1 DEF Fprint
  <2>3. AppendInt(12) = AppendNat(12)
    BY DEF AppendInt
  <2> DEFINE d == AppendNat(12)
  <2>4. d \in Seq(Decimal)
    BY NatIs
  <2>5. SP \notin Decimal
    <3>1. Decimal = {"0", "1", "2", "3", "4", "5", "6", "7", "8", "9"}
      BY DEF Decimal, ToSet, Digits
    <3> QED
      BY <3>1 DEF SP
  <2> HIDE DEF d
  <2>6. ToSet(d) \subseteq Decimal
    BY <2>4 DEF ToSet
  <2> QED
    BY <2>2, <2>3, <2>5, <2>6 DEF d
<1> QED
  BY <1>1, <1>2

\* A line whose parts are not those that were sent is of ECHO, which puts
\* them together again.
LEMMA SpacedLine ==
    ASSUME NEW call \in AllCalls, NEW q, Splits(q, call.cmd, Map(Fprint, call.args))
    PROVE  Understood("line", call, Array(Map(Bytes, <<call.cmd>> \o q)))
<1> DEFINE c == call.cmd
           m == Map(Fprint, call.args)
           args == call.args
           p == "line"
           v == Array(Map(Bytes, <<c>> \o q))
<1>1. /\ m \in Seq(Text) /\ Len(m) = Len(args) /\ Len(args) \in Nat
      /\ DOMAIN args = 1..Len(args)
      /\ \A i \in 1..Len(args) : m[i] = Fprint(args[i])
  <2>1. args \in Seq(AllValues) /\ DOMAIN args = 1..Len(args) /\ Len(args) \in Nat
    BY ArgsAre
  <2>2. m = [i \in 1..Len(args) |-> Fprint(args[i])]
    BY <2>1 DEF Map
  <2>3. m \in Seq(Text)
    BY DataIs
  <2> QED
    BY <2>1, <2>2, <2>3
<1>2. CASE q = m
  <2>1. v = Request(p, call)
    BY <1>2, RequestIs DEF Data
  <2> QED
    BY <2>1, RequestItems
<1>3. CASE q # m
  <2>1. PICK i \in 1..Len(m) : SP \in ToSet(m[i])
    BY <1>3 DEF Splits
  <2>2. i \in 1..Len(args) /\ m[i] = Fprint(args[i])
    BY <1>1, <2>1
  <2>3. Spaced(p, call)
    BY <2>1, <2>2, TextsAre DEF Spaced
  <2>4. c = ECHO
    <3>1. CASE Plainly(call)
      <4>1. Len(args) = 0
        BY <3>1 DEF Plainly
      <4> QED
        BY <2>2, <4>1
    <3>2. CASE Single(call)
      BY <3>2 DEF Single
    <3>3. CASE Double(call)
      <4> SUFFICES ASSUME c = COUNT PROVE FALSE
        BY <3>3 DEF Double
      <4>1. PICK x, y : args = <<x, y>> /\ {x, y} \subseteq {String(<<"a">>), Int64(12)}
        BY <3>3 DEF Double
      <4>2. Len(args) = 2 /\ args[1] = x /\ args[2] = y
        BY <4>1
      <4>3. args[i] \in {x, y}
        BY <2>2, <4>2
      <4>4. SP \notin ToSet(Fprint(args[i]))
        BY <4>1, <4>3, NoSpace
      <4> QED
        BY <2>1, <2>2, <4>4
    <3> QED
      BY <3>1, <3>2, <3>3, CallIs
  <2> DEFINE W == Map(Bytes, <<c>> \o q)
             T == [j \in 1..Len(q) |-> Bytes(q[j])]
  <2>5. q \in Seq(Text) /\ Join(q) = Join(m) /\ m # <<>> /\ q # <<>> /\ Len(q) \in Nat
    <3>1. m # <<>>
      BY <1>1, <2>1
    <3> QED
      BY <3>1 DEF Splits
  <2>6. c \in Text
    BY CallIs, CommandIs DEF Plain
  <2>7. W[1] = Bytes(c) /\ Tail(W) = T /\ W # <<>>
    <3> DEFINE d == <<c>> \o q
               F(j) == Bytes(q[j])
               s == <<Bytes(c)>> \o [j \in 1..Len(q) |-> F(j)]
    <3>1. d \in Seq(Text) /\ Len(d) = Len(q) + 1 /\ d[1] = c
          /\ DOMAIN d = 1..Len(q) + 1
          /\ \A j \in 1..Len(q) : d[j + 1] = q[j]
      BY <2>5, <2>6
    <3>2. s[1] = Bytes(c) /\ Tail(s) = [j \in 1..Len(q) |-> F(j)]
          /\ DOMAIN s = 1..Len(q) + 1
          /\ \A j \in 1..Len(q) : s[j + 1] = F(j)
      <4> HIDE DEF F
      <4> QED
        BY <2>5, TailIs
    <3>3. s = [j \in 1..Len(q) + 1 |-> s[j]]
      <4>1. [j \in 1..Len(q) |-> F(j)] \in Seq({F(j) : j \in 1..Len(q)})
        BY <2>5
      <4> DEFINE z == [j \in 1..Len(q) |-> F(j)]
                 Z == {F(j) : j \in 1..Len(q)}
      <4>2. z \in Seq(Z) /\ Len(z) = Len(q)
        BY <2>5, <4>1
      <4> HIDE DEF z, Z, F
      <4>3. \A b : <<b>> \o z = [j \in 1..Len(q) + 1 |-> (<<b>> \o z)[j]]
        BY <2>5, <4>2
      <4> QED
        BY <4>3 DEF z
    <3> HIDE DEF s, d
    <3>4. \A j \in 1..Len(q) + 1 : s[j] = Bytes(d[j])
      <4> SUFFICES ASSUME NEW j \in 1..Len(q) + 1 PROVE s[j] = Bytes(d[j])
        OBVIOUS
      <4>1. CASE j = 1
        BY <3>1, <3>2, <4>1
      <4>2. CASE j # 1
        <5>1. j - 1 \in 1..Len(q) /\ (j - 1) + 1 = j
          BY <2>5, <4>2
        <5>2. s[j] = F(j - 1) /\ d[j] = q[j - 1]
          BY <3>1, <3>2, <5>1
        <5> QED
          BY <5>2
      <4> QED
        BY <4>1, <4>2
    <3>5. [j \in DOMAIN d |-> Bytes(d[j])] = s
      BY <3>1, <3>3, <3>4
    <3>6. Map(Bytes, d) = s
      BY <3>5 DEF Map
    <3>7. s # <<>>
      <4>1. 1 \in 1..Len(q) + 1
        BY <2>5
      <4>2. DOMAIN <<>> # DOMAIN s
        BY <3>2, <4>1
      <4> QED
        BY <4>2
    <3> QED
      BY <3>2, <3>6, <3>7 DEF d
  <2>8. v.items = W
    BY DEF Array
  <2>9. /\ v.type = "array" /\ ~Panics(p, v.items) /\ CmdOf(v.items) = c
        /\ Tail(v.items) = T
    <3>1. v.type = "array"
      BY DEF Array
    <3> HIDE DEF v, W, T
    <3> QED
      BY <2>7, <2>8, <3>1, BytesFirst
  <2> DEFINE U == [j \in 1..Len(m) |-> Bytes(m[j])]
  <2>10. Tail(Request(p, call).items) = U
    <3>1. Tail(Request(p, call).items) =
            [j \in 1..Len(args) |-> Received(p, args[j])]
      BY RequestItems
    <3>2. \A j \in 1..Len(args) : Received(p, args[j]) = Bytes(m[j])
      BY <1>1 DEF Received
    <3> QED
      BY <1>1, <3>1, <3>2
  <2>11. Echo(p, T) = WriteString(Join(m)) /\ Echo(p, U) = WriteString(Join(m))
    <3> HIDE DEF m, T, U
    <3>1. Echo(p, T) = WriteString(Join(q))
      BY <2>5, EchoLine DEF T
    <3>2. Echo(p, U) = WriteString(Join(m))
      BY <1>1, <2>5, EchoLine DEF U
    <3> QED
      BY <2>5, <3>1, <3>2
  <2> HIDE DEF T, U, v, m, W
  <2>12. \A n, z : HandleData(p, n, ECHO, z) = Echo(p, z)
    BY CommandsDiffer DEF HandleData, Commands
  <2>13. \A n : HandleData(p, n, c, Tail(v.items)) = ReplyTo(p, n, call)
    BY <2>4, <2>9, <2>10, <2>11, <2>12 DEF ReplyTo
  <2>14. Understood(p, call, v)
    BY <2>3, <2>9, <2>13 DEF Understood
  <2> QED
    BY <2>14 DEF v
<1> QED
  BY <1>2, <1>3

\* The line protocol reads one request.
LEMMA LineRequest ==
    ASSUME NEW call \in AllCalls, Whole("line", call)
    PROVE  /\ Arrives("line", call) =>
                \E v : /\ ReadRequest("line", Wire("line", call)) = Ok(v, <<>>)
                       /\ Understood("line", call, v)
           /\ ~Arrives("line", call) =>
                ReadRequest("line", Wire("line", call)) = Err
           /\ Wire("line", call) \in Text
<1> DEFINE c == call.cmd
           m == Map(Fprint, call.args)
           l == Join(<<c>> \o m)
<1>1. Plain(c)
  BY CallIs, CommandIs
<1>2. m \in Seq(Text) /\ Len(m) <= 2 /\ Len(m) = Len(call.args)
  <2>1. m \in Seq(Text)
    BY DataIs
  <2>2. DOMAIN call.args = 1..Len(call.args) /\ Len(call.args) <= 2 /\ Len(call.args) \in Nat
    BY ArgsAre
  <2>3. m = [i \in 1..Len(call.args) |-> Fprint(call.args[i])]
    BY <2>2 DEF Map
  <2>4. Len(m) = Len(call.args)
    BY <2>2, <2>3
  <2> QED
    BY <2>1, <2>2, <2>4
<1>3. \A i \in 1..Len(m) : LF \notin ToSet(m[i])
  <2> SUFFICES ASSUME NEW i \in 1..Len(m) PROVE LF \notin ToSet(m[i])
    OBVIOUS
  <2>1. i \in 1..Len(call.args)
    BY <1>2
  <2>2. m[i] = Fprint(call.args[i])
    <3>1. i \in DOMAIN call.args
      BY <2>1, ArgsAre
    <3> QED
      BY <3>1 DEF Map
  <2>3. Fprint(call.args[i]) \in TextsOf("line", call)
    BY <2>1, TextsAre
  <2>4. ~Breaks("line", Fprint(call.args[i]))
    BY <2>3 DEF Whole
  <2> QED
    BY <2>2, <2>4 DEF Breaks
<1>4. PICK q : Splits(q, c, m)
  <2> HIDE DEF m, c
  <2> QED
    BY <1>1, <1>2, SplitJoin
<1>5. Understood("line", call, Array(Map(Bytes, <<c>> \o q)))
  BY <1>4, SpacedLine
<1>6. Split(l) = <<c>> \o q
  BY <1>4 DEF Splits
<1>7. Wire("line", call) = l \o Delims
  BY DEF Wire, WriteCommand
<1>8. \A s : ReadRequest("line", s) = ReadBulk(s)
  BY DEF ReadRequest
<1>9. Arrives("line", call) <=> Len(l) + 2 <= BufferSize
  BY DEF Arrives
<1> HIDE DEF m, c
<1>10. l \in Text /\ Len(l) >= 2 /\ LF \notin ToSet(l)
  BY <1>1, <1>2, <1>3, JoinPlain
<1> HIDE DEF l
<1>11. ReadBulk(l \o Delims) =
         IF Len(l) + 2 <= BufferSize
           THEN Ok(Array(Map(Bytes, Split(l))), <<>>) ELSE Err
  BY <1>10, LineRead
<1> DEFINE v == Array(Map(Bytes, <<c>> \o q))
<1>12. Array(Map(Bytes, Split(l))) = v
  BY <1>6
<1> HIDE DEF v
<1>13. ReadRequest("line", Wire("line", call)) =
         IF Arrives("line", call) THEN Ok(v, <<>>) ELSE Err
  BY <1>7, <1>8, <1>9, <1>11, <1>12, Zenon
<1>14. Wire("line", call) \in Text
  <2>1. Delims \in Text
    BY SymbolIs, PairIs DEF Delims
  <2>2. l \o Delims \in Text
    BY <1>10, <2>1 DEF Text
  <2> QED
    BY <1>7, <2>2
<1> QED
  BY <1>5, <1>13, <1>14 DEF v


\* The interface protocol reads one request.
LEMMA InterfaceRequest ==
    ASSUME NEW call \in AllCalls, Whole("interface", call)
    PROVE  /\ Arrives("interface", call) =>
                ReadRequest("interface", Wire("interface", call)) =
                  Ok(Request("interface", call), <<>>)
           /\ ~Arrives("interface", call) =>
                ReadRequest("interface", Wire("interface", call)) = Err
           /\ \A i \in 1..Len(call.args) : Sendable(call.args[i])
           /\ Wire("interface", call) \in Text
<1> DEFINE p == "interface"
           c == call.cmd
           b == Bytes(c)
           args == call.args
           n == Len(args)
           s == <<b>> \o args
           S == {v \in Scalar : Sendable(v)}
<1>1. args \in Seq(AllValues) /\ n \in Nat /\ n <= 2 /\ DOMAIN args = 1..n
  BY ArgsAre
<1>2. \A i \in 1..n : Sendable(args[i])
  <2> SUFFICES ASSUME NEW i \in 1..n PROVE Sendable(args[i])
    OBVIOUS
  <2> DEFINE v == args[i]
  <2>1. v \in Scalar /\ Fits(v)
    <3>1. v \in AllValues
      BY <1>1
    <3> QED
      BY <3>1, ValueIs
  <2>2. v.type = "string" => ~HasCRLF(v.text)
    <3> SUFFICES ASSUME v.type = "string" PROVE ~HasCRLF(v.text)
      OBVIOUS
    <3>1. v.text \in TextsOf(p, call)
      BY TextsAre
    <3>2. ~Breaks(p, v.text)
      BY <3>1 DEF Whole
    <3> QED
      BY <3>2 DEF Breaks
  <2> QED
    BY <2>1, <2>2 DEF Sendable
<1>3. b \in S /\ CanReceive(b) /\ Received(p, b) = b
  <2>1. c \in Text /\ Len(c) = 2
    BY CallIs, CommandIs DEF Plain
  <2>2. b.type = "bytes" /\ b.text = c
    BY DEF Bytes
  <2>3. b \in Scalar
    BY <2>1 DEF Bytes, Scalar
  <2>4. 2 <= MaxLength
    BY SizeIs, ConversationAssumption
  <2>5. Fits(b)
    BY <2>1, <2>2, <2>4 DEF Fits
  <2>6. CanReceive(b)
    BY <2>2 DEF CanReceive
  <2>7. Received(p, b) = b
    BY <2>2 DEF Received
  <2> HIDE DEF b
  <2>8. b.type # "string"
    BY <2>2
  <2> QED
    BY <2>3, <2>5, <2>6, <2>7, <2>8 DEF Sendable
<1>4. args \in Seq(S)
  <2>1. \A i \in 1..n : args[i] \in S
    BY <1>2 DEF Sendable
  <2>2. args = [i \in 1..n |-> args[i]]
    BY <1>1
  <2> HIDE DEF S, args
  <2> QED
    BY <1>1, <2>1, <2>2
<1> HIDE DEF S, b
<1>5. /\ s \in Seq(S) /\ Len(s) = n + 1 /\ s[1] = b /\ DOMAIN s = 1..n + 1
      /\ \A i \in 1..n : s[i + 1] = args[i]
  BY <1>1, <1>3, <1>4
<1>6. Len(s) <= MaxLength
  <2>1. MaxLength \in Nat /\ 3 <= MaxLength
    BY SizeIs, ConversationAssumption
  <2> HIDE DEF s, n
  <2> QED
    BY <1>1, <1>5, <2>1
<1>7. Wire(p, call) = WriteArray(s)
  BY DEF Wire, WriteCommand, b
<1>8. \A w : ReadRequest(p, w) = ReadInterface(w)
  BY DEF ReadRequest
<1> HIDE DEF s
<1> DEFINE V == Array([i \in 1..Len(s) |-> Received(p, s[i])])
<1>9. /\ WriteArray(s) \in Text
      /\ ReadInterface(WriteArray(s) \o <<>>) =
           IF \A i \in 1..Len(s) : CanReceive(s[i]) THEN Ok(V, <<>>) ELSE Err
  <2> DEFINE e == <<>>
  <2>1. e \in Text
    BY DEF Text
  <2> HIDE DEF e
  <2>2. /\ WriteArray(s) \in Text
        /\ ReadInterface(WriteArray(s) \o e) =
             IF \A i \in 1..Len(s) : CanReceive(s[i]) THEN Ok(V, e) ELSE Err
    BY <1>5, <1>6, <2>1, ArrayRoundTrip DEF S
  <2> QED
    BY <2>2 DEF e
<1>10. WriteArray(s) \o <<>> = WriteArray(s)
  BY <1>9 DEF Text
<1>11. (\A i \in 1..Len(s) : CanReceive(s[i])) <=> Arrives(p, call)
  <2>1. Arrives(p, call) <=> \A v \in ToSet(args) : CanReceive(v)
    BY DEF Arrives
  <2>2. ToSet(args) = {args[i] : i \in 1..n}
    BY <1>1 DEF ToSet
  <2>3. Arrives(p, call) <=> \A i \in 1..n : CanReceive(args[i])
    BY <2>1, <2>2
  <2>4. (\A i \in 1..n : CanReceive(args[i])) =>
          \A i \in 1..Len(s) : CanReceive(s[i])
    <3> SUFFICES ASSUME \A i \in 1..n : CanReceive(args[i]), NEW i \in 1..Len(s)
                 PROVE  CanReceive(s[i])
      OBVIOUS
    <3>1. CASE i = 1
      BY <1>3, <1>5, <3>1
    <3>2. CASE i # 1
      <4>1. i - 1 \in 1..n /\ (i - 1) + 1 = i
        BY <1>1, <1>5, <3>2
      <4>2. s[i] = args[i - 1]
        BY <1>5, <4>1
      <4> QED
        BY <4>1, <4>2
    <3> QED
      BY <3>1, <3>2
  <2>5. (\A i \in 1..Len(s) : CanReceive(s[i])) =>
          \A i \in 1..n : CanReceive(args[i])
    <3> SUFFICES ASSUME \A i \in 1..Len(s) : CanReceive(s[i]), NEW i \in 1..n
                 PROVE  CanReceive(args[i])
      OBVIOUS
    <3>1. i + 1 \in 1..Len(s) /\ s[i + 1] = args[i]
      BY <1>1, <1>5
    <3> QED
      BY <3>1
  <2> QED
    BY <2>3, <2>4, <2>5
<1>12. V = Request(p, call)
  <2> DEFINE F(i) == Received(p, args[i])
             z == <<b>> \o [i \in 1..n |-> F(i)]
  <2>1. Request(p, call) = Array(z)
    BY <1>1 DEF Request, Map, b
  <2>2. /\ z[1] = b /\ DOMAIN z = 1..n + 1
        /\ \A i \in 1..n : z[i + 1] = F(i)
    <3> HIDE DEF F, n
    <3> QED
      BY <1>1, TailIs
  <2>3. z = [i \in 1..n + 1 |-> z[i]]
    <3> DEFINE y == [i \in 1..n |-> F(i)]
               Y == {F(i) : i \in 1..n}
    <3>1. y \in Seq(Y) /\ Len(y) = n
      BY <1>1
    <3> HIDE DEF y, Y, F
    <3>2. \A x : <<x>> \o y = [i \in 1..n + 1 |-> (<<x>> \o y)[i]]
      BY <1>1, <3>1
    <3> QED
      BY <3>2 DEF y
  <2> HIDE DEF z
  <2>4. \A i \in 1..n + 1 : z[i] = Received(p, s[i])
    <3> SUFFICES ASSUME NEW i \in 1..n + 1 PROVE z[i] = Received(p, s[i])
      OBVIOUS
    <3>1. CASE i = 1
      BY <1>3, <1>5, <2>2, <3>1
    <3>2. CASE i # 1
      <4>1. i - 1 \in 1..n /\ (i - 1) + 1 = i
        BY <1>1, <3>2
      <4>2. s[i] = args[i - 1] /\ z[i] = F(i - 1)
        BY <1>5, <2>2, <4>1
      <4> QED
        BY <4>2
    <3> QED
      BY <3>1, <3>2
  <2>5. [i \in 1..Len(s) |-> Received(p, s[i])] = z
    BY <1>5, <2>3, <2>4
  <2> QED
    BY <2>1, <2>5
<1> HIDE DEF V
<1>13. ReadRequest(p, Wire(p, call)) =
         IF Arrives(p, call) THEN Ok(V, <<>>) ELSE Err
  BY <1>7, <1>8, <1>9, <1>10, <1>11, Zenon
<1>14. Wire(p, call) \in Text
  BY <1>7, <1>9
<1> QED
  BY <1>2, <1>12, <1>13, <1>14


\* The server reads one request as it was sent, up to the spaces of the line
\* protocol, or fails exactly where the format cannot carry it.
THEOREM RequestRoundTrip ==
    ASSUME NEW p \in Protocols, NEW call \in AllCalls, Whole(p, call)
    PROVE  /\ Arrives(p, call) =>
                \E v : /\ ReadRequest(p, Wire(p, call)) = Ok(v, <<>>)
                       /\ Understood(p, call, v)
           /\ ~Arrives(p, call) => ReadRequest(p, Wire(p, call)) = Err
           /\ Wire(p, call) \in Text
<1>1. CASE p = "redis"
  <2> DEFINE e == <<>>
             w == Wire("redis", call)
  <2>1. e \in Text
    BY DEF Text
  <2> HIDE DEF e
  <2>2. w \in Text /\ ReadRequest("redis", w \o e) = Ok(Request("redis", call), e)
    BY <2>1, RedisRequest
  <2> HIDE DEF w
  <2>3. w \o e = w
    BY <2>2 DEF Text, e
  <2>4. ReadRequest("redis", w) = Ok(Request("redis", call), <<>>)
    BY <2>2, <2>3 DEF e
  <2>5. Arrives("redis", call)
    BY DEF Arrives
  <2>6. Understood("redis", call, Request("redis", call))
    BY RequestItems
  <2> QED
    BY <1>1, <2>2, <2>4, <2>5, <2>6 DEF w
<1>2. CASE p = "line"
  BY <1>2, LineRequest
<1>3. CASE p = "interface"
  <2>1. Understood("interface", call, Request("interface", call))
    BY RequestItems
  <2> QED
    BY <1>3, <2>1, InterfaceRequest
<1> QED
  BY <1>1, <1>2, <1>3, ConversationAssumption

-----------------------------------------------------------------------------
(* One reply                                                               *)

\* The handlers.
LEMMA HandleIs ==
    ASSUME NEW p, NEW n, NEW args
    PROVE  /\ HandleData(p, n, PING, args) = WriteString(<<"PONG">>)
           /\ HandleData(p, n, ECHO, args) = Echo(p, args)
           /\ HandleData(p, n, KEYS, args) = Keys(n)
           /\ HandleData(p, n, COUNT, args) = Count(p, args)
           /\ HandleData(p, n, QUIT, args) =
                IF p = "line" THEN <<>> ELSE WriteString(<<"OK">>)
<1> DEFINE a == WriteString(<<"PONG">>)
           b == WriteJson(<<"{", "}">>)
           d == WriteString(<<"OK">>)
           f == WriteError(<<"not found">>)
<1>1. \A cmd : HandleData(p, n, cmd, args) =
        CASE cmd = PING -> a
          [] cmd \in {INFO, CMDS} -> b
          [] cmd = ECHO -> Echo(p, args)
          [] cmd = KEYS -> Keys(n)
          [] cmd = COUNT -> Count(p, args)
          [] cmd = QUIT -> IF p = "line" THEN <<>> ELSE d
          [] cmd \notin Commands -> f
  BY DEF HandleData
<1> HIDE DEF a, b, d, f
<1>2. \A cmd \in {PING, INFO, CMDS, ECHO, KEYS, COUNT, QUIT} : cmd \in Commands
  BY DEF Commands
<1>3. /\ HandleData(p, n, PING, args) = a
      /\ HandleData(p, n, ECHO, args) = Echo(p, args)
      /\ HandleData(p, n, KEYS, args) = Keys(n)
  BY <1>1, <1>2, CommandsDiffer
<1>4. /\ HandleData(p, n, COUNT, args) = Count(p, args)
      /\ HandleData(p, n, QUIT, args) = IF p = "line" THEN <<>> ELSE d
  BY <1>1, <1>2, CommandsDiffer
<1> QED
  BY <1>3, <1>4 DEF a, d

\* INFO and CMDS.
LEMMA HandleJson ==
    ASSUME NEW p, NEW n, NEW args, NEW cmd \in {INFO, CMDS}
    PROVE  HandleData(p, n, cmd, args) = WriteJson(<<"{", "}">>)
<1> DEFINE b == WriteJson(<<"{", "}">>)
<1>1. cmd \in Commands /\ cmd \notin {PING, ECHO, KEYS, COUNT, QUIT}
  BY CommandsDiffer DEF Commands
<1>2. HandleData(p, n, cmd, args) = b
  BY <1>1 DEF HandleData
<1> QED
  BY <1>2

\* A command that is not registered.
LEMMA HandleNope ==
    ASSUME NEW p, NEW n, NEW args
    PROVE  HandleData(p, n, NOPE, args) = WriteError(<<"not found">>)
<1> DEFINE f == WriteError(<<"not found">>)
<1>1. NOPE \notin Commands /\ NOPE \notin {PING, INFO, CMDS, ECHO, KEYS, COUNT, QUIT}
  BY CommandsDiffer DEF Commands
<1>2. HandleData(p, n, NOPE, args) = f
  BY <1>1 DEF HandleData
<1> QED
  BY <1>2

\* What the calls should return.
LEMMA AnswerIs ==
    ASSUME NEW p, NEW n, NEW call, Arrives(p, call)
    PROVE  /\ call.cmd = PING => Answer(p, n, call) = String(<<"PONG">>)
           /\ call.cmd \in {INFO, CMDS} => Answer(p, n, call) = Json
           /\ call.cmd = ECHO => Answer(p, n, call) = EchoAnswer(p, call.args)
           /\ call.cmd = KEYS => Answer(p, n, call) =
                IF n > 1 THEN Failed ELSE Array([i \in 1..n |-> String(<<"key">>)])
           /\ call.cmd = QUIT => Answer(p, n, call) =
                IF p = "line" THEN Failed ELSE String(<<"OK">>)
           /\ call.cmd = COUNT => Answer(p, n, call) = Error(<<"ERR ", "arguments">>)
           /\ call.cmd = NOPE => Answer(p, n, call) = Error(<<"ERR ", "not found">>)
<1> DEFINE cmd == call.cmd
           a == String(<<"PONG">>)
           b == Array([i \in 1..n |-> String(<<"key">>)])
           d == String(<<"OK">>)
           f == Error(<<"ERR ", "arguments">>)
           g == Error(<<"ERR ", "not found">>)
<1>1. Answer(p, n, call) =
        CASE cmd = PING -> a
          [] cmd \in {INFO, CMDS} -> Json
          [] cmd = ECHO -> EchoAnswer(p, call.args)
          [] cmd = KEYS -> IF n > 1 THEN Failed ELSE b
          [] cmd = QUIT -> IF p = "line" THEN Failed ELSE d
          [] cmd = COUNT -> f
          [] cmd = NOPE -> g
  BY DEF Answer
<1> HIDE DEF a, b, d, f, g, cmd
<1>2. /\ cmd = PING => Answer(p, n, call) = a
      /\ cmd \in {INFO, CMDS} => Answer(p, n, call) = Json
      /\ cmd = ECHO => Answer(p, n, call) = EchoAnswer(p, call.args)
      /\ cmd = KEYS => Answer(p, n, call) = IF n > 1 THEN Failed ELSE b
  BY <1>1, CommandsDiffer
<1>3. /\ cmd = QUIT => Answer(p, n, call) = IF p = "line" THEN Failed ELSE d
      /\ cmd = COUNT => Answer(p, n, call) = f
      /\ cmd = NOPE => Answer(p, n, call) = g
  BY <1>1, CommandsDiffer
<1> QED
  BY <1>2, <1>3 DEF a, b, d, f, g, cmd


\* Joining texts makes no line break.
LEMMA NoBreak ==
    ASSUME NEW x \in Text, NEW y \in Text, ~HasCRLF(x), ~HasCRLF(y)
    PROVE  ~HasCRLF((x \o <<SP>>) \o y)
<1> DEFINE u == (x \o <<SP>>) \o y
           n == Len(x)
           k == Len(y)
<1>1. SP \in Symbols /\ SP # CR /\ SP # LF
  BY SymbolIs DEF SP, CR, LF
<1>2. /\ n \in Nat /\ k \in Nat /\ Len(u) = n + 1 + k /\ u[n + 1] = SP
      /\ \A i \in 1..n : u[i] = x[i]
      /\ \A i \in 1..k : u[n + 1 + i] = y[i]
  BY <1>1 DEF Text
<1> HIDE DEF u
<1> SUFFICES ASSUME NEW i \in 1..Len(u) - 1, u[i] = CR, u[i + 1] = LF
             PROVE  FALSE
  BY DEF HasCRLF, u
<1>3. CASE i + 1 <= n
  <2>1. i \in 1..n - 1 /\ i \in 1..n /\ i + 1 \in 1..n
    BY <1>2, <1>3
  <2>2. x[i] = CR /\ x[i + 1] = LF
    BY <1>2, <2>1
  <2> QED
    BY <2>1, <2>2 DEF HasCRLF
<1>4. CASE i = n
  BY <1>1, <1>2, <1>4
<1>5. CASE i = n + 1
  BY <1>1, <1>2, <1>5
<1>6. CASE i > n + 1
  <2> DEFINE j == i - (n + 1)
  <2>1. /\ j \in 1..k - 1 /\ j \in 1..k /\ j + 1 \in 1..k
        /\ n + 1 + j = i /\ n + 1 + (j + 1) = i + 1
    BY <1>2, <1>6
  <2> HIDE DEF j
  <2>2. y[j] = CR /\ y[j + 1] = LF
    BY <1>2, <2>1
  <2> QED
    BY <2>1, <2>2 DEF HasCRLF
<1>7. i + 1 <= n \/ i = n \/ i = n + 1 \/ i > n + 1
  <2>1. i \in Int /\ n \in Int
    BY <1>2
  <2> HIDE DEF n
  <2> QED
    BY <2>1
<1> QED
  BY <1>3, <1>4, <1>5, <1>6, <1>7

\* Joining texts without a line break makes none.
LEMMA JoinWhole ==
    ASSUME NEW m \in Seq(Text), Len(m) <= 2, m # <<>>,
           \A i \in 1..Len(m) : ~HasCRLF(m[i])
    PROVE  Join(m) \in Text /\ ~HasCRLF(Join(m))
<1>1. <<>> \in Text
  BY DEF Text
<1>2. Join(m) \in Text
  BY <1>1, JoinAppend
<1>3. ASSUME NEW x \in Text, m = <<x>>, Len(m) = 1, m[1] = x
      PROVE  ~HasCRLF(Join(m))
  <2>1. 1 \in 1..Len(m)
    BY <1>3
  <2>2. ~HasCRLF(x)
    BY <1>3, <2>1
  <2>3. Join(<<x>>) = x
    BY JoinTexts
  <2> QED
    BY <1>3, <2>2, <2>3
<1>4. ASSUME NEW x \in Text, NEW y \in Text, m = <<x, y>>, Len(m) = 2,
             m[1] = x, m[2] = y
      PROVE  ~HasCRLF(Join(m))
  <2>1. 1 \in 1..Len(m) /\ 2 \in 1..Len(m)
    BY <1>4
  <2>2. ~HasCRLF(x) /\ ~HasCRLF(y)
    BY <1>4, <2>1
  <2>3. Join(<<x, y>>) = (x \o <<SP>>) \o y
    BY JoinTexts
  <2>4. ~HasCRLF((x \o <<SP>>) \o y)
    BY <2>2, NoBreak
  <2> QED
    BY <1>4, <2>3, <2>4
<1> DEFINE e == <<>>
<1> HIDE DEF e
<1>5. e \in Text
  BY <1>1 DEF e
<1>6. \/ \E x \in Text : m = <<x>> /\ Len(m) = 1 /\ m[1] = x
      \/ \E x, y \in Text : m = <<x, y>> /\ Len(m) = 2 /\ m[1] = x /\ m[2] = y
  <2>1. \/ m = <<>> /\ <<e>> \o m = <<e>>
        \/ \E x \in Text : /\ m = <<x>> /\ <<e>> \o m = <<e, x>>
                           /\ Len(m) = 1 /\ m[1] = x
        \/ \E x, y \in Text : /\ m = <<x, y>> /\ <<e>> \o m = <<e, x, y>>
                              /\ Len(m) = 2 /\ m[1] = x /\ m[2] = y
    BY <1>5, FewAre
  <2> QED
    BY <2>1, Zenon
<1> QED
  BY <1>2, <1>3, <1>4, <1>6, Zenon

\* What the client makes of the reply to a call that has been served.
Replied(p, n, call) ==
    /\ ReplyTo(p, n, call) \in Text
    /\ \/ ReadInterface(ReplyTo(p, n, call)) = Ok(Answer(p, n, call), <<>>)
       \/ /\ ReadInterface(ReplyTo(p, n, call)) = Err
          /\ Answer(p, n, call) = Failed
       \/ /\ ReplyTo(p, n, call) = <<>>
          /\ call.cmd = QUIT => Answer(p, n, call) = Failed
          /\ call.cmd \in {COUNT, QUIT}

\* ECHO of no argument.
LEMMA EchoNothing ==
    ASSUME NEW call \in AllCalls, NEW p, NEW n, Arrives(p, call),
           call.cmd = ECHO, call.args = <<>>
    PROVE  Replied(p, n, call)
<1> DEFINE e == <<>>
<1>1. ReplyTo(p, n, call) = Echo(p, Tail(Request(p, call).items))
  BY HandleIs DEF ReplyTo
<1>2. Tail(Request(p, call).items) = <<>>
  <2>1. Tail(Request(p, call).items) =
          [i \in 1..Len(call.args) |-> Received(p, call.args[i])]
    BY RequestItems
  <2>2. Len(call.args) = 0
    OBVIOUS
  <2>3. \A f : DOMAIN f = {} /\ f = [i \in {} |-> f[i]] => f = <<>>
    OBVIOUS
  <2>4. 1..0 = {}
    OBVIOUS
  <2> QED
    BY <2>1, <2>2, <2>3, <2>4
<1>3. ReplyTo(p, n, call) = WriteString(e)
  BY <1>1, <1>2 DEF Echo
<1>4. e \in Text /\ ~Readable(e) /\ ~HasCRLF(e)
  BY DEF Text, Readable, HasCRLF
<1> HIDE DEF e
<1>5. WriteString(e) \in Text /\ ReadInterface(WriteString(e)) = Err
  BY <1>4, StringReply
<1>6. Answer(p, n, call) = Failed
  BY AnswerIs DEF EchoAnswer
<1> QED
  BY <1>3, <1>5, <1>6 DEF Replied

\* ECHO of redis and line.
LEMMA EchoText ==
    ASSUME NEW call \in AllCalls, NEW p, NEW n, p \in {"redis", "line"},
           Whole(p, call), Arrives(p, call), call.cmd = ECHO, call.args # <<>>
    PROVE  Replied(p, n, call)
<1> DEFINE args == call.args
           m == Map(Fprint, args)
           k == Len(args)
           j == Join(m)
<1>0. p # "interface"
  OBVIOUS
<1>1. /\ k \in Nat /\ k <= 2 /\ DOMAIN args = 1..k /\ m \in Seq(Text)
      /\ Len(m) = k /\ \A i \in 1..k : m[i] = Fprint(args[i])
      /\ m # <<>>
  <2>1. args \in Seq(AllValues) /\ k \in Nat /\ k <= 2 /\ DOMAIN args = 1..k
    BY ArgsAre
  <2>2. m \in Seq(Text)
    BY DataIs
  <2>3. m = [i \in 1..k |-> Fprint(args[i])]
    BY <2>1 DEF Map
  <2>4. Len(m) = k
    BY <2>1, <2>3
  <2>5. k # 0
    BY <2>1
  <2>6. m # <<>>
    <3> HIDE DEF m
    <3> QED
      BY <2>2, <2>4, <2>5
  <2> QED
    BY <2>1, <2>2, <2>3, <2>4, <2>6
<1>2. \A i \in 1..Len(m) : ~HasCRLF(m[i])
  <2> SUFFICES ASSUME NEW i \in 1..Len(m) PROVE ~HasCRLF(m[i])
    OBVIOUS
  <2>1. i \in 1..k /\ m[i] = Fprint(args[i])
    BY <1>1
  <2>2. Fprint(args[i]) \in TextsOf(p, call)
    BY <1>0, <2>1, TextsAre
  <2>3. ~Breaks(p, m[i]) /\ m[i] \in Text
    <3>1. ~Breaks(p, Fprint(args[i]))
      BY <2>2 DEF Whole
    <3> HIDE DEF m, k, args
    <3>2. m[i] \in Text
      BY <1>1
    <3> QED
      BY <2>1, <3>1, <3>2
  <2> HIDE DEF m
  <2>4. CASE p = "line"
    BY <2>3, <2>4, OneLine DEF Breaks
  <2>5. CASE p = "redis"
    BY <2>3, <2>5 DEF Breaks
  <2> QED
    BY <2>4, <2>5
<1>3. Tail(Request(p, call).items) = [i \in 1..Len(m) |-> Bytes(m[i])]
  <2>1. Tail(Request(p, call).items) = [i \in 1..k |-> Received(p, args[i])]
    BY RequestItems
  <2>2. \A i \in 1..k : Received(p, args[i]) = Bytes(m[i])
    BY <1>0, <1>1 DEF Received
  <2> QED
    BY <1>1, <2>1, <2>2
<1>4. ReplyTo(p, n, call) = Echo(p, Tail(Request(p, call).items))
  BY HandleIs DEF ReplyTo
<1>5. EchoAnswer(p, args) = StringOrFailed(j)
  BY <1>0 DEF EchoAnswer
<1> HIDE DEF m
<1>6. Echo(p, [i \in 1..Len(m) |-> Bytes(m[i])]) = WriteString(j)
  BY <1>0, <1>1, EchoLine
<1>7. j \in Text /\ ~HasCRLF(j)
  BY <1>1, <1>2, JoinWhole
<1> HIDE DEF j
<1>8. ReplyTo(p, n, call) = WriteString(j)
  BY <1>3, <1>4, <1>6
<1>9. Answer(p, n, call) = IF Readable(j) THEN String(j) ELSE Failed
  BY <1>5, AnswerIs DEF StringOrFailed
<1>10. /\ WriteString(j) \in Text
       /\ Readable(j) => ReadInterface(WriteString(j)) = Ok(String(j), <<>>)
       /\ ~Readable(j) => ReadInterface(WriteString(j)) = Err
  BY <1>7, StringReply
<1> QED
  BY <1>8, <1>9, <1>10 DEF Replied


\* An argument that has been received can be sent back.
LEMMA ReceivedIs ==
    ASSUME NEW v, Sendable(v), CanReceive(v)
    PROVE  /\ Sendable(Received("interface", v))
           /\ CanReceive(Received("interface", v))
           /\ Received("interface", Received("interface", v)) =
                Received("interface", v)
<1> DEFINE p == "interface"
<1>1. CASE v.type # "other"
  <2>1. Received(p, v) = v
    BY <1>1 DEF Received
  <2> QED
    BY <2>1
<1>2. CASE v.type = "other"
  <2> DEFINE b == Bytes(v.text)
  <2>1. Received(p, v) = b
    BY <1>2 DEF Received
  <2>2. b.type = "bytes" /\ b.text = v.text
    BY DEF Bytes
  <2>3. v.text \in Text
    BY <1>2 DEF Sendable, Scalar, Null
  <2>4. Len(v.text) <= MaxLength
    BY <1>2 DEF Sendable, Fits
  <2>5. b \in Scalar
    BY <2>3 DEF Bytes, Scalar
  <2> HIDE DEF b
  <2>6. Received(p, b) = b
    BY <2>2 DEF Received
  <2>7. CanReceive(b)
    BY <2>2 DEF CanReceive
  <2>8. Fits(b)
    BY <2>2, <2>4 DEF Fits
  <2>9. Sendable(b)
    BY <2>2, <2>5, <2>8 DEF Sendable
  <2> QED
    BY <2>1, <2>6, <2>7, <2>9
<1> QED
  BY <1>1, <1>2

\* ECHO of the interface protocol.
LEMMA EchoInterface ==
    ASSUME NEW call \in AllCalls, NEW n, Whole("interface", call),
           Arrives("interface", call), call.cmd = ECHO, call.args # <<>>
    PROVE  Replied("interface", n, call)
<1> DEFINE p == "interface"
           args == call.args
           k == Len(args)
           A == [i \in 1..k |-> Received(p, args[i])]
<1>1. args \in Seq(AllValues) /\ k \in Nat /\ k <= 2 /\ DOMAIN args = 1..k /\ k # 0
  BY ArgsAre
<1>2. \A i \in 1..k : Sendable(args[i]) /\ CanReceive(args[i])
  <2>1. \A i \in 1..k : Sendable(args[i])
    BY InterfaceRequest
  <2>2. \A v \in ToSet(args) : CanReceive(v)
    BY DEF Arrives
  <2>3. \A i \in 1..k : args[i] \in ToSet(args)
    BY <1>1 DEF ToSet
  <2> QED
    BY <2>1, <2>2, <2>3
<1>3. ReplyTo(p, n, call) = Echo(p, A)
  <2>1. Tail(Request(p, call).items) = A
    BY RequestItems
  <2> HIDE DEF A
  <2>2. HandleData(p, n, ECHO, A) = Echo(p, A)
    BY HandleIs
  <2>3. ReplyTo(p, n, call) = HandleData(p, n, ECHO, A)
    BY <2>1 DEF ReplyTo
  <2> QED
    BY <2>2, <2>3
<1>4. A # <<>> /\ Len(A) = k /\ DOMAIN A = 1..k
  <2>1. Len(A) = k /\ DOMAIN A = 1..k
    BY <1>1
  <2>2. Len(<<>>) = 0
    OBVIOUS
  <2> HIDE DEF A, k
  <2> QED
    BY <1>1, <2>1, <2>2
<1>5. Answer(p, n, call) = EchoAnswer(p, args)
  BY AnswerIs
<1>6. CASE k = 1
  <2> DEFINE r == Received(p, args[1])
  <2>1. Echo(p, A) = WriteInterface(A[1])
    BY <1>4, <1>6 DEF Echo
  <2>2. A[1] = r
    BY <1>6
  <2>3. EchoAnswer(p, args) = r
    BY <1>6 DEF EchoAnswer
  <2>4. Sendable(args[1]) /\ CanReceive(args[1])
    BY <1>2, <1>6
  <2>5. Sendable(r) /\ CanReceive(r) /\ Received(p, r) = r
    BY <2>4, ReceivedIs
  <2> HIDE DEF r, A
  <2>6. ReadInterface(WriteInterface(r)) = Ok(r, <<>>)
    BY <2>5, ScalarReply
  <2>7. WriteInterface(r) \in Text
    <3> DEFINE e == <<>>
    <3>1. e \in Text
      BY DEF Text
    <3>2. r \in Scalar /\ Fits(r)
      BY <2>5 DEF Sendable
    <3> HIDE DEF e
    <3> QED
      BY <3>1, <3>2, ScalarIs
  <2> QED
    BY <1>3, <1>5, <2>1, <2>2, <2>3, <2>6, <2>7 DEF Replied
<1>7. CASE k = 2
  <2> DEFINE S == {v \in Scalar : Sendable(v)}
             R == [i \in 1..k |-> Received(p, args[i])]
             V == Array(R)
  <2>1. Echo(p, A) = WriteArray(A)
    BY <1>4, <1>7 DEF Echo
  <2>2. EchoAnswer(p, args) = V
    BY <1>1, <1>7 DEF EchoAnswer, Map
  <2>3. \A i \in 1..k : /\ A[i] \in S /\ CanReceive(A[i])
                        /\ Received(p, A[i]) = Received(p, args[i])
    <3> SUFFICES ASSUME NEW i \in 1..k
                 PROVE  /\ A[i] \in S /\ CanReceive(A[i])
                        /\ Received(p, A[i]) = Received(p, args[i])
      OBVIOUS
    <3>1. Sendable(args[i]) /\ CanReceive(args[i])
      BY <1>2
    <3> DEFINE r == Received(p, args[i])
    <3>2. A[i] = r
      OBVIOUS
    <3>3. Sendable(r) /\ CanReceive(r) /\ Received(p, r) = r
      BY <3>1, ReceivedIs
    <3> HIDE DEF A
    <3> QED
      BY <3>2, <3>3 DEF Sendable
  <2>4. A \in Seq(S)
    <3>1. A = [i \in 1..k |-> A[i]]
      OBVIOUS
    <3> HIDE DEF A, S, k
    <3> QED
      BY <1>1, <2>3, <3>1
  <2>5. Len(A) <= MaxLength
    <3>1. MaxLength \in Nat /\ 3 <= MaxLength
      BY SizeIs, ConversationAssumption
    <3> HIDE DEF A, k
    <3> QED
      BY <1>4, <1>7, <3>1
  <2> DEFINE X == [i \in 1..Len(A) |-> Received(p, A[i])]
  <2>6. X = R
    <3> HIDE DEF A
    <3> QED
      BY <1>4, <2>3
  <2> HIDE DEF A
  <2>7. /\ WriteArray(A) \in Text
        /\ ReadInterface(WriteArray(A) \o <<>>) = Ok(Array(X), <<>>)
    <3> DEFINE e == <<>>
    <3>1. e \in Text
      BY DEF Text
    <3> HIDE DEF e
    <3>2. /\ WriteArray(A) \in Text
          /\ ReadInterface(WriteArray(A) \o e) =
               IF \A i \in 1..Len(A) : CanReceive(A[i]) THEN Ok(Array(X), e) ELSE Err
      BY <2>4, <2>5, <3>1, ArrayRoundTrip
    <3>3. \A i \in 1..Len(A) : CanReceive(A[i])
      BY <1>4, <2>3
    <3> HIDE DEF X
    <3> QED
      BY <3>2, <3>3 DEF e
  <2>8. WriteArray(A) \o <<>> = WriteArray(A)
    BY <2>7 DEF Text
  <2> HIDE DEF R, X
  <2> QED
    BY <1>3, <1>5, <2>1, <2>2, <2>6, <2>7, <2>8, Zenon DEF Replied
<1>8. k = 1 \/ k = 2
  <2> HIDE DEF k
  <2> QED
    BY <1>1
<1> QED
  BY <1>6, <1>7, <1>8

\* The client reads one reply and nothing is left of it, or fails exactly
\* where the format cannot carry the answer; there is no reply to COUNT, nor
\* to QUIT of the line protocol.
THEOREM ReplyRoundTrip ==
    ASSUME NEW p \in Protocols, NEW call \in AllCalls, NEW n \in 0..MaxKeys,
           Whole(p, call), Arrives(p, call)
    PROVE  Replied(p, n, call)
<1> DEFINE cmd == call.cmd
           A == Tail(Request(p, call).items)
           reply == ReplyTo(p, n, call)
           answer == Answer(p, n, call)
<1>0. p \in {"redis", "line", "interface"}
  BY ConversationAssumption
<1>1. reply = HandleData(p, n, cmd, A)
  BY DEF ReplyTo
<1> HIDE DEF A
<1>2. /\ "PONG" # LF /\ "OK" # LF /\ "arguments" # LF /\ "not found" # LF
  BY DEF LF
<1>3. CASE cmd = PING
  <2> DEFINE c == "PONG"
  <2>1. reply = WriteString(<<c>>)
        /\ answer = String(<<c>>)
    <3>1. HandleData(p, n, PING, A) = WriteString(<<c>>)
      BY HandleIs
    <3>2. answer = String(<<c>>)
      BY <1>3, AnswerIs
    <3>3. reply = HandleData(p, n, PING, A)
      BY <1>1, <1>3
    <3> HIDE DEF reply, answer
    <3> QED
      BY <3>1, <3>2, <3>3
  <2>2. c \in Symbols /\ c # LF
    BY <1>2, WordIs
  <2> HIDE DEF c
  <2>3. <<c>> \in Text /\ ReadInterface(WriteString(<<c>>)) = Ok(String(<<c>>), <<>>)
    BY <2>2, WordReply
  <2>4. WriteString(<<c>>) \in Text
    BY <2>3, StringReply
  <2> QED
    BY <2>1, <2>3, <2>4 DEF Replied
<1>4. CASE cmd \in {INFO, CMDS}
  <2> DEFINE j == WriteJson(<<"{", "}">>)
  <2>1. reply = j /\ answer = Json
    <3>1. answer = Json
      BY <1>4, AnswerIs
    <3>2. reply = j
      BY <1>1, <1>4, HandleJson
    <3> QED
      BY <3>1, <3>2
  <2>2. j \in Text /\ ReadInterface(j) = Ok(Json, <<>>)
    BY JsonReply
  <2> HIDE DEF j
  <2> QED
    BY <2>1, <2>2 DEF Replied
<1>5. CASE cmd = ECHO
  <2>1. CASE call.args = <<>>
    BY <1>5, <2>1, EchoNothing
  <2>2. CASE call.args # <<>> /\ p = "interface"
    BY <1>5, <2>2, EchoInterface
  <2>3. CASE call.args # <<>> /\ p # "interface"
    <3>1. p \in {"redis", "line"}
      BY <1>0, <2>3
    <3> QED
      BY <1>5, <2>3, <3>1, EchoText
  <2> QED
    BY <2>1, <2>2, <2>3
<1>6. CASE cmd = KEYS
  <2> DEFINE a == Array([i \in 1..n |-> String(<<"key">>)])
  <2>1. reply = Keys(n)
        /\ answer = (IF n > 1 THEN Failed ELSE a)
    <3>1. HandleData(p, n, KEYS, A) = Keys(n)
      BY HandleIs
    <3>2. answer = IF n > 1 THEN Failed ELSE a
      BY <1>6, AnswerIs
    <3>3. reply = HandleData(p, n, KEYS, A)
      BY <1>1, <1>6
    <3> HIDE DEF reply, answer
    <3> QED
      BY <3>1, <3>2, <3>3
  <2>2. /\ Keys(n) \in Text
        /\ ReadInterface(Keys(n)) = IF n > 1 THEN Err ELSE Ok(a, <<>>)
    BY KeysReply
  <2> HIDE DEF a
  <2> QED
    BY <2>1, <2>2 DEF Replied
<1>7. CASE cmd = COUNT
  <2> DEFINE c == "arguments"
             a == Error(<<"ERR ", c>>)
             w == WriteError(<<c>>)
  <2>1. reply = Count(p, A)
        /\ answer = a
    <3>1. HandleData(p, n, COUNT, A) = Count(p, A)
      BY HandleIs
    <3>2. answer = a
      BY <1>7, AnswerIs
    <3>3. reply = HandleData(p, n, COUNT, A)
      BY <1>1, <1>7
    <3> HIDE DEF reply, answer
    <3> QED
      BY <3>1, <3>2, <3>3
  <2>2. Count(p, A) = <<>> \/ Count(p, A) = w
    BY DEF Count
  <2>3. c \in Symbols /\ c # LF
    BY <1>2, WordIs
  <2> HIDE DEF c
  <2>4. w \in Text /\ ReadInterface(w) = Ok(a, <<>>)
    BY <2>3, ErrorReply
  <2>5. <<>> \in Text /\ COUNT # QUIT
    BY CommandsDiffer DEF Text
  <2> HIDE DEF w, a
  <2> QED
    BY <1>7, <2>1, <2>2, <2>4, <2>5 DEF Replied
<1>8. CASE cmd = QUIT
  <2> DEFINE c == "OK"
             s == <<c>>
  <2>1. reply = (IF p = "line" THEN <<>> ELSE WriteString(s))
        /\ answer = (IF p = "line" THEN Failed ELSE String(s))
    <3>1. HandleData(p, n, QUIT, A) = (IF p = "line" THEN <<>> ELSE WriteString(s))
      BY HandleIs
    <3>2. answer = (IF p = "line" THEN Failed ELSE String(s))
      BY <1>8, AnswerIs
    <3>3. reply = HandleData(p, n, QUIT, A)
      BY <1>1, <1>8
    <3> HIDE DEF reply, answer
    <3> QED
      BY <3>1, <3>2, <3>3
  <2>2. c \in Symbols /\ c # LF
    BY <1>2, WordIs
  <2> HIDE DEF c
  <2>3. s \in Text /\ ReadInterface(WriteString(s)) = Ok(String(s), <<>>)
    BY <2>2, WordReply
  <2> HIDE DEF s
  <2>4. WriteString(s) \in Text
    BY <2>3, StringReply
  <2>5. <<>> \in Text
    BY DEF Text
  <2> QED
    BY <1>8, <2>1, <2>3, <2>4, <2>5 DEF Replied
<1>9. CASE cmd = NOPE
  <2> DEFINE c == "not found"
             a == Error(<<"ERR ", c>>)
             w == WriteError(<<c>>)
  <2>1. reply = w
        /\ answer = a
    <3>1. HandleData(p, n, NOPE, A) = w
      BY HandleNope
    <3>2. answer = a
      BY <1>9, AnswerIs
    <3>3. reply = HandleData(p, n, NOPE, A)
      BY <1>1, <1>9
    <3> HIDE DEF reply, answer
    <3> QED
      BY <3>1, <3>2, <3>3
  <2>2. c \in Symbols /\ c # LF
    BY <1>2, WordIs
  <2> HIDE DEF c
  <2>3. w \in Text /\ ReadInterface(w) = Ok(a, <<>>)
    BY <2>2, ErrorReply
  <2> HIDE DEF w, a
  <2> QED
    BY <2>1, <2>3 DEF Replied
<1>10. cmd \in Commands \cup {NOPE}
  BY CallIs
<1> QED
  BY <1>3, <1>4, <1>5, <1>6, <1>7, <1>8, <1>9, <1>10 DEF Commands


-----------------------------------------------------------------------------
(* The conversation: types                                                 *)

\* TypeOK, with the connections that are not in use and what the wires and
\* the histories are.
Typed ==
    /\ TypeOK
    /\ used <= calls + 1 /\ (at = "start" => used = 0 /\ conn = 0)
    /\ conn \notin hung
    /\ DOMAIN req = Connections /\ DOMAIN rep = Connections
    /\ DOMAIN texts = Connections
    /\ sent \in [Connections -> Seq(AllCalls)]

\* The bounds.
LEMMA BoundsAre == MaxCalls \in Nat /\ MaxKeys \in Nat
  BY ConversationAssumption

\* The types hold at the start.
LEMMA TypedInit == Init => Typed
<1> SUFFICES ASSUME Init PROVE Typed
  OBVIOUS
<1>1. TypeOK
  <2>1. at \in {"start", "prompt", "await"} /\ at # "await"
    BY DEF Init
  <2>2. session \in [Connections -> {"run", "over"}]
    BY DEF Init
  <2> QED
    BY <2>1, <2>2, BoundsAre DEF Init, TypeOK
<1>2. \A S : <<>> \in Seq(S)
  OBVIOUS
<1>3. sent \in [Connections -> Seq(AllCalls)]
  BY <1>2 DEF Init
<1>4. /\ DOMAIN req = Connections /\ DOMAIN rep = Connections
      /\ DOMAIN texts = Connections
  BY DEF Init
<1>5. /\ used <= calls + 1 /\ (at = "start" => used = 0 /\ conn = 0)
      /\ conn \notin hung
  BY DEF Init
<1> QED
  BY <1>1, <1>3, <1>4, <1>5 DEF Typed

\* The calls that the caller makes.
LEMMA AskedIs ==
    ASSUME cli \in BOOLEAN, NEW call \in Calls(Arguments)
    PROVE  call \in AllCalls
<1>1. CASE cli = TRUE
  BY <1>1 DEF Arguments, AllCalls
<1>2. CASE cli = FALSE
  BY <1>2 DEF Arguments, AllCalls
<1> QED
  BY <1>1, <1>2

\* The connection of a call.
Target == IF conn = 0 THEN used + 1 ELSE conn

\* A connection more for a call more, or for the first one.
LEMMA Fresh ==
    ASSUME NEW u \in Nat, NEW v \in Nat, NEW c \in Nat, NEW d \in Nat,
           u <= c + 1, v <= u + 1, c <= d, u = 0 \/ d = c + 1,
           NEW n \in Nat, d <= n
    PROVE  v <= d + 1 /\ v \in 0..n + 1
  OBVIOUS

\* A call is written.
LEMMA TypedWrite ==
    ASSUME Typed, NEW call \in AllCalls, NEW async \in BOOLEAN, Write(call, async),
           calls' \in 0..MaxCalls, calls <= calls', at = "prompt" => calls' = calls + 1,
           at \in {"start", "prompt"},
           at' = (IF async THEN "prompt" ELSE "await"),
           at = "start" => ~async,
           protocol' = protocol, cli' = cli, known' = known, keys' \in 0..MaxKeys,
           rep' = rep, session' = session, hung' = hung, misread' = misread
    PROVE  Typed' /\ Target \in Connections /\ Target \in 1..used' /\ Target \notin hung
<1> DEFINE k == Target
<1>1. /\ used \in Nat /\ conn \in 0..used /\ used <= calls + 1 /\ calls \in Nat
      /\ MaxCalls \in Nat /\ hung \subseteq 1..used /\ misread \subseteq 1..used
  BY BoundsAre DEF Typed, TypeOK
<1>2. /\ used' = IF conn = 0 THEN used + 1 ELSE used
      /\ conn' = IF async THEN 0 ELSE k
  BY DEF Write, Pooled, Target
<1>3. at = "start" => used = 0 /\ conn = 0
  BY DEF Typed
<1>4. used' \in 0..MaxCalls + 1 /\ used' <= calls' + 1 /\ used <= used'
  <2>1. used' \in Nat /\ used <= used' /\ used' <= used + 1
    BY <1>1, <1>2
  <2>2. calls' \in Nat /\ calls' <= MaxCalls
    BY <1>1
  <2>3. used' <= calls' + 1 /\ used' \in 0..MaxCalls + 1
    BY <1>1, <1>3, <2>1, <2>2, Fresh
  <2> QED
    BY <2>1, <2>3
<1>5. k \in 1..used' /\ k # 0 /\ k \notin hung
  <2>1. CASE conn = 0
    BY <1>1, <1>2, <2>1 DEF Target
  <2>2. CASE conn # 0
    BY <1>1, <1>2, <2>2 DEF Target, Typed
  <2> QED
    BY <2>1, <2>2
<1>6. k \in Connections
  BY <1>1, <1>4, <1>5 DEF Connections
<1>7. conn' \in 0..used' /\ conn' \notin hung' /\ (at' = "await" => conn' # 0)
  <2>1. 0 \notin hung
    BY <1>1
  <2> HIDE DEF k
  <2> QED
    BY <1>1, <1>2, <1>4, <1>5, <2>1
<1>8. hung' \subseteq 1..used' /\ misread' \subseteq 1..used'
  BY <1>1, <1>4
<1>9. session' \in [Connections -> {"run", "over"}] /\ at' \in {"start", "prompt", "await"}
      /\ at' # "start"
  BY DEF Typed, TypeOK
<1>10. protocol' \in Protocols /\ cli' \in BOOLEAN /\ known' \in BOOLEAN
  BY DEF Typed, TypeOK
<1>11. TypeOK'
  BY <1>4, <1>7, <1>8, <1>9, <1>10 DEF TypeOK
<1>12. /\ DOMAIN req' = Connections /\ DOMAIN rep' = Connections
       /\ DOMAIN texts' = Connections
  BY DEF Write, Typed
<1>13. sent' \in [Connections -> Seq(AllCalls)]
  <2>1. sent' = [sent EXCEPT ![k] = Append(sent[k], call)]
    BY DEF Write, Target
  <2>2. sent[k] \in Seq(AllCalls)
    BY <1>6 DEF Typed
  <2>3. Append(sent[k], call) \in Seq(AllCalls)
    BY <2>2
  <2> HIDE DEF k
  <2> QED
    BY <2>1, <2>3 DEF Typed
<1> QED
  BY <1>4, <1>5, <1>6, <1>7, <1>9, <1>11, <1>12, <1>13 DEF Typed

\* Every step keeps the types.
LEMMA TypedStep == Typed /\ [Next]_vars => Typed'
<1> SUFFICES ASSUME Typed, [Next]_vars PROVE Typed'
  OBVIOUS
<1>0. /\ used \in Nat /\ conn \in 0..used /\ used <= calls + 1
      /\ calls \in 0..MaxCalls /\ used <= MaxCalls + 1
      /\ MaxCalls \in Nat /\ hung \subseteq 1..used /\ misread \subseteq 1..used
      /\ cli \in BOOLEAN /\ keys \in 0..MaxKeys
  BY BoundsAre DEF Typed, TypeOK
<1>1. CASE Start
  <2>1. CASE Write(Call(CMDS, <<>>), FALSE) /\ at' = "await"
    <3> DEFINE call == Call(CMDS, <<>>)
    <3>1. call \in AllCalls
      BY DEF AllCalls
    <3>2. at = "start"
      BY <1>1 DEF Start
    <3>3. /\ protocol' = protocol /\ cli' = cli /\ known' = known /\ keys' = keys
          /\ rep' = rep /\ session' = session /\ hung' = hung /\ misread' = misread
          /\ calls' = calls
      BY <1>1 DEF Start
    <3> HIDE DEF call
    <3>4. calls' \in 0..MaxCalls /\ calls <= calls' /\ keys' \in 0..MaxKeys
      BY <1>0, <3>3
    <3>5. Write(call, FALSE)
      BY <2>1 DEF call
    <3> QED
      BY <2>1, <3>1, <3>2, <3>3, <3>4, <3>5, TypedWrite
  <2>2. CASE at' = "prompt" /\ UNCHANGED <<used, conn, req, asked, result, sent, texts>>
    BY <1>1, <2>2 DEF Start, Typed, TypeOK
  <2> QED
    BY <1>1, <2>1, <2>2 DEF Start
<1>2. CASE ReadReply
  <2>1. known' \in BOOLEAN
    BY <1>2 DEF ReadReply
  <2>2. DOMAIN rep' = Connections
    BY <1>2 DEF ReadReply, Typed
  <2> QED
    BY <1>2, <2>1, <2>2 DEF ReadReply, histVars, Typed, TypeOK
<1>3. CASE ReadFails
  <2>1. conn # 0 /\ conn' = 0 /\ hung' = hung \cup {conn} /\ at' = "prompt"
    BY <1>3 DEF ReadFails, Typed, TypeOK
  <2>2. hung' \subseteq 1..used /\ conn' \notin hung' /\ conn' \in 0..used
    BY <1>0, <2>1
  <2> QED
    BY <1>3, <2>1, <2>2 DEF ReadFails, histVars, Typed, TypeOK
<1>4. ASSUME NEW call \in Calls(Arguments), Ask(call)
      PROVE  Typed'
  <2> DEFINE async == IsCmdAsync(call.cmd)
  <2>1. call \in AllCalls
    BY <1>0, AskedIs
  <2>2. async \in BOOLEAN
    BY DEF IsCmdAsync, Typed, TypeOK
  <2>3. /\ Write(call, async) /\ at = "prompt" /\ calls' = calls + 1
        /\ calls < MaxCalls
        /\ at' = (IF async THEN "prompt" ELSE "await")
        /\ protocol' = protocol /\ cli' = cli /\ known' = known
        /\ rep' = rep /\ session' = session /\ hung' = hung /\ misread' = misread
    BY <1>4 DEF Ask
  <2>4. keys' \in 0..MaxKeys
    BY <1>0, <1>4 DEF Ask
  <2>5. calls' \in 0..MaxCalls /\ calls <= calls'
    BY <1>0, <2>3
  <2> HIDE DEF async
  <2> QED
    BY <2>1, <2>2, <2>3, <2>4, <2>5, TypedWrite
<1>5. ASSUME NEW call \in Calls(Arguments), WriteFails(call)
      PROVE  Typed'
  <2>1. /\ conn # 0 /\ conn' = 0 /\ hung' = hung \cup {conn} /\ at = "prompt"
        /\ calls' = calls + 1 /\ calls < MaxCalls
    BY <1>5 DEF WriteFails
  <2>2. hung' \subseteq 1..used /\ conn' \notin hung' /\ conn' \in 0..used
    BY <1>0, <2>1
  <2>3. calls' \in 0..MaxCalls /\ used <= calls' + 1
    BY <1>0, <2>1
  <2> QED
    BY <1>5, <2>1, <2>2, <2>3 DEF WriteFails, histVars, Typed, TypeOK
<1>6. ASSUME NEW k \in Connections, Serve(k)
      PROVE  Typed'
  <2>1. k \in 1..used
    BY <1>0, <1>6 DEF Serve, Connections
  <2>2. misread' = misread \/ misread' = misread \cup {k}
    BY <1>6 DEF Serve
  <2>3. misread' \subseteq 1..used
    BY <1>0, <2>1, <2>2
  <2>4. session' \in [Connections -> {"run", "over"}]
    <3>1. PICK x : session' = [session EXCEPT ![k] = x] /\ (x = "over" \/ x = session[k])
      BY <1>6 DEF Serve
    <3>2. session \in [Connections -> {"run", "over"}]
      BY DEF Typed, TypeOK
    <3> QED
      BY <3>1, <3>2
  <2>5. sent' \in [Connections -> Seq(AllCalls)]
    <3> DEFINE s == sent[k]
               z == IF s = <<>> THEN s ELSE Tail(s)
    <3>1. sent' = [sent EXCEPT ![k] = z]
      BY <1>6 DEF Serve
    <3>2. s \in Seq(AllCalls)
      BY DEF Typed
    <3>3. z \in Seq(AllCalls)
      <4> HIDE DEF s
      <4> QED
        BY <3>2
    <3> HIDE DEF z
    <3> QED
      BY <3>1, <3>3 DEF Typed
  <2>6. DOMAIN req' = Connections /\ DOMAIN rep' = Connections
    BY <1>6 DEF Serve, Typed
  <2>7. UNCHANGED <<protocol, cli, keys, known, at, calls, conn, used, hung,
                    asked, result, texts>>
    BY <1>6 DEF Serve
  <2> QED
    BY <2>3, <2>4, <2>5, <2>6, <2>7 DEF Typed, TypeOK
<1>7. ASSUME NEW k \in Connections, SessionEnds(k)
      PROVE  Typed'
  <2>1. session' \in [Connections -> {"run", "over"}]
    BY <1>7 DEF SessionEnds, Typed, TypeOK
  <2>2. UNCHANGED <<protocol, cli, keys, known, at, calls, conn, used, req, rep,
                    hung, asked, result, histVars>>
    BY <1>7 DEF SessionEnds
  <2> QED
    BY <2>1, <2>2 DEF Typed, TypeOK, histVars
<1>8. CASE UNCHANGED vars
  BY <1>8 DEF vars, netVars, histVars, Typed, TypeOK
<1> QED
  BY <1>1, <1>2, <1>3, <1>4, <1>5, <1>6, <1>7, <1>8 DEF Next

\* TypeOK holds throughout, whatever the buffer's size and the arguments.
THEOREM TypeCorrect == Spec => []TypeOK
<1>1. Typed => TypeOK
  BY DEF Typed
<1> QED
  BY <1>1, TypedInit, TypedStep, PTL DEF Spec


-----------------------------------------------------------------------------
(* The conversation: one message at a time                                 *)

\* A connection that has not been used; one with nothing for the server to
\* read, and one with one request.
Clean(k) == /\ req[k] = <<>> /\ rep[k] = <<>> /\ sent[k] = <<>>
            /\ session[k] = "run" /\ texts[k] = {}
Idle(k)  == req[k] = <<>> /\ sent[k] = <<>>
Held(k, call) == /\ sent[k] = <<call>> /\ req[k] = Wire(protocol, call)
                 /\ TextsOf(protocol, call) \subseteq texts[k]

\* The call that the caller made last.
Asks == /\ asked.on \in 1..used /\ asked.call \in AllCalls
        /\ asked.late \in BOOLEAN
        /\ asked.late \/ TextsOf(protocol, asked.call) \subseteq texts[asked.on]

\* It is on its way to the server, has been answered, or cannot be read.
Waiting == /\ session[conn] = "run" /\ Held(conn, asked.call)
           /\ rep[conn] = <<>>
Served  == /\ Idle(conn) /\ rep[conn] = ReplyTo(protocol, keys, asked.call)
           /\ Arrives(protocol, asked.call)
           /\ (session[conn] = "over") <=> (asked.call.cmd = QUIT)
Unread  == /\ session[conn] = "over" /\ rep[conn] = <<>>
           /\ ~Arrives(protocol, asked.call)
Late    == session[conn] = "over" /\ rep[conn] = <<>>

\* The requests of some calls, one after the other.
Wires(s) == [i \in DOMAIN s |-> Wire("redis", s[i])]

\* The inductive invariant, part by part: the last call is known; new
\* connections are clean; a session has at most one request to read; the
\* caller waits for the answer to the one it sent; between calls the pooled
\* connection is idle; redis reads all that was sent, in order.
Asking  == /\ at = "await" \/ result # Nothing => Asks
           /\ at = "await" => asked.on = conn
Unused  == \A k \in Connections : k > used => Clean(k)
Queued  == \A k \in Connections : Unbroken(k) /\ session[k] = "run" =>
             Idle(k) \/ \E call \in AllCalls : Held(k, call)
Stage   == at = "await" /\ Unbroken(conn) =>
             IF asked.late THEN Late ELSE Waiting \/ Served \/ Unread
Between == at = "prompt" /\ conn # 0 /\ Unbroken(conn) =>
             rep[conn] = <<>> /\ (session[conn] = "run" => Idle(conn))
InOrder == protocol = "redis" =>
             /\ misread = {}
             /\ \A k \in Connections : session[k] = "run" =>
                  req[k] = FlattenSeq(Wires(sent[k]))

Conv == /\ Typed /\ Asking /\ Unused /\ Queued /\ Stage /\ Between
        /\ InOrder /\ Answered /\ ReadAsSent

\* The invariant holds at the start.
LEMMA ConvInit == Init => Conv
<1> SUFFICES ASSUME Init PROVE Conv
  OBVIOUS
<1>1. Typed
  BY TypedInit
<1>2. /\ at # "await" /\ result = Nothing /\ conn = 0 /\ misread = {}
      /\ \A k \in Connections : Clean(k)
  BY DEF Init, Clean
<1>3. Asking /\ Unused /\ Stage /\ Between /\ Answered /\ ReadAsSent
  BY <1>2 DEF Asking, Unused, Stage, Between, Answered, ReadAsSent
<1>4. Queued
  BY <1>2 DEF Queued, Clean, Idle
<1>5. InOrder
  <2>1. <<>> \in Seq(Text) /\ Wires(<<>>) = <<>>
    BY DEF Wires
  <2>2. FlattenSeq(<<>>) = <<>>
    BY <2>1, FlattenType
  <2> QED
    BY <1>2, <2>1, <2>2 DEF InOrder, Clean
<1> QED
  BY <1>1, <1>3, <1>4, <1>5 DEF Conv

\* A call none of whose texts breaks its line.
LEMMA WholeIs ==
    ASSUME NEW k, Unbroken(k), NEW call, TextsOf(protocol, call) \subseteq texts[k]
    PROVE  Whole(protocol, call)
  BY DEF Unbroken, Whole

\* More texts do not mend a connection.
LEMMA StillBroken ==
    ASSUME NEW k, texts[k] \subseteq texts'[k], protocol' = protocol
    PROVE  Unbroken(k)' => Unbroken(k)
  BY DEF Unbroken

\* Nothing to read.
LEMMA NothingToRead ==
    ASSUME NEW p \in Protocols
    PROVE  ReadRequest(p, <<>>) = More
<1>1. p \in {"redis", "line", "interface"}
  BY ConversationAssumption
<1>2. ReadBulkPayload(<<>>) = More /\ ReadBulk(<<>>) = More /\ ReadInterface(<<>>) = More
  BY EmptyIs
<1> QED
  BY <1>1, <1>2 DEF ReadRequest

\* How a reader ends.
LEMMA OutcomeIs ==
    /\ \A v, t : Ok(v, t).st = "ok" /\ Ok(v, t).val = v /\ Ok(v, t).rest = t
    /\ Err.st = "err" /\ More.st = "more"
  BY DEF Ok, Err, More

\* The server reads and answers the one request of an unbroken connection.
LEMMA ServedOne ==
    ASSUME Typed, Queued, NEW k \in Connections, Serve(k), Unbroken(k)
    PROVE  \E call \in AllCalls :
             /\ Held(k, call) /\ Arrives(protocol, call) /\ Whole(protocol, call)
             /\ req'[k] = <<>> /\ sent'[k] = <<>>
             /\ rep'[k] = rep[k] \o ReplyTo(protocol, keys, call)
             /\ session'[k] = IF call.cmd = QUIT THEN "over" ELSE "run"
             /\ k \in misread' => k \in misread \/ Spaced(protocol, call)
<1>1. /\ session[k] = "run" /\ protocol \in Protocols /\ k \in DOMAIN session
      /\ k \in DOMAIN req /\ k \in DOMAIN rep /\ k \in DOMAIN sent
  BY DEF Serve, Typed, TypeOK
<1> DEFINE r == ReadRequest(protocol, req[k])
           cmd == CmdOf(r.val.items)
           args == Tail(r.val.items)
<1>2. /\ r.st = "ok"
      /\ req'[k] = r.rest
      /\ rep'[k] = rep[k] \o Reply(protocol, keys, r.val)
      /\ session'[k] = IF Ends(protocol, r.val) THEN "over" ELSE session[k]
      /\ misread' = IF sent[k] # <<>> /\ r.val = Request(protocol, Head(sent[k]))
                      THEN misread ELSE misread \cup {k}
      /\ sent'[k] = IF sent[k] = <<>> THEN sent[k] ELSE Tail(sent[k])
  BY <1>1 DEF Serve
<1>3. ~Idle(k)
  <2>1. req[k] = <<>> => r = More
    BY <1>1, NothingToRead
  <2>2. More.st # "ok"
    BY OutcomeIs
  <2> HIDE DEF r
  <2> QED
    BY <1>2, <2>1, <2>2 DEF Idle
<1>4. PICK call \in AllCalls : Held(k, call)
  BY <1>1, <1>3 DEF Queued
<1>5. Whole(protocol, call)
  BY <1>4, WholeIs DEF Held
<1>6. r = ReadRequest(protocol, Wire(protocol, call)) /\ sent[k] = <<call>>
  BY <1>4 DEF Held
<1>7. /\ sent[k] # <<>> /\ Head(sent[k]) = call /\ Tail(sent[k]) = <<>>
  BY <1>6
<1> HIDE DEF r
<1>8. Arrives(protocol, call)
  <2>1. ~Arrives(protocol, call) => r = Err
    BY <1>1, <1>5, <1>6, RequestRoundTrip
  <2>2. Err.st # "ok"
    BY OutcomeIs
  <2> QED
    BY <1>2, <2>1, <2>2
<1>9. PICK v : r = Ok(v, <<>>) /\ Understood(protocol, call, v)
  BY <1>1, <1>5, <1>6, <1>8, RequestRoundTrip
<1>10. r.val = v /\ r.rest = <<>>
  BY <1>9, OutcomeIs
<1>11. /\ cmd = call.cmd
       /\ HandleData(protocol, keys, call.cmd, args) = ReplyTo(protocol, keys, call)
       /\ r.val = Request(protocol, call) \/ Spaced(protocol, call)
       /\ r.val.type = "array" /\ ~Panics(protocol, r.val.items)
  BY <1>9, <1>10 DEF Understood
<1>16. /\ Reply(protocol, keys, r.val) = HandleData(protocol, keys, cmd, args)
       /\ Ends(protocol, r.val) <=> cmd = QUIT
  BY <1>11 DEF Reply, Ends
<1> HIDE DEF cmd, args
<1>12. req'[k] = <<>> /\ sent'[k] = <<>>
  BY <1>2, <1>7, <1>10
<1>13. rep'[k] = rep[k] \o ReplyTo(protocol, keys, call)
  BY <1>2, <1>11, <1>16
<1>14. session'[k] = IF call.cmd = QUIT THEN "over" ELSE "run"
  BY <1>1, <1>2, <1>11, <1>16
<1>15. k \in misread' => k \in misread \/ Spaced(protocol, call)
  BY <1>2, <1>7, <1>11
<1> QED
  BY <1>4, <1>5, <1>8, <1>12, <1>13, <1>14, <1>15

\* Redis reads the next call that was sent, whatever it holds.
LEMMA ServedInOrder ==
    ASSUME Typed, NEW k \in Connections, Serve(k), protocol = "redis",
           req[k] = FlattenSeq(Wires(sent[k]))
    PROVE  req'[k] = FlattenSeq(Wires(sent'[k])) /\ misread' = misread
<1> DEFINE s == sent[k]
           r == ReadRequest("redis", req[k])
<1>1. /\ "redis" \in Protocols /\ s \in Seq(AllCalls)
      /\ k \in DOMAIN req /\ k \in DOMAIN sent
  BY DEF Typed, TypeOK
<1>2. /\ r.st = "ok" /\ req'[k] = r.rest
      /\ misread' = IF s # <<>> /\ r.val = Request("redis", Head(s))
                      THEN misread ELSE misread \cup {k}
      /\ sent'[k] = IF s = <<>> THEN s ELSE Tail(s)
  BY <1>1 DEF Serve
<1>3. s # <<>>
  <2>1. <<>> \in Seq(Text) /\ Wires(<<>>) = <<>>
    BY DEF Wires
  <2>2. FlattenSeq(<<>>) = <<>>
    BY <2>1, FlattenType
  <2>3. s = <<>> => r = More
    BY <1>1, <2>1, <2>2, NothingToRead
  <2>4. More.st # "ok"
    BY OutcomeIs
  <2> HIDE DEF r
  <2> QED
    BY <1>2, <2>3, <2>4
<1> HIDE DEF s
<1> DEFINE h == Head(s)
           t == Tail(s)
<1>4. h \in AllCalls /\ t \in Seq(AllCalls) /\ s = <<h>> \o t
  BY <1>1, <1>3
<1>5. Wires(t) \in Seq(Text) /\ Wire("redis", h) \in Text
  <2>1. \A call \in AllCalls : Wire("redis", call) \in Text
    <3>1. <<>> \in Text
      BY EmptyIs
    <3> QED
      BY <3>1, RedisRequest
  <2> HIDE DEF t, h
  <2>2. Len(t) \in Nat /\ DOMAIN t = 1..Len(t) /\ \A i \in 1..Len(t) : t[i] \in AllCalls
    BY <1>4
  <2>3. Wires(t) \in [1..Len(t) -> Text]
    BY <2>1, <2>2 DEF Wires
  <2>4. \A n \in Nat : \A f \in [1..n -> Text] : f \in Seq(Text)
    OBVIOUS
  <2>5. Wires(t) \in Seq(Text)
    BY <2>2, <2>3, <2>4
  <2>6. h \in AllCalls
    BY <1>4
  <2> QED
    BY <2>1, <2>5, <2>6
<1>6. Wires(s) = <<Wire("redis", h)>> \o Wires(t)
  <2> HIDE DEF h, t
  <2>1. /\ Len(t) \in Nat /\ DOMAIN t = 1..Len(t)
        /\ Len(s) = Len(t) + 1 /\ DOMAIN s = 1..Len(t) + 1
        /\ s[1] = h /\ \A i \in 2..Len(t) + 1 : s[i] = t[i - 1]
    BY <1>4
  <2> DEFINE w == Wire("redis", h)
             x == Wires(t)
             y == <<w>> \o x
             z == Wires(s)
  <2>2. /\ DOMAIN x = 1..Len(t) /\ DOMAIN z = 1..Len(t) + 1
        /\ z = [i \in DOMAIN z |-> z[i]]
        /\ z[1] = w /\ \A i \in 1..Len(t) : x[i] = Wire("redis", t[i])
        /\ \A i \in 2..Len(t) + 1 : z[i] = Wire("redis", t[i - 1])
    BY <2>1 DEF Wires
  <2> HIDE DEF w, x, z
  <2>3. Len(x) = Len(t)
    BY <1>5, <2>1, <2>2 DEF x
  <2>4. /\ y = [i \in DOMAIN y |-> y[i]] /\ DOMAIN y = 1..Len(t) + 1 /\ y[1] = w
        /\ \A i \in 2..Len(t) + 1 : y[i] = x[i - 1]
    BY <1>5, <2>1, <2>3 DEF w, x
  <2>5. \A i \in 2..Len(t) + 1 : y[i] = z[i]
    <3>1. \A i \in 2..Len(t) + 1 : i - 1 \in 1..Len(t)
      BY <2>1
    <3> QED
      BY <2>2, <2>4, <3>1
  <2>6. \A i \in 1..Len(t) + 1 : i = 1 \/ i \in 2..Len(t) + 1
    BY <2>1
  <2> HIDE DEF y
  <2>7. y = z
    BY <2>2, <2>4, <2>5, <2>6
  <2> QED
    BY <2>7 DEF y, z, w, x
<1>7. FlattenSeq(Wires(s)) = Wire("redis", h) \o FlattenSeq(Wires(t))
      /\ FlattenSeq(Wires(t)) \in Text
  BY <1>5, <1>6, FlattenCons, FlattenType
<1>8. r = Ok(Request("redis", h), FlattenSeq(Wires(t)))
  BY <1>4, <1>7, RedisRequest DEF s
<1>9. r.val = Request("redis", h) /\ r.rest = FlattenSeq(Wires(t))
  BY <1>8, OutcomeIs
<1> HIDE DEF r
<1> QED
  BY <1>2, <1>3, <1>9

\* The connection in use is one of the model's.
LEMMA InUse ==
    ASSUME Typed, conn # 0
    PROVE  conn \in Connections
<1>1. \A m, u \in Nat : \A c \in 0..u : u \in 0..m + 1 /\ c # 0 => c \in 1..m + 1
  OBVIOUS
<1>2. MaxCalls \in Nat /\ used \in Nat /\ used \in 0..MaxCalls + 1 /\ conn \in 0..used
  BY BoundsAre DEF Typed, TypeOK
<1> QED
  BY <1>1, <1>2 DEF Connections

\* A turn of a session.
LEMMA ConvServe ==
    ASSUME Conv, Typed', NEW k \in Connections, Serve(k)
    PROVE  Conv'
<1>1. /\ Typed /\ Asking /\ Unused /\ Queued /\ Stage /\ Between
      /\ InOrder /\ Answered /\ ReadAsSent
  BY DEF Conv
<1>2. UNCHANGED <<protocol, cli, keys, known, at, calls, conn, used, hung,
                  asked, result, texts>>
  BY DEF Serve
<1>3. /\ session[k] = "run" /\ k \in 1..used
      /\ misread \subseteq misread' /\ misread' \subseteq misread \cup {k}
  BY <1>1 DEF Serve, Connections, Typed, TypeOK
<1>4. ASSUME NEW j \in Connections, j # k
      PROVE  /\ req'[j] = req[j] /\ rep'[j] = rep[j] /\ sent'[j] = sent[j]
             /\ session'[j] = session[j]
  BY <1>1, <1>4 DEF Serve, Typed, TypeOK
<1>5. \A j : Unbroken(j)' <=> Unbroken(j)
  BY <1>2 DEF Unbroken
<1>6. Asking'
  BY <1>1, <1>2 DEF Asking, Asks
<1>7. Unused'
  <2> SUFFICES ASSUME NEW j \in Connections, j > used PROVE Clean(j)'
    BY <1>2 DEF Unused
  <2>1. j # k
    BY <1>1, <1>3 DEF Typed, TypeOK, Connections
  <2> QED
    BY <1>1, <1>2, <1>4, <2>1 DEF Unused, Clean
<1>8. Queued'
  <2> SUFFICES ASSUME NEW j \in Connections, Unbroken(j), session'[j] = "run"
               PROVE  Idle(j)' \/ \E call \in AllCalls : Held(j, call)'
    BY <1>5 DEF Queued
  <2>1. CASE j = k
    <3>1. req'[k] = <<>> /\ sent'[k] = <<>>
      BY <1>1, <2>1, ServedOne
    <3> QED
      BY <2>1, <3>1 DEF Idle
  <2>2. CASE j # k
    <3>1. Idle(j) => Idle(j)'
      BY <1>4, <2>2 DEF Idle
    <3>2. \A call : Held(j, call) => Held(j, call)'
      BY <1>2, <1>4, <2>2 DEF Held
    <3>3. Idle(j) \/ \E call \in AllCalls : Held(j, call)
      BY <1>1, <1>4, <2>2 DEF Queued
    <3> QED
      BY <3>1, <3>2, <3>3
  <2> QED
    BY <2>1, <2>2
<1>9. Stage'
  <2> SUFFICES ASSUME at = "await", Unbroken(conn)
               PROVE  IF asked.late THEN Late' ELSE (Waiting \/ Served \/ Unread)'
    BY <1>2, <1>5 DEF Stage
  <2>1. IF asked.late THEN Late ELSE Waiting \/ Served \/ Unread
    BY <1>1 DEF Stage
  <2>2. CASE conn # k
    <3>1. conn # 0
      BY <1>1 DEF Typed, TypeOK
    <3>0. conn \in Connections
      BY <1>1, <3>1, InUse
    <3>2. /\ req'[conn] = req[conn] /\ rep'[conn] = rep[conn]
          /\ sent'[conn] = sent[conn] /\ session'[conn] = session[conn]
      BY <1>4, <2>2, <3>0
    <3> QED
      BY <1>2, <2>1, <3>2 DEF Late, Waiting, Served, Unread, Held, Idle
  <2>3. CASE conn = k
    <3>1. PICK call \in AllCalls :
             /\ Held(k, call) /\ Arrives(protocol, call) /\ Whole(protocol, call)
             /\ req'[k] = <<>> /\ sent'[k] = <<>>
             /\ rep'[k] = rep[k] \o ReplyTo(protocol, keys, call)
             /\ session'[k] = IF call.cmd = QUIT THEN "over" ELSE "run"
      BY <1>1, <2>3, ServedOne
    <3>2. ~asked.late /\ ~Unread
      BY <1>3, <2>1, <2>3 DEF Late, Unread
    <3>3. ~Served
      BY <2>3, <3>1 DEF Held, Served, Idle
    <3>4. Held(k, asked.call) /\ rep[k] = <<>>
      BY <2>1, <2>3, <3>2, <3>3 DEF Waiting
    <3>5. asked.call = call
      BY <3>1, <3>4 DEF Held
    <3>6. ReplyTo(protocol, keys, call) \in Text
      <4>1. protocol \in Protocols /\ keys \in 0..MaxKeys
        BY <1>1 DEF Typed, TypeOK
      <4>2. Replied(protocol, keys, call)
        BY <3>1, <4>1, ReplyRoundTrip
      <4> QED
        BY <4>2 DEF Replied
    <3>7. \A w \in Text : <<>> \o w = w
      BY DEF Text
    <3>8. rep'[k] = ReplyTo(protocol, keys, call)
      BY <3>1, <3>4, <3>6, <3>7
    <3>9. Served'
      <4>1. Idle(conn)'
        BY <1>2, <2>3, <3>1 DEF Idle
      <4>2. (session[conn] = "over")' <=> (asked.call.cmd = QUIT)'
        BY <1>2, <2>3, <3>1, <3>5
      <4>3. rep'[conn'] = ReplyTo(protocol', keys', asked'.call)
        BY <1>2, <2>3, <3>5, <3>8
      <4>4. Arrives(protocol', asked'.call)
        BY <1>2, <3>1, <3>5
      <4> QED
        BY <4>1, <4>2, <4>3, <4>4 DEF Served
    <3> QED
      BY <3>2, <3>9
  <2> QED
    BY <2>2, <2>3
<1>10. Between'
  <2> SUFFICES ASSUME at = "prompt", conn # 0, Unbroken(conn)
               PROVE  rep'[conn] = <<>> /\ (session'[conn] = "run" => Idle(conn)')
    BY <1>2, <1>5 DEF Between
  <2>1. rep[conn] = <<>> /\ (session[conn] = "run" => Idle(conn))
    BY <1>1 DEF Between
  <2>2. conn # k
    <3> SUFFICES ASSUME conn = k PROVE FALSE
      OBVIOUS
    <3>1. PICK call \in AllCalls : Held(k, call)
      BY <1>1, ServedOne
    <3> QED
      BY <1>3, <2>1, <3>1 DEF Held, Idle
  <2>3. conn \in Connections
    BY <1>1, InUse
  <2>4. /\ req'[conn] = req[conn] /\ rep'[conn] = rep[conn]
        /\ sent'[conn] = sent[conn] /\ session'[conn] = session[conn]
    BY <1>4, <2>2, <2>3
  <2> QED
    BY <1>2, <2>1, <2>4 DEF Idle
<1>11. InOrder'
  <2> SUFFICES ASSUME protocol = "redis"
               PROVE  /\ misread' = {}
                      /\ \A j \in Connections : session'[j] = "run" =>
                           req'[j] = FlattenSeq(Wires(sent'[j]))
    BY <1>2 DEF InOrder, Wires
  <2>1. /\ misread = {}
        /\ \A j \in Connections : session[j] = "run" =>
             req[j] = FlattenSeq(Wires(sent[j]))
    BY <1>1 DEF InOrder
  <2>2. req'[k] = FlattenSeq(Wires(sent'[k])) /\ misread' = misread
    BY <1>1, <1>3, <2>1, ServedInOrder
  <2>3. ASSUME NEW j \in Connections, session'[j] = "run", j # k
        PROVE  req'[j] = FlattenSeq(Wires(sent'[j]))
    BY <1>4, <2>1, <2>3
  <2> QED
    BY <2>1, <2>2, <2>3
<1>12. Answered'
  BY <1>1, <1>2, <1>5 DEF Answered
<1>13. ReadAsSent'
  <2> SUFFICES ASSUME NEW j \in misread'
               PROVE  /\ protocol # "redis"
                      /\ \/ ~Unbroken(j)
                         \/ /\ protocol = "line"
                            /\ \E t \in texts[j] : SP \in ToSet(t)
    BY <1>2, <1>5 DEF ReadAsSent
  <2>1. protocol # "redis"
    BY <1>2, <1>11 DEF InOrder
  <2>2. CASE j \in misread
    BY <1>1, <2>2 DEF ReadAsSent
  <2>3. CASE j \notin misread /\ Unbroken(j)
    <3>1. j = k
      BY <1>3, <2>3
    <3>2. PICK call \in AllCalls : Held(k, call) /\ Spaced(protocol, call)
      BY <1>1, <2>3, <3>1, ServedOne
    <3> QED
      BY <2>1, <3>1, <3>2 DEF Held, Spaced
  <2> QED
    BY <2>1, <2>2, <2>3
<1> QED
  BY <1>6, <1>7, <1>8, <1>9, <1>10, <1>11, <1>12, <1>13 DEF Conv

\* A session ends by itself only if the request cannot be read.
LEMMA ConvEnds ==
    ASSUME Conv, Typed', NEW k \in Connections, SessionEnds(k)
    PROVE  Conv'
<1>1. /\ Typed /\ Asking /\ Unused /\ Queued /\ Stage /\ Between
      /\ InOrder /\ Answered /\ ReadAsSent
  BY DEF Conv
<1>2. UNCHANGED <<protocol, cli, keys, known, at, calls, conn, used, req, rep,
                  hung, asked, result, sent, misread, texts>>
  BY DEF SessionEnds, histVars
<1>3. /\ session[k] = "run" /\ k \in 1..used /\ session'[k] = "over"
  BY <1>1 DEF SessionEnds, Connections, Typed, TypeOK
<1>4. ASSUME NEW j \in Connections, j # k
      PROVE  session'[j] = session[j]
  BY <1>1, <1>4 DEF SessionEnds, Typed, TypeOK
<1>5. \A j : Unbroken(j)' <=> Unbroken(j)
  BY <1>2 DEF Unbroken
<1>6. Asking'
  BY <1>1, <1>2 DEF Asking, Asks
<1>7. Unused'
  <2> SUFFICES ASSUME NEW j \in Connections, j > used PROVE Clean(j)'
    BY <1>2 DEF Unused
  <2>1. j # k
    BY <1>1, <1>3 DEF Typed, TypeOK, Connections
  <2> QED
    BY <1>1, <1>2, <1>4, <2>1 DEF Unused, Clean
<1>8. Queued'
  <2> SUFFICES ASSUME NEW j \in Connections, Unbroken(j), session'[j] = "run"
               PROVE  Idle(j)' \/ \E call \in AllCalls : Held(j, call)'
    BY <1>5 DEF Queued
  <2>1. session[j] = "run"
    BY <1>3, <1>4
  <2>2. \A call : Held(j, call) => Held(j, call)'
    BY <1>2 DEF Held
  <2>3. Idle(j) => Idle(j)'
    BY <1>2 DEF Idle
  <2>4. Idle(j) \/ \E call \in AllCalls : Held(j, call)
    BY <1>1, <2>1 DEF Queued
  <2> QED
    BY <2>2, <2>3, <2>4
<1>9. Stage'
  <2> SUFFICES ASSUME at = "await", Unbroken(conn)
               PROVE  IF asked.late THEN Late' ELSE (Waiting \/ Served \/ Unread)'
    BY <1>2, <1>5 DEF Stage
  <2>1. IF asked.late THEN Late ELSE Waiting \/ Served \/ Unread
    BY <1>1 DEF Stage
  <2>2. CASE conn # k
    <3>1. conn # 0
      BY <1>1 DEF Typed, TypeOK
    <3>0. conn \in Connections
      BY <1>1, <3>1, InUse
    <3>2. session'[conn] = session[conn]
      BY <1>4, <2>2, <3>0
    <3> QED
      BY <1>2, <2>1, <3>2 DEF Late, Waiting, Served, Unread, Held, Idle
  <2>3. CASE conn = k
    <3> DEFINE r == ReadRequest(protocol, req[k])
    <3>1. protocol \in Protocols /\ r.st = "err"
      BY <1>1, <2>3 DEF SessionEnds, Typed, TypeOK
    <3>2. ~asked.late /\ ~Unread
      BY <1>3, <2>1, <2>3 DEF Late, Unread
    <3>3. ~Served
      <4>1. More.st # "err"
        BY OutcomeIs
      <4>2. req[k] = <<>> => r = More
        BY <3>1, NothingToRead
      <4> HIDE DEF r
      <4> QED
        BY <2>3, <3>1, <4>1, <4>2 DEF Served, Idle
    <3>4. Held(k, asked.call) /\ rep[k] = <<>>
      BY <2>1, <2>3, <3>2, <3>3 DEF Waiting
    <3>5. asked.call \in AllCalls
      BY <1>1 DEF Asking, Asks
    <3>6. ~Arrives(protocol, asked.call)
      <4>1. Whole(protocol, asked.call)
        BY <2>3, <3>4, WholeIs DEF Held
      <4>2. r = ReadRequest(protocol, Wire(protocol, asked.call))
        BY <3>4 DEF Held
      <4> HIDE DEF r
      <4>3. Arrives(protocol, asked.call) => \E v : r = Ok(v, <<>>)
        BY <3>1, <3>5, <4>1, <4>2, RequestRoundTrip
      <4>4. \A v : Ok(v, <<>>).st = "ok"
        BY OutcomeIs
      <4> QED
        BY <3>1, <4>3, <4>4
    <3>7. Unread'
      BY <1>2, <1>3, <2>3, <3>4, <3>6 DEF Unread
    <3> QED
      BY <3>2, <3>7
  <2> QED
    BY <2>2, <2>3
<1>10. Between'
  <2> SUFFICES ASSUME at = "prompt", conn # 0, Unbroken(conn)
               PROVE  rep'[conn] = <<>> /\ (session'[conn] = "run" => Idle(conn)')
    BY <1>2, <1>5 DEF Between
  <2>1. rep[conn] = <<>> /\ (session[conn] = "run" => Idle(conn))
    BY <1>1 DEF Between
  <2>2. conn \in Connections
    BY <1>1, InUse
  <2>3. session'[conn] = "run" => session[conn] = "run"
    BY <1>3, <1>4, <2>2
  <2> QED
    BY <1>2, <2>1, <2>3 DEF Idle
<1>11. InOrder'
  <2>1. \A j \in Connections : session'[j] = "run" => session[j] = "run"
    BY <1>3, <1>4
  <2> QED
    BY <1>1, <1>2, <2>1 DEF InOrder, Wires
<1>12. Answered'
  BY <1>1, <1>2, <1>5 DEF Answered
<1>13. ReadAsSent'
  BY <1>1, <1>2, <1>5 DEF ReadAsSent
<1> QED
  BY <1>6, <1>7, <1>8, <1>9, <1>10, <1>11, <1>12, <1>13 DEF Conv

\* What is between the caller and the sessions does not depend on the caller.
LEMMA ConvQuiet ==
    ASSUME Conv, Typed', UNCHANGED <<protocol, used, req, rep, session, sent, misread, texts>>
    PROVE  Unused' /\ Queued' /\ InOrder' /\ ReadAsSent'
<1>1. Unused /\ Queued /\ InOrder /\ ReadAsSent
  BY DEF Conv
<1>2. \A j : Unbroken(j)' <=> Unbroken(j)
  BY DEF Unbroken
<1>3. Unused'
  BY <1>1 DEF Unused, Clean
<1>4. Queued'
  <2>1. \A j, call : Held(j, call)' <=> Held(j, call)
    BY DEF Held
  <2>2. \A j : Idle(j)' <=> Idle(j)
    BY DEF Idle
  <2> QED
    BY <1>1, <1>2, <2>1, <2>2 DEF Queued
<1>5. InOrder'
  BY <1>1 DEF InOrder, Wires
<1>6. ReadAsSent'
  BY <1>1, <1>2 DEF ReadAsSent
<1> QED
  BY <1>3, <1>4, <1>5, <1>6

\* What the caller reads while it waits.
LEMMA ReadIs ==
    ASSUME Conv, at = "await", Unbroken(conn)
    PROVE  LET r == ReadInterface(rep[conn])
           IN  /\ r.st = "ok" => /\ Served /\ ~asked.late /\ r.rest = <<>>
                                 /\ r.val = Answer(protocol, keys, asked.call)
               /\ r.st = "err" \/ (r.st = "more" /\ session[conn] = "over") =>
                    \/ asked.late
                    \/ Answer(protocol, keys, asked.call) = Failed
<1> DEFINE r == ReadInterface(rep[conn])
           c == asked.call
           a == Answer(protocol, keys, c)
<1>1. /\ Typed /\ Asks /\ asked.on = conn
      /\ IF asked.late THEN Late ELSE Waiting \/ Served \/ Unread
  BY DEF Conv, Asking, Stage
<1>2. rep[conn] = <<>> => r = More
  BY EmptyIs
<1>3. More.st = "more"
  BY OutcomeIs
<1>4. CASE asked.late
  BY <1>1, <1>2, <1>3, <1>4 DEF Late
<1>5. CASE ~asked.late /\ Waiting
  BY <1>2, <1>3, <1>5 DEF Waiting
<1>6. CASE ~asked.late /\ Unread
  <2>1. a = Failed
    BY <1>6 DEF Unread, Answer
  <2> HIDE DEF a, r
  <2> QED
    BY <1>2, <1>3, <1>6, <2>1 DEF Unread, a, r
<1>7. CASE ~asked.late /\ Served
  <2> DEFINE w == ReplyTo(protocol, keys, c)
  <2>1. protocol \in Protocols /\ keys \in 0..MaxKeys
    BY <1>1 DEF Typed, TypeOK
  <2>2. c \in AllCalls /\ TextsOf(protocol, c) \subseteq texts[conn]
    BY <1>1, <1>7 DEF Asks
  <2>3. Whole(protocol, c)
    BY <2>2, WholeIs
  <2>4. Arrives(protocol, c) /\ rep[conn] = w
        /\ ((session[conn] = "over") <=> (c.cmd = QUIT))
    BY <1>7 DEF Served
  <2>5. Replied(protocol, keys, c)
    BY <2>1, <2>2, <2>3, <2>4, ReplyRoundTrip
  <2>6. \/ r = Ok(a, <<>>)
        \/ r = Err /\ a = Failed
        \/ w = <<>> /\ (c.cmd = QUIT => a = Failed)
    BY <2>4, <2>5 DEF Replied
  <2>7. Ok(a, <<>>).st = "ok" /\ Ok(a, <<>>).val = a /\ Ok(a, <<>>).rest = <<>>
        /\ Err.st = "err"
    BY OutcomeIs
  <2> HIDE DEF a, r, w, c
  <2>8. CASE r = Ok(a, <<>>)
    BY <1>7, <2>7, <2>8 DEF a, r, c
  <2>9. CASE r = Err /\ a = Failed
    BY <1>7, <2>7, <2>9 DEF a, r, c
  <2>10. CASE w = <<>> /\ (c.cmd = QUIT => a = Failed)
    <3>1. r.st = "more" /\ (session[conn] = "over" => a = Failed)
      BY <1>2, <1>3, <2>4, <2>10
    <3> QED
      BY <3>1 DEF a, r, c
  <2> QED
    BY <2>6, <2>8, <2>9, <2>10
<1> QED
  BY <1>1, <1>4, <1>5, <1>6, <1>7

\* The caller reads the reply.
LEMMA ConvReply ==
    ASSUME Conv, Typed', ReadReply
    PROVE  Conv'
<1> DEFINE r == ReadInterface(rep[conn])
<1>1. /\ at = "await" /\ at' = "prompt" /\ r.st = "ok" /\ result' = r.val
      /\ rep' = [rep EXCEPT ![conn] = r.rest]
      /\ UNCHANGED <<protocol, keys, conn, used, req, session, hung, asked,
                     sent, misread, texts>>
  BY DEF ReadReply, histVars
<1>2. /\ Typed /\ Asking /\ Unused /\ Queued /\ Stage /\ Between
      /\ InOrder /\ Answered /\ ReadAsSent
  BY DEF Conv
<1>3. /\ Asks /\ asked.on = conn /\ conn # 0
  BY <1>1, <1>2 DEF Asking, Typed, TypeOK
<1>4. conn \in Connections
  BY <1>2, <1>3, InUse
<1>5. Unbroken(conn) => /\ Served /\ ~asked.late /\ r.rest = <<>>
                        /\ r.val = Answer(protocol, keys, asked.call)
  BY <1>1, ReadIs
<1>6. \A j : Unbroken(j)' <=> Unbroken(j)
  BY <1>1 DEF Unbroken
<1> HIDE DEF r
<1>7. Asking'
  BY <1>1, <1>2, <1>3 DEF Asking, Asks
<1>8. Unused'
  <2> SUFFICES ASSUME NEW j \in Connections, j > used PROVE Clean(j)'
    BY <1>1 DEF Unused
  <2>1. j # conn
    BY <1>2 DEF Typed, TypeOK, Connections
  <2>2. rep'[j] = rep[j]
    BY <1>1, <1>2, <2>1 DEF Typed
  <2> QED
    BY <1>1, <1>2, <2>2 DEF Unused, Clean
<1>9. Queued'
  <2>1. \A j, call : Held(j, call)' <=> Held(j, call)
    BY <1>1 DEF Held
  <2>2. \A j : Idle(j)' <=> Idle(j)
    BY <1>1 DEF Idle
  <2> QED
    BY <1>1, <1>2, <1>6, <2>1, <2>2 DEF Queued
<1>10. Stage'
  BY <1>1 DEF Stage
<1>11. Between'
  <2> SUFFICES ASSUME Unbroken(conn)
               PROVE  rep'[conn] = <<>> /\ Idle(conn)'
    BY <1>1, <1>6 DEF Between
  <2>1. rep'[conn] = <<>>
    BY <1>1, <1>2, <1>4, <1>5 DEF Typed
  <2> QED
    BY <1>1, <1>5, <2>1 DEF Served, Idle
<1>12. InOrder'
  BY <1>1, <1>2 DEF InOrder, Wires
<1>13. Answered'
  <2> SUFFICES ASSUME Unbroken(conn)
               PROVE  result' = IF asked.late THEN Failed
                                ELSE Answer(protocol, keys, asked.call)
    BY <1>1, <1>3, <1>6 DEF Answered
  <2> QED
    BY <1>1, <1>5
<1>14. ReadAsSent'
  BY <1>1, <1>2, <1>6 DEF ReadAsSent
<1> QED
  BY <1>7, <1>8, <1>9, <1>10, <1>11, <1>12, <1>13, <1>14 DEF Conv

\* The caller cannot read the reply, or there is none.
LEMMA ConvFails ==
    ASSUME Conv, Typed', ReadFails
    PROVE  Conv'
<1> DEFINE r == ReadInterface(rep[conn])
<1>1. /\ at = "await" /\ at' = "prompt" /\ result' = Failed /\ conn' = 0
      /\ r.st = "err" \/ (r.st = "more" /\ session[conn] = "over")
      /\ UNCHANGED <<protocol, keys, used, req, rep, session, asked,
                     sent, misread, texts>>
  BY DEF ReadFails, histVars
<1>2. Typed /\ Asks /\ asked.on = conn
  BY <1>1 DEF Conv, Asking
<1>3. Unbroken(conn) => \/ asked.late
                        \/ Answer(protocol, keys, asked.call) = Failed
  BY <1>1, ReadIs
<1>4. \A j : Unbroken(j)' <=> Unbroken(j)
  BY <1>1 DEF Unbroken
<1>5. Unused' /\ Queued' /\ InOrder' /\ ReadAsSent'
  BY <1>1, ConvQuiet
<1> HIDE DEF r
<1>6. Asking' /\ Stage' /\ Between'
  BY <1>1, <1>2 DEF Asking, Asks, Stage, Between
<1>7. Answered'
  BY <1>1, <1>2, <1>3, <1>4 DEF Answered
<1> QED
  BY <1>5, <1>6, <1>7 DEF Conv

\* A call on a session that is over fails at once.
LEMMA ConvWriteFails ==
    ASSUME Conv, Typed', NEW call \in AllCalls, WriteFails(call)
    PROVE  Conv'
<1>1. /\ at = "prompt" /\ at' = "prompt" /\ result' = Failed /\ conn' = 0 /\ conn # 0
      /\ asked' = [call |-> call, on |-> conn, late |-> TRUE]
      /\ UNCHANGED <<protocol, keys, used, req, rep, session,
                     sent, misread, texts>>
  BY DEF WriteFails, histVars
<1>2. asked'.on = conn /\ asked'.call = call /\ asked'.late = TRUE
  BY <1>1
<1>3. conn \in 1..used
  <2>1. conn \in 0..used /\ used \in Nat
    BY DEF Conv, Typed, TypeOK
  <2> QED
    BY <1>1, <2>1
<1>4. Unused' /\ Queued' /\ InOrder' /\ ReadAsSent'
  BY <1>1, ConvQuiet
<1>5. Asking' /\ Stage' /\ Between'
  BY <1>1, <1>2, <1>3 DEF Asking, Asks, Stage, Between
<1>6. Answered'
  BY <1>1, <1>2 DEF Answered
<1> QED
  BY <1>4, <1>5, <1>6 DEF Conv

\* The connection that a call is written to, and what is on it.
LEMMA TargetIs ==
    ASSUME Typed, Typed', NEW call, NEW async \in BOOLEAN, Write(call, async)
    PROVE  /\ Target \in Connections /\ Target \in 1..used' /\ used <= used'
           /\ conn = 0 => Target > used
           /\ conn' = (IF async THEN 0 ELSE Target)
           /\ asked'.call = call /\ asked'.on = Target
           /\ asked'.late = (session[Target] = "over") /\ result' = Nothing
           /\ req'[Target] = req[Target] \o Wire(protocol, call)
           /\ sent'[Target] = Append(sent[Target], call)
           /\ texts'[Target] = texts[Target] \cup TextsOf(protocol, call)
           /\ \A j \in Connections : j # Target =>
                req'[j] = req[j] /\ sent'[j] = sent[j] /\ texts'[j] = texts[j]
<1> DEFINE k == Target
<1>1. /\ used \in Nat /\ conn \in 0..used /\ used' \in 0..MaxCalls + 1
      /\ MaxCalls \in Nat
  BY BoundsAre DEF Typed, TypeOK
<1>2. used' = IF conn = 0 THEN used + 1 ELSE used
  BY DEF Write
<1>3. k \in 1..used' /\ used <= used' /\ (conn = 0 => k > used)
  <2>1. CASE conn = 0
    BY <1>1, <1>2, <2>1 DEF Target
  <2>2. CASE conn # 0
    BY <1>1, <1>2, <2>2 DEF Target
  <2> QED
    BY <2>1, <2>2
<1>4. k \in Connections
  <2>1. \A m \in Nat : \A u \in 0..m + 1 : 1..u \subseteq 1..m + 1
    OBVIOUS
  <2> HIDE DEF k
  <2> QED
    BY <1>1, <1>3, <2>1 DEF Connections
<1>5. /\ req' = [req EXCEPT ![k] = req[k] \o Wire(protocol, call)]
      /\ asked' = [call |-> call, on |-> k, late |-> session[k] = "over"]
      /\ sent' = [sent EXCEPT ![k] = Append(sent[k], call)]
      /\ texts' = [texts EXCEPT ![k] = texts[k] \cup TextsOf(protocol, call)]
      /\ result' = Nothing /\ conn' = Pooled(k, async)
  BY DEF Write, Target, Wire
<1>6. conn' = IF async THEN 0 ELSE k
  BY <1>5 DEF Pooled
<1> HIDE DEF k
<1>7. /\ DOMAIN req = Connections /\ DOMAIN sent = Connections
      /\ DOMAIN texts = Connections
  BY DEF Typed
<1>8. /\ req'[k] = req[k] \o Wire(protocol, call)
      /\ \A j \in Connections : j # k => req'[j] = req[j]
  BY <1>4, <1>5, <1>7
<1>9. /\ sent'[k] = Append(sent[k], call)
      /\ \A j \in Connections : j # k => sent'[j] = sent[j]
  BY <1>4, <1>5, <1>7
<1>10. /\ texts'[k] = texts[k] \cup TextsOf(protocol, call)
       /\ \A j \in Connections : j # k => texts'[j] = texts[j]
  BY <1>4, <1>5, <1>7
<1>11. /\ asked'.call = call /\ asked'.on = k
       /\ asked'.late = (session[k] = "over")
  BY <1>5
<1> QED
  BY <1>3, <1>4, <1>5, <1>6, <1>8, <1>9, <1>10, <1>11 DEF k

\* The requests of redis when one more call is sent.
LEMMA WiresAppend ==
    ASSUME NEW s \in Seq(AllCalls), NEW call \in AllCalls
    PROVE  FlattenSeq(Wires(Append(s, call))) =
             FlattenSeq(Wires(s)) \o Wire("redis", call)
<1> DEFINE w == Wire("redis", call)
           x == Wires(s)
           y == Append(x, w)
           z == Wires(Append(s, call))
<1>1. \A c \in AllCalls : Wire("redis", c) \in Text
  <2>1. <<>> \in Text
    BY EmptyIs
  <2> QED
    BY <2>1, RedisRequest
<1>2. Len(s) \in Nat /\ DOMAIN s = 1..Len(s) /\ \A i \in 1..Len(s) : s[i] \in AllCalls
  OBVIOUS
<1>3. x \in [1..Len(s) -> Text] /\ \A i \in 1..Len(s) : x[i] = Wire("redis", s[i])
  BY <1>1, <1>2 DEF Wires
<1>4. \A n \in Nat : \A f \in [1..n -> Text] : f \in Seq(Text) /\ Len(f) = n
  OBVIOUS
<1>5. x \in Seq(Text) /\ Len(x) = Len(s) /\ w \in Text
  BY <1>1, <1>2, <1>3, <1>4
<1>6. z = y
  <2> DEFINE a == Append(s, call)
  <2>1. /\ DOMAIN a = 1..Len(s) + 1 /\ a[Len(s) + 1] = call
        /\ \A i \in 1..Len(s) : a[i] = s[i]
    OBVIOUS
  <2> HIDE DEF a
  <2>2. /\ DOMAIN z = 1..Len(s) + 1 /\ z = [i \in DOMAIN z |-> z[i]]
        /\ \A i \in 1..Len(s) + 1 : z[i] = Wire("redis", a[i])
    BY <2>1 DEF Wires, a
  <2> HIDE DEF z, w, x
  <2>3. /\ DOMAIN y = 1..Len(s) + 1 /\ y = [i \in DOMAIN y |-> y[i]]
        /\ y[Len(s) + 1] = w /\ \A i \in 1..Len(s) : y[i] = x[i]
    <3>1. \A u \in Seq(Text) : \A v \in Text :
             /\ Append(u, v) \in Seq(Text) /\ Len(Append(u, v)) = Len(u) + 1
             /\ Append(u, v)[Len(u) + 1] = v
             /\ \A i \in 1..Len(u) : Append(u, v)[i] = u[i]
      OBVIOUS
    <3>2. \A u \in Seq(Text) : DOMAIN u = 1..Len(u) /\ u = [i \in DOMAIN u |-> u[i]]
      OBVIOUS
    <3>3. /\ y \in Seq(Text) /\ Len(y) = Len(s) + 1
          /\ y[Len(s) + 1] = w /\ \A i \in 1..Len(s) : y[i] = x[i]
      BY <1>5, <3>1
    <3> HIDE DEF y
    <3> QED
      BY <3>2, <3>3
  <2>4. \A i \in 1..Len(s) + 1 : i = Len(s) + 1 \/ i \in 1..Len(s)
    BY <1>2
  <2>5. \A i \in 1..Len(s) : i \in 1..Len(s) + 1
    BY <1>2
  <2>6. Len(s) + 1 \in 1..Len(s) + 1
    BY <1>2
  <2> HIDE DEF y
  <2>7. \A i \in 1..Len(s) : z[i] = y[i]
    BY <1>3, <2>1, <2>2, <2>3, <2>5
  <2>8. z[Len(s) + 1] = y[Len(s) + 1]
    BY <2>1, <2>2, <2>3, <2>6 DEF w
  <2> QED
    BY <2>2, <2>3, <2>4, <2>7, <2>8
<1> HIDE DEF x, w, z
<1>7. FlattenSeq(y) = FlattenSeq(x) \o w
  BY <1>5, FlattenAppend
<1> QED
  BY <1>6, <1>7 DEF x, w, z

\* A call is written.
LEMMA ConvWrite ==
    ASSUME Conv, Typed', NEW call \in AllCalls, NEW async \in BOOLEAN,
           Write(call, async), at \in {"start", "prompt"},
           at' = (IF async THEN "prompt" ELSE "await"),
           UNCHANGED <<protocol, rep, session, misread>>
    PROVE  Conv'
<1>0. PICK k : k = Target
  OBVIOUS
<1>1. /\ Typed /\ Asking /\ Unused /\ Queued /\ Stage /\ Between
      /\ InOrder /\ Answered /\ ReadAsSent
  BY DEF Conv
<1>2. /\ k \in Connections /\ k \in 1..used' /\ used <= used'
      /\ (conn = 0 => k > used) /\ conn' = (IF async THEN 0 ELSE k)
      /\ asked'.call = call /\ asked'.on = k
      /\ asked'.late = (session[k] = "over") /\ result' = Nothing
      /\ req'[k] = req[k] \o Wire(protocol, call)
      /\ sent'[k] = Append(sent[k], call)
      /\ texts'[k] = texts[k] \cup TextsOf(protocol, call)
      /\ \A j \in Connections : j # k =>
           req'[j] = req[j] /\ sent'[j] = sent[j] /\ texts'[j] = texts[j]
  BY <1>0, <1>1, TargetIs
<1>3. conn # 0 => k = conn /\ at = "prompt"
  BY <1>0, <1>1 DEF Target, Typed
<1>4. Unbroken(k) => /\ rep[k] = <<>> /\ (session[k] = "run" => Idle(k))
  <2>1. CASE conn = 0
    BY <1>1, <1>2, <2>1 DEF Unused, Clean, Idle
  <2>2. CASE conn # 0
    BY <1>1, <1>3, <2>2 DEF Between
  <2> QED
    BY <2>1, <2>2
<1>5. \A j \in Connections : texts[j] \subseteq texts'[j]
  BY <1>2
<1>6. \A j \in Connections : Unbroken(j)' => Unbroken(j)
  BY <1>5, StillBroken
<1>7. Unbroken(k)' => /\ rep[k] = <<>>
                      /\ session[k] = "run" => Held(k, call)'
  <2> SUFFICES ASSUME Unbroken(k)'
               PROVE  rep[k] = <<>> /\ (session[k] = "run" => Held(k, call)')
    OBVIOUS
  <2>1. Unbroken(k) /\ rep[k] = <<>> /\ (session[k] = "run" => Idle(k))
    BY <1>2, <1>4, <1>6
  <2>2. Wire(protocol, call) \in Text
    <3>1. \A t \in texts'[k] : ~Breaks(protocol, t)
      BY DEF Unbroken
    <3>2. Whole(protocol, call)
      BY <1>2, <3>1 DEF Whole
    <3>3. protocol \in Protocols
      BY <1>1 DEF Typed, TypeOK
    <3> QED
      BY <3>2, <3>3, RequestRoundTrip
  <2>3. \A w \in Text : <<>> \o w = w
    BY DEF Text
  <2>4. Append(<<>>, call) = <<call>>
    OBVIOUS
  <2>5. ASSUME session[k] = "run" PROVE Held(k, call)'
    <3>1. req'[k] = Wire(protocol, call) /\ sent'[k] = <<call>>
      BY <1>2, <2>1, <2>2, <2>3, <2>4, <2>5 DEF Idle
    <3> QED
      BY <1>2, <3>1 DEF Held
  <2> QED
    BY <2>1, <2>5
<1>8. Asking'
  <2>1. TextsOf(protocol, call) \subseteq texts'[k]
    BY <1>2
  <2> QED
    BY <1>2, <2>1 DEF Asking, Asks
<1>9. Unused'
  <2> SUFFICES ASSUME NEW j \in Connections, j > used' PROVE Clean(j)'
    BY DEF Unused
  <2>1. used \in Nat /\ used' \in Nat /\ j \in Nat
    BY <1>1, BoundsAre DEF Typed, TypeOK, Connections
  <2>2. j # k /\ j > used
    BY <1>2, <2>1
  <2> QED
    BY <1>1, <1>2, <2>2 DEF Unused, Clean
<1>10. Queued'
  <2> SUFFICES ASSUME NEW j \in Connections, Unbroken(j)', session[j] = "run"
               PROVE  Idle(j)' \/ \E c \in AllCalls : Held(j, c)'
    BY DEF Queued
  <2>1. CASE j = k
    BY <1>7, <2>1
  <2>2. CASE j # k
    <3>1. Idle(j) => Idle(j)'
      BY <1>2, <2>2 DEF Idle
    <3>2. \A c : Held(j, c) => Held(j, c)'
      BY <1>2, <2>2 DEF Held
    <3>3. Idle(j) \/ \E c \in AllCalls : Held(j, c)
      BY <1>1, <1>6 DEF Queued
    <3> QED
      BY <3>1, <3>2, <3>3
  <2> QED
    BY <2>1, <2>2
<1>11. Stage'
  <2> SUFFICES ASSUME at' = "await", Unbroken(conn)'
               PROVE  IF asked'.late THEN Late' ELSE (Waiting \/ Served \/ Unread)'
    BY DEF Stage
  <2>1. conn' = k
    BY <1>2
  <2>2. Unbroken(k)'
    BY <2>1 DEF Unbroken
  <2>3. session[k] \in {"run", "over"}
    BY <1>1, <1>2 DEF Typed, TypeOK
  <2>4. CASE session[k] = "over"
    BY <1>2, <1>7, <2>1, <2>2, <2>4 DEF Late
  <2>5. CASE session[k] = "run"
    <3>1. Held(k, call)' /\ rep[k] = <<>> /\ "run" # "over"
      BY <1>7, <2>2, <2>5
    <3>2. Waiting'
      BY <1>2, <2>1, <2>5, <3>1 DEF Waiting, Held
    <3>3. ~asked'.late
      BY <1>2, <2>5, <3>1
    <3> QED
      BY <3>2, <3>3
  <2> QED
    BY <2>3, <2>4, <2>5
<1>12. Between'
  BY <1>2 DEF Between
<1>13. InOrder'
  <2> SUFFICES ASSUME protocol = "redis"
               PROVE  /\ misread = {}
                      /\ \A j \in Connections : session[j] = "run" =>
                           req'[j] = FlattenSeq(Wires(sent'[j]))
    BY DEF InOrder, Wires
  <2>1. /\ misread = {}
        /\ \A j \in Connections : session[j] = "run" =>
             req[j] = FlattenSeq(Wires(sent[j]))
    BY <1>1 DEF InOrder
  <2>2. sent[k] \in Seq(AllCalls)
    BY <1>1, <1>2 DEF Typed
  <2>3. session[k] = "run" => req'[k] = FlattenSeq(Wires(sent'[k]))
    BY <1>2, <2>1, <2>2, WiresAppend
  <2> QED
    BY <1>2, <2>1, <2>3
<1>14. Answered'
  BY <1>2 DEF Answered
<1>15. ReadAsSent'
  <2> SUFFICES ASSUME NEW j \in misread
               PROVE  /\ protocol # "redis"
                      /\ \/ ~Unbroken(j)'
                         \/ /\ protocol = "line"
                            /\ \E t \in texts'[j] : SP \in ToSet(t)
    BY DEF ReadAsSent
  <2>1. j \in Connections
    <3>1. \A m \in Nat : \A u \in 0..m + 1 : 1..u \subseteq 1..m + 1
      OBVIOUS
    <3>2. MaxCalls \in Nat /\ used \in 0..MaxCalls + 1 /\ misread \subseteq 1..used
      BY <1>1, BoundsAre DEF Typed, TypeOK
    <3> QED
      BY <3>1, <3>2 DEF Connections
  <2>2. Unbroken(j)' => Unbroken(j)
    BY <1>6, <2>1
  <2>3. texts[j] \subseteq texts'[j]
    BY <1>5, <2>1
  <2> QED
    BY <1>1, <2>2, <2>3 DEF ReadAsSent
<1> QED
  BY <1>8, <1>9, <1>10, <1>11, <1>12, <1>13, <1>14, <1>15 DEF Conv

\* Every step keeps the invariant: a lemma above for each action.
LEMMA ConvStep == Conv /\ [Next]_vars => Conv'
<1> SUFFICES ASSUME Conv, [Next]_vars PROVE Conv'
  OBVIOUS
<1>0. Typed /\ Typed'
  BY TypedStep DEF Conv
<1>1. CASE Start
  <2>1. CASE Write(Call(CMDS, <<>>), FALSE) /\ at' = "await"
    <3> DEFINE call == Call(CMDS, <<>>)
    <3>1. call \in AllCalls
      BY DEF AllCalls
    <3>2. Write(call, FALSE) /\ at = "start" /\ at' = (IF FALSE THEN "prompt" ELSE "await")
      BY <1>1, <2>1 DEF Start
    <3>3. UNCHANGED <<protocol, rep, session, misread>>
      BY <1>1 DEF Start
    <3> HIDE DEF call
    <3> QED
      BY <1>0, <3>1, <3>2, <3>3, ConvWrite
  <2>2. CASE at' = "prompt" /\ UNCHANGED <<used, conn, req, asked, result, sent, texts>>
    <3>1. at = "start" /\ UNCHANGED <<protocol, keys, rep, session, misread>>
      BY <1>1 DEF Start
    <3>2. Unused' /\ Queued' /\ InOrder' /\ ReadAsSent'
      BY <1>0, <2>2, <3>1, ConvQuiet
    <3>3. conn = 0
      BY <1>0, <3>1 DEF Typed
    <3>4. Asking /\ Answered
      BY DEF Conv
    <3>5. \A j : Unbroken(j)' <=> Unbroken(j)
      BY <2>2, <3>1 DEF Unbroken
    <3>6. Asking' /\ Stage' /\ Between'
      BY <2>2, <3>1, <3>3, <3>4 DEF Asking, Asks, Stage, Between
    <3>7. Answered'
      BY <2>2, <3>1, <3>4, <3>5 DEF Answered
    <3> QED
      BY <1>0, <3>2, <3>6, <3>7 DEF Conv
  <2> QED
    BY <1>1, <2>1, <2>2 DEF Start
<1>2. CASE ReadReply
  BY <1>0, <1>2, ConvReply
<1>3. CASE ReadFails
  BY <1>0, <1>3, ConvFails
<1>4. ASSUME NEW call \in Calls(Arguments), Ask(call)
      PROVE  Conv'
  <2> DEFINE async == IsCmdAsync(call.cmd)
  <2>1. call \in AllCalls
    BY <1>0, AskedIs DEF Typed, TypeOK
  <2>2. async \in BOOLEAN
    BY <1>0 DEF IsCmdAsync, Typed, TypeOK
  <2>3. /\ Write(call, async) /\ at = "prompt"
        /\ at' = (IF async THEN "prompt" ELSE "await")
        /\ UNCHANGED <<protocol, rep, session, misread>>
    BY <1>4 DEF Ask
  <2> HIDE DEF async
  <2> QED
    BY <1>0, <2>1, <2>2, <2>3, ConvWrite
<1>5. ASSUME NEW call \in Calls(Arguments), WriteFails(call)
      PROVE  Conv'
  <2>1. call \in AllCalls
    BY <1>0, AskedIs DEF Typed, TypeOK
  <2> QED
    BY <1>0, <1>5, <2>1, ConvWriteFails
<1>6. ASSUME NEW k \in Connections, Serve(k)
      PROVE  Conv'
  BY <1>0, <1>6, ConvServe
<1>7. ASSUME NEW k \in Connections, SessionEnds(k)
      PROVE  Conv'
  BY <1>0, <1>7, ConvEnds
<1>8. CASE UNCHANGED vars
  <2>1. UNCHANGED <<protocol, cli, keys, known, at, calls, conn, used, req, rep,
                    session, hung, asked, result, sent, misread, texts>>
    BY <1>8 DEF vars, netVars, histVars
  <2>2. Unused' /\ Queued' /\ InOrder' /\ ReadAsSent'
    BY <1>0, <2>1, ConvQuiet
  <2>3. \A j : Unbroken(j)' <=> Unbroken(j)
    BY <2>1 DEF Unbroken
  <2>4. Asking /\ Stage /\ Between /\ Answered
    BY DEF Conv
  <2>5. Asking'
    BY <2>1, <2>4 DEF Asking, Asks
  <2>6. (Late <=> Late') /\ (Waiting <=> Waiting') /\ (Served <=> Served')
        /\ (Unread <=> Unread') /\ (Idle(conn) <=> Idle(conn)')
    BY <2>1 DEF Late, Waiting, Served, Unread, Held, Idle
  <2>7. Unbroken(conn)' <=> Unbroken(conn)
    BY <2>1 DEF Unbroken
  <2>8. Stage' /\ Between'
    BY <2>1, <2>4, <2>6, <2>7 DEF Stage, Between
  <2>9. Answered'
    BY <2>1, <2>3, <2>4 DEF Answered
  <2> QED
    BY <1>0, <2>2, <2>5, <2>8, <2>9 DEF Conv
<1> QED
  BY <1>1, <1>2, <1>3, <1>4, <1>5, <1>6, <1>7, <1>8 DEF Next

\* The invariant holds throughout.
LEMMA ConvHolds == Spec => []Conv
  BY ConvInit, ConvStep, PTL DEF Spec

\* The server reads every request as it was sent: redis always, whatever the
\* arguments hold and however many requests are in flight; the others up to
\* line breaks in a text and, in the line protocol, spaces.
THEOREM RequestsReadAsSent == Spec => []ReadAsSent
<1>1. Conv => ReadAsSent
  BY DEF Conv
<1> QED
  BY <1>1, ConvHolds, PTL

\* A caller finds nothing of an earlier call on the connection it takes from
\* the pool.
THEOREM PoolInStep == Spec => []InStep
<1>1. Conv => InStep
  BY DEF Conv, Between, InStep, Idle
<1> QED
  BY <1>1, ConvHolds, PTL

\* A call returns the answer to its own command, or an error exactly where
\* the format cannot carry the request or the answer.
THEOREM CallsAnswered == Spec => []Answered
<1>1. Conv => Answered
  BY DEF Conv
<1> QED
  BY <1>1, ConvHolds, PTL

=============================================================================
