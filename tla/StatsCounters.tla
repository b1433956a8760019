--------------------------- MODULE StatsCounters ---------------------------
(***************************************************************************)
(* The half of the stats backend that MemoryBackend's own mutex protects:  *)
(* values and counters, the commands on them and the flush routine.        *)
(*                                                                         *)
(* A command takes the mutex once and is one action; DEL with several keys *)
(* takes it once per key and is one action per key.  COUNTERS leaves the   *)
(* mutex with the map itself and marshals it while others write to it: its *)
(* reads, and the writes of a flush, are actions of their own.  What a     *)
(* flush records as a rate is modelled by the count it is computed from:   *)
(* dividing by the seconds since the last flush distinguishes nothing here.*)
(***************************************************************************)
EXTENDS Integers, Sequences, SequencesExt

CONSTANTS
    Key,         \* keys, sequences of letters
    Pattern,     \* patterns of KEYS with a star, as the texts around the stars
    Amount,      \* int64 arguments of the commands
    Absent,      \* no entry in a map; in a reply, null
    Empty,       \* the empty string
    Bits,        \* width of an integer (64 in the code)
    MaxHistory,  \* maxCounterHistory (100 in the code)
    MaxOps       \* bound: commands and flushes

Int64 == -(2^(Bits-1)) .. 2^(Bits-1) - 1

Counter == [value : Int64, rate : Int64, history : Seq(Int64)]

ASSUME StatsAssumption ==
    /\ Amount \subseteq Int64
    /\ Empty \notin Key /\ Absent \notin Key
    /\ Absent \notin Int64 /\ Absent \notin Counter
    /\ \A k \in Key : k \in Seq(ToSet(k))
    /\ \A p \in Pattern : /\ p \in Seq(ToSet(p)) /\ Len(p) > 1
                          /\ p # << <<>>, <<>> >>
                          /\ \A i \in DOMAIN p : p[i] \in Seq(ToSet(p[i]))
    /\ MaxHistory \in Nat \ {0}
    /\ MaxOps \in Nat

\* The width is positive, and each bit doubles the number of integers.
ASSUME WidthAssumption ==
    2^(Bits-1) \in Nat \ {0} /\ 2^Bits = 2 * 2^(Bits-1)

VARIABLES
    values,    \* mem.values
    counters,  \* mem.counters
    ticker,    \* flush goroutine: "on", "stopping" (quit closed), "off"
    flushing,  \* counters that the flush under way has still to visit
    half,      \* the one whose rate it has recorded and not reset yet
    report,    \* the COUNTERS command under way
    threw,     \* the runtime noticed a concurrent use of the map
    reply,     \* what the last command wrote to its client
    ops,       \* commands and flushes so far
    issued,    \* history: sum of all COUNT amounts since a counter was made
    flushed,   \* history: counts flushed since then, oldest first
    taken      \* history: their sum

flushVars == <<flushing, half>>
histVars  == <<issued, flushed, taken>>
vars == <<values, counters, ticker, flushVars, report, threw, reply, ops,
          histVars>>

\* Two's complement arithmetic of the given width.
Wrap(n) == ((n + 2^(Bits-1)) % 2^Bits) - 2^(Bits-1)

NoReport == [at |-> "none"]

\* What COUNTERS has: the keys it has still to write, the counter it is at, the
\* number of that counter's fields it has read and, as history, how many
\* flushes the value it read was reset by and how many the rate it read shows.
Report == {NoReport} \cup [at : {"marshal"}, todo : SUBSET Key,
                           key : Key \cup {Absent}, read : 0..2,
                           reset : Nat, shown : Nat]

TypeOK ==
    /\ values \in [Key -> {Absent} \cup Int64]
    /\ counters \in [Key -> {Absent} \cup Counter]
    /\ \A k \in Key : counters[k] # Absent
                         => Len(counters[k].history) <= MaxHistory
    /\ ticker \in {"on", "stopping", "off"}
    /\ flushing \subseteq Key
    /\ half \in flushing \cup {Absent}
    /\ report \in Report
    /\ threw \in BOOLEAN
    /\ ops \in 0..MaxOps
    /\ issued \in [Key -> Int] /\ taken \in [Key -> Int]
    /\ flushed \in [Key -> Seq(Int64)]

\* What a command leaves behind for the client: its name and key, and the
\* value written.
NoReply == [op |-> "none"]

Init ==
    /\ values = [k \in Key |-> Absent]
    /\ counters = [k \in Key |-> Absent]
    /\ ticker = "on"
    /\ flushing = {} /\ half = Absent
    /\ report = NoReport /\ threw = FALSE
    /\ reply = NoReply
    /\ ops = 0
    /\ issued = [k \in Key |-> 0]
    /\ flushed = [k \in Key |-> <<>>]
    /\ taken = [k \in Key |-> 0]

\* A command gets the mutex, which a flush holds to its end.
Step == flushing = {} /\ ops < MaxOps /\ ops' = ops + 1

-----------------------------------------------------------------------------
(* Commands on values                                                      *)

\* Any command with too few arguments, or with a number that does not parse,
\* is answered with an error before it reaches the maps.
Rejected ==
    /\ Step
    /\ reply' = [op |-> "error"]
    /\ UNCHANGED <<values, counters, ticker, flushVars, report, threw, histVars>>

Set(k, n) ==
    /\ Step
    /\ values' = [values EXCEPT ![k] = n]
    /\ reply' = [op |-> "SET", key |-> k, result |-> 1]
    /\ UNCHANGED <<counters, ticker, flushVars, report, threw, histVars>>

SetNx(k, n) ==
    /\ Step
    /\ IF values[k] = Absent
         THEN /\ values' = [values EXCEPT ![k] = n]
              /\ reply' = [op |-> "SETNX", key |-> k, result |-> 1]
         ELSE /\ reply' = [op |-> "SETNX", key |-> k, result |-> -1]
              /\ UNCHANGED values
    /\ UNCHANGED <<counters, ticker, flushVars, report, threw, histVars>>

Exists(k) == values[k] # Absent

\* GET and EXISTS; a missing key is answered with null and 0.
Get(k) ==
    /\ Step
    /\ \/ reply' = [op |-> "GET", key |-> k, result |-> values[k]]
       \/ reply' = [op |-> "EXISTS", key |-> k,
                    result |-> IF Exists(k) THEN 1 ELSE 0]
    /\ UNCHANGED <<values, counters, ticker, flushVars, report, threw, histVars>>

\* IncrBy: the value stored, which is also returned.
IncrBy(k, n) == IF Exists(k) THEN Wrap(values[k] + n) ELSE n

\* INCR without an amount is INCR by 1.
Incr(k, n) ==
    /\ Step
    /\ values' = [values EXCEPT ![k] = IncrBy(k, n)]
    /\ reply' = [op |-> "INCR", key |-> k, result |-> IncrBy(k, n)]
    /\ UNCHANGED <<counters, ticker, flushVars, report, threw, histVars>>

\* DecrBy: the value stored and the value returned, which for a missing key
\* are -count and count.
DecrBy(k, n) == IF Exists(k)
                  THEN LET v == Wrap(values[k] - n) IN [stored |-> v, result |-> v]
                  ELSE [stored |-> Wrap(-n), result |-> n]

Decr(k, n) ==
    /\ Step
    /\ values' = [values EXCEPT ![k] = DecrBy(k, n).stored]
    /\ reply' = [op |-> "DECR", key |-> k, result |-> DecrBy(k, n).result]
    /\ UNCHANGED <<counters, ticker, flushVars, report, threw, histVars>>

\* KEYS without a pattern: one slot per key, but iter is never advanced, so
\* every key is stored in the first slot and the others stay empty.
KeysAll ==
    LET present == {k \in Key : Exists(k)}
    IN  IF present = {} THEN {<<>>}
        ELSE {[i \in 1..Cardinality(present) |-> IF i = 1 THEN k ELSE Empty]
                : k \in present}

\* KEYS with a pattern that has no star: the key itself, if it is there.
KeysExact(k) == IF Exists(k) THEN <<k>> ELSE <<>>

\* Where text t occurs in k (the offset that strings.Index gives is the least),
\* and k from there on.
Occurrences(t, k) ==
    {i \in 0..Len(k) - Len(t) : SubSeq(k, i + 1, i + Len(t)) = t}

From(t, k) == IF Occurrences(t, k) = {} THEN <<>>
              ELSE SubSeq(k, Min(Occurrences(t, k)) + 1, Len(k))

\* Variant: the second text is looked for in what TrimLeft, which removes every
\* leading letter of the first one, has left.
FoundTrimmed(p, k) ==
    LET first == SelectInSeq(k, LAMBDA ch : ch \notin ToSet(p[1]))
        left  == IF first = 0 THEN <<>> ELSE SubSeq(k, first, Len(k))
    IN  IsPrefix(p[1], k) /\ Occurrences(p[2], left) # {}

\* The loop that tries a pattern on a key.  Texts are taken in pairs: the first
\* of a pair is compared with the start of the rest of the key, the second is
\* looked for in the whole key, and the rest begins with it.
Found(p, k) ==
    \A i \in DOMAIN p :
        IF i % 2 = 0 THEN Occurrences(p[i], k) # {}
        ELSE IsPrefix(p[i], IF i = 1 THEN k ELSE From(p[i - 1], k))

Keys ==
    /\ Step
    /\ \/ \E list \in KeysAll : reply' = [op |-> "KEYS", list |-> list]
       \/ \E k \in Key : reply' = [op |-> "KEYS1", key |-> k,
                                  list |-> KeysExact(k)]
       \/ \E p \in Pattern :
            reply' = [op |-> "KEYS*", pattern |-> p,
                      found |-> {k \in Key : Exists(k) /\ Found(p, k)}]
    /\ UNCHANGED <<values, counters, ticker, flushVars, report, threw, histVars>>

-----------------------------------------------------------------------------
(* Counters                                                                *)

CounterBy(c, n) ==
    IF c = Absent THEN [value |-> n, rate |-> 0, history |-> <<>>]
                  ELSE [c EXCEPT !.value = Wrap(@ + n)]

\* COUNT without an amount is COUNT by 1.  It has no reply.
Count(k, n) ==
    /\ Step
    /\ counters' = [counters EXCEPT ![k] = CounterBy(@, n)]
    /\ issued' = [issued EXCEPT ![k] =
                    IF counters[k] = Absent THEN n ELSE @ + n]
    /\ flushed' = [flushed EXCEPT ![k] =
                     IF counters[k] = Absent THEN <<>> ELSE @]
    /\ taken' = [taken EXCEPT ![k] = IF counters[k] = Absent THEN 0 ELSE @]
    /\ reply' = NoReply
    /\ UNCHANGED <<values, ticker, flushVars, report, threw>>

\* The number of maps that a key is deleted from.
Deleted(k) == (IF values[k] = Absent THEN 0 ELSE 1)
              + (IF counters[k] = Absent THEN 0 ELSE 1)

\* The two fields of a Counter, in the order in which it is marshalled; and
\* the variant with the fields exchanged.
FieldsExchanged == <<"Rate", "Value">>

Fields == <<"Value", "Rate">>

\* Marshalling reads the next field of counter k.
ReadField(r, k) ==
    LET f == Fields[r.read + 1]
    IN  [r EXCEPT !.key = k, !.read = @ + 1, !.todo = @ \ {k},
                  !.reset = IF f # "Value" THEN @
                            ELSE Len(flushed[k]) - (IF half = k THEN 1 ELSE 0),
                  !.shown = IF f # "Rate" THEN @ ELSE Len(flushed[k])]

\* It is in the middle of counter k, and keeps a pointer to it.
Holds(k) == report # NoReport /\ report.key = k /\ report.read = 1

\* DEL of one key removes it from both maps.  A counter that is removed does
\* not change any more: what COUNTERS has still to read of it is settled.
Del(k) ==
    /\ Step
    /\ values' = [values EXCEPT ![k] = Absent]
    /\ counters' = [counters EXCEPT ![k] = Absent]
    /\ report' = IF Holds(k) THEN ReadField(report, k) ELSE report
    /\ reply' = [op |-> "DEL", key |-> k, result |-> Deleted(k)]
    /\ UNCHANGED <<ticker, flushVars, threw, histVars>>

-----------------------------------------------------------------------------
(* The flush                                                               *)

\* Variants: the history one entry too short, and never trimmed.
RecordShort(c) ==
    LET h == Append(c.history, c.rate)
    IN  [c EXCEPT !.rate = c.value,
                  !.history = IF Len(h) >= MaxHistory
                                THEN SubSeq(h, Len(h) - MaxHistory + 2, Len(h))
                                ELSE h]
RecordUntrimmed(c) ==
    [c EXCEPT !.rate = c.value, !.history = Append(c.history, c.rate)]

\* The rate and the history of a counter after a flush.
Record(c) ==
    LET h == Append(c.history, c.rate)
    IN  [c EXCEPT !.rate = c.value,
                  !.history = IF Len(h) > MaxHistory
                                THEN SubSeq(h, Len(h) - MaxHistory + 1, Len(h))
                                ELSE h]

\* The ticker fires: FlushCounters takes the mutex and visits the counters.
\* Between the close of quit and its receipt the ticker may fire once more.
FlushCounters ==
    /\ Step
    /\ ticker # "off"
    /\ flushing' = {k \in Key : counters[k] # Absent}
    /\ UNCHANGED <<values, counters, ticker, half, report, threw, reply,
                   histVars>>

\* It records the rate of a counter ...
FlushRecord(k) ==
    /\ k \in flushing /\ half = Absent
    /\ counters' = [counters EXCEPT ![k] = Record(@)]
    /\ flushed' = [flushed EXCEPT ![k] = Append(@, counters[k].value)]
    /\ taken' = [taken EXCEPT ![k] = @ + counters[k].value]
    /\ half' = k
    /\ UNCHANGED <<values, ticker, flushing, report, threw, reply, ops, issued>>

\* Variant: the counter goes on from its value.
FlushNoReset ==
    /\ half # Absent
    /\ flushing' = flushing \ {half}
    /\ half' = Absent
    /\ UNCHANGED <<values, counters, ticker, report, threw, reply, ops, histVars>>

\* ... and then resets its value; after the last one the mutex is released.
FlushReset ==
    /\ half # Absent
    /\ counters' = [counters EXCEPT ![half].value = 0]
    /\ flushing' = flushing \ {half}
    /\ half' = Absent
    /\ UNCHANGED <<values, ticker, report, threw, reply, ops, histVars>>

Unload ==
    /\ ticker = "on"
    /\ ticker' = "stopping"
    /\ UNCHANGED <<values, counters, flushVars, report, threw, reply, ops,
                   histVars>>

\* The flush goroutine is between two flushes when it sees quit.
StopTicker ==
    /\ ticker = "stopping" /\ flushing = {}
    /\ ticker' = "off"
    /\ UNCHANGED <<values, counters, flushVars, report, threw, reply, ops,
                   histVars>>

-----------------------------------------------------------------------------
(* COUNTERS: the mutex protects no more than fetching the map.  WriteJson  *)
(* then lists its keys, and reads the counters one by one (a key that has  *)
(* been deleted by then is written as null).                               *)

Counters ==
    /\ Step /\ report = NoReport
    /\ report' = [at |-> "marshal", todo |-> {k \in Key : counters[k] # Absent},
                  key |-> Absent, read |-> 0, reset |-> 0, shown |-> 0]
    /\ UNCHANGED <<values, counters, ticker, flushVars, threw, reply, histVars>>

MarshalCounter(k) ==
    /\ report # NoReport /\ report.read # 1 /\ k \in report.todo
    /\ report' = IF counters[k] = Absent
                    THEN [report EXCEPT !.todo = @ \ {k}]
                    ELSE ReadField([report EXCEPT !.read = 0], k)
    /\ UNCHANGED <<values, counters, ticker, flushVars, threw, reply, ops,
                   histVars>>

MarshalRest(k) ==
    /\ Holds(k)
    /\ report' = ReadField(report, k)
    /\ UNCHANGED <<values, counters, ticker, flushVars, threw, reply, ops,
                   histVars>>

CountersReply ==
    /\ report # NoReport /\ report.read # 1 /\ report.todo = {}
    /\ report' = NoReport
    /\ reply' = [op |-> "COUNTERS"]
    /\ UNCHANGED <<values, counters, ticker, flushVars, threw, ops, histVars>>

\* Reading the map while COUNT or DEL writes to it is a data race, which the
\* runtime may notice.
MapRace ==
    /\ report # NoReport /\ report.todo # {}
    /\ flushing = {} /\ ops < MaxOps
    /\ threw' = TRUE
    /\ UNCHANGED <<values, counters, ticker, flushVars, report, reply, ops,
                   histVars>>

-----------------------------------------------------------------------------
Next == /\ ~threw
        /\ \/ \E k \in Key, n \in Amount : \/ Set(k, n) \/ SetNx(k, n)
                                           \/ Incr(k, n) \/ Decr(k, n)
                                           \/ Count(k, n)
           \/ \E k \in Key : \/ Get(k) \/ Del(k) \/ FlushRecord(k)
                             \/ MarshalCounter(k) \/ MarshalRest(k)
           \/ Rejected \/ Keys \/ FlushCounters \/ FlushReset
           \/ Unload \/ StopTicker
           \/ Counters \/ CountersReply \/ MapRace

Spec == Init /\ [][Next]_vars

-----------------------------------------------------------------------------
(* Properties                                                              *)

\* Nothing that COUNT adds is lost or counted twice over any sequence of
\* commands and flushes: what a counter holds and what its flushes took out
\* of it add up to what was put in, in the arithmetic of int64 (but for the
\* one counter that a flush is at).
CountConserved ==
    \A k \in Key : counters[k] # Absent /\ k # half
        => Wrap(issued[k]) = Wrap(counters[k].value + taken[k])

\* The history and the rate of a counter are its last flushed counts, in
\* order, preceded by the initial rate 0, and as many as maxCounterHistory
\* allows: trimming at the limit drops the oldest and nothing else.
HistoryWindow ==
    \A k \in Key : counters[k] # Absent =>
        LET all    == <<0>> \o flushed[k]
            window == Append(counters[k].history, counters[k].rate)
        IN  /\ IsSuffix(window, all)
            /\ \/ Len(window) = Len(all)
               \/ Len(window) = MaxHistory + 1

\* COUNTERS reads counters while a flush writes them, and yet misses no count:
\* a value it shows was reset by no flush but those whose rates it shows, since
\* the value is read first and reset last.
ResetsAreShown ==
    report # NoReport /\ report.read = 2 => report.reset <= report.shown

\* What a pattern means: the key has the texts in order and without overlap,
\* the first at its start and the last at its end.
Matches(p, k) ==
    \E at \in [DOMAIN p -> 0..Len(k)] :
        /\ \A i \in DOMAIN p : at[i] \in Occurrences(p[i], k)
        /\ \A i \in 2..Len(p) : at[i - 1] + Len(p[i - 1]) <= at[i]
        /\ at[1] = 0 /\ at[Len(p)] + Len(p[Len(p)]) = Len(k)

\* KEYS a* and KEYS *a* list exactly the keys that match, and KEYS a*b none too
\* few (the loop does not ask that b be last).  With two stars inside, as in
\* a*b*c, it compares c with the text that begins with b and may miss a match.
PatternKeys ==
    reply.op = "KEYS*" =>
        LET p == reply.pattern
            matching == {k \in Key : Exists(k) /\ Matches(p, k)}
        IN  /\ Len(p) = 2 => matching \subseteq reply.found
            /\ p[Len(p)] = <<>> /\ (Len(p) = 2 \/ (Len(p) = 3 /\ p[1] = <<>>))
                 => matching = reply.found
=============================================================================
