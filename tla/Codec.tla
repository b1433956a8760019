------------------------------- MODULE Codec -------------------------------
(***************************************************************************)
(* The wire format: what the Write operations of BufferClient and of the   *)
(* redis and line clients put on a connection, and what the Read           *)
(* operations make of it.                                                  *)
(*                                                                         *)
(* A wire holds a sequence of symbols.  CR, LF, the space, the prefixes    *)
(* and the digits are one byte each; any other symbol stands for one or    *)
(* more bytes that have no meaning to the format.  A text is a sequence of *)
(* symbols, and a value a record with the Go type of what it stands for.   *)
(***************************************************************************)
EXTENDS Integers, Sequences, SequencesExt

CONSTANTS
    Symbols,     \* what a wire can hold
    BufferSize,  \* of the buffered reader (128 in the code)
    MaxLength    \* longest text, largest number of items (an int in the code)

Text == Seq(Symbols)

CR == "\r"
LF == "\n"
SP == " "
Delims == <<CR, LF>>

String(s) == [type |-> "string", text |-> s]
Bytes(s)  == [type |-> "bytes", text |-> s]
Other(s)  == [type |-> "other", text |-> s]   \* printed as s by fmt
Error(s)  == [type |-> "error", text |-> s]
Int64(n)  == [type |-> "int64", int |-> n]
Float(n)  == [type |-> "float64", tenths |-> n]
Bool(b)   == [type |-> "bool", bool |-> b]
Byte(ch)  == [type |-> "byte", byte |-> ch]
Array(s)  == [type |-> "array", items |-> s]
Null      == [type |-> "nil"]
Json      == [type |-> "map"]                 \* a decoded JSON object

\* What can be an argument of a command.
Scalar == [type : {"string", "bytes", "other"}, text : Text]
          \cup [type : {"int64"}, int : Int]
          \cup [type : {"float64"}, tenths : Nat]
          \cup [type : {"bool"}, bool : BOOLEAN]
          \cup [type : {"byte"}, byte : Symbols]
          \cup {Null}

Map(Op(_), s) == [i \in DOMAIN s |-> Op(s[i])]

\* Where the first ch is, 0 if there is none.
Index(s, ch) == SelectInSeq(s, LAMBDA e : e = ch)

Join(texts) ==
    LET join[i \in 0..Len(texts)] ==
          IF i = 0 THEN <<>>
          ELSE IF i = 1 THEN texts[1] ELSE join[i - 1] \o <<SP>> \o texts[i]
    IN  join[Len(texts)]

-----------------------------------------------------------------------------
(* strconv and fmt.Fprint                                                  *)

\* The decimal code of a byte.
Code == "code"

Digits == <<"0", "1", "2", "3", "4", "5", "6", "7", "8", "9">>
Digit(n) == Digits[n + 1]

DigitValue(ch) == CHOOSE n \in 0..9 : Digit(n) = ch

AppendNat(n) ==
    LET digits[m \in 0..n] ==
          IF m < 10 THEN <<Digit(m)>>
          ELSE Append(digits[m \div 10], Digit(m % 10))
    IN  digits[n]

AppendInt(n) == IF n < 0 THEN <<"-">> \o AppendNat(-n) ELSE AppendNat(n)

\* The line of a length fits the reader's buffer, and so do the shortest ones.
ASSUME CodecAssumption ==
    /\ {CR, LF, SP, "$", "*", "&", "+", ":", ".", "?", "-", "~", "ERR ", "json",
        "true", "false", "[", "]", "<nil>", Code} \cup ToSet(Digits)
         \subseteq Symbols
    /\ BufferSize \in Nat /\ 5 <= BufferSize
    /\ MaxLength \in Nat
    /\ \A n \in 0..MaxLength : Len(AppendNat(n)) + 3 <= BufferSize

IsNat(s) == s # <<>> /\ ToSet(s) \subseteq ToSet(Digits)
Signs == {"-", "+"}
IsInt(s) == IsNat(s) \/ (s # <<>> /\ Head(s) \in Signs /\ IsNat(Tail(s)))

\* ParseInt64 and ParseFloat64 (below) of what IsInt and IsFloat accept; no
\* caller passes an empty text.
ParseInt64(s) ==
    LET value[i \in 0..Len(s)] ==
          IF i = 0 THEN 0
          ELSE IF s[i] \in Signs THEN 0
          ELSE 10 * value[i - 1] + DigitValue(s[i])
    IN  IF Head(s) = "-" THEN -value[Len(s)] ELSE value[Len(s)]

\* The shortest form of a float.  Floats are not negative here and have at
\* most one decimal; the other notations of strconv (a sign, an exponent, Inf,
\* more decimals) are left out, and no text of a model is written in one.
AppendFloat(n) == AppendInt(n \div 10)
                  \o IF n % 10 = 0 THEN <<>> ELSE <<".", Digit(n % 10)>>

Point(s) == Index(s, ".")
IsFloat(s) == \/ IsNat(s)
              \/ /\ Point(s) = Len(s) - 1 /\ Point(s) > 1
                 /\ IsNat(SubSeq(s, 1, Point(s) - 1)) /\ IsNat(<<Last(s)>>)
ParseFloat64(s) ==
    IF Point(s) = 0 THEN 10 * ParseInt64(s)
    ELSE ParseInt64(SubSeq(s, 1, Point(s) - 1) \o <<Last(s)>>)

Fprint(v) ==
    CASE v.type \in {"string", "other", "error"} -> v.text
      [] v.type = "int64" -> AppendInt(v.int)
      [] v.type = "float64" -> AppendFloat(v.tenths)
      [] v.type = "bool" -> IF v.bool THEN <<"true">> ELSE <<"false">>
      [] v.type = "byte" -> <<Code>>
      [] v.type = "bytes" ->
           <<"[">> \o Join(Map(LAMBDA ch : <<Code>>, v.text)) \o <<"]">>
      [] v.type = "nil" -> <<"<nil>">>
      \* The length before it makes what is inside irrelevant to the format.
      [] v.type \in {"array", "map"} -> <<"[", "]">>

-----------------------------------------------------------------------------
(* Writing                                                                 *)

WriteLen(prefix, n) == <<prefix>> \o AppendInt(n) \o Delims
WriteString(s)  == <<"+">> \o s \o Delims
WriteByte(b)    == <<"&", b>> \o Delims
WriteBytes(b)   == WriteLen("$", Len(b)) \o b \o Delims
WriteInt64(n)   == WriteLen(":", n)
WriteFloat64(n) == <<".">> \o AppendFloat(n) \o Delims
WriteBool(b)    == <<"?", IF b THEN "1" ELSE "0">> \o Delims
WriteError(e)   == <<"-", "ERR ">> \o e \o Delims
WriteNull       == <<"$", "-", "1">> \o Delims
WriteBulk(data) == WriteLen("*", Len(data)) \o FlattenSeq(Map(WriteBytes, data))

WriteInterface(v) ==
    CASE v.type = "string"  -> WriteString(v.text)
      [] v.type = "int64"   -> WriteInt64(v.int)
      [] v.type = "float64" -> WriteFloat64(v.tenths)
      [] v.type = "bool"    -> WriteBool(v.bool)
      [] v.type = "byte"    -> WriteByte(v.byte)
      [] v.type = "bytes"   -> WriteBytes(v.text)
      [] v.type = "nil"     -> WriteNull
      [] v.type \in {"other", "error", "array", "map"} -> WriteBytes(Fprint(v))

WriteArray(args) ==
    WriteLen("*", Len(args)) \o FlattenSeq(Map(WriteInterface, args))

\* json is the encoding of an object.
WriteJson(json) == <<"~", "json">> \o Delims \o WriteBytes(json)

\* The three WriteCommand; args are values, of which redis and line print
\* the text.
WriteCommand(protocol, cmd, args) ==
    CASE protocol = "redis" -> WriteBulk(<<cmd>> \o Map(Fprint, args))
      [] protocol = "line"  -> Join(<<cmd>> \o Map(Fprint, args)) \o Delims
      [] protocol = "interface" -> WriteArray(<<Bytes(cmd)>> \o args)

-----------------------------------------------------------------------------
(* Reading.  A reader takes what has arrived and finds a value and what is *)
(* left, an error, or that it has to wait for more.  A panic (a negative   *)
(* length) counts as an error: RunClient recovers from it and ends the     *)
(* session; in the client, where only a text with a line break leads to    *)
(* one, it would end the program.                                          *)

Ok(v, rest) == [st |-> "ok", val |-> v, rest |-> rest]
Err  == [st |-> "err"]
More == [st |-> "more"]

\* The next reader takes over from one that succeeded.  (Ranging over the set
\* makes TLC evaluate the first one once.)
Then(first, Next(_, _)) ==
    CHOOSE r \in {IF f.st = "ok" THEN Next(f.val, f.rest) ELSE f : f \in {first}}
        : TRUE

Drop(s, n) == SubSeq(s, n + 1, Len(s))

\* bufio.Reader.ReadSlice (external): a line and its LF, if the buffer can
\* hold it.
ReadSlice(s) ==
    LET i == Index(s, LF)
    IN  IF i \in 1..BufferSize THEN Ok(SubSeq(s, 1, i), Drop(s, i))
        ELSE IF i = 0 /\ Len(s) < BufferSize THEN More ELSE Err

\* The lines of the line protocol, which need not end in CR LF.
ReadLineInvariant(s) ==
    Then(ReadSlice(s), LAMBDA packet, rest :
        LET i == Len(packet) - 1
        IN  IF i = 0 THEN Err
            ELSE IF packet[i] \in {CR, SP}
                   THEN Ok(SubSeq(packet, 1, i - 1), rest)
                   ELSE Ok(SubSeq(packet, 1, i), rest))

ReadLine(s) ==
    Then(ReadSlice(s), LAMBDA packet, rest :
        LET i == Len(packet) - 1
        IN  IF i > 0 /\ packet[i] = CR THEN Ok(SubSeq(packet, 1, i - 1), rest)
                                       ELSE Err)

\* A line that begins with a prefix and has something after it.
ReadPrefixed(s) ==
    Then(ReadLine(s), LAMBDA line, rest :
        IF Len(line) < 2 THEN Err ELSE Ok(line, rest))

\* What follows the line "$n": n bytes and the end of a line, or nothing.
Payload(line, s) ==
    LET n == ParseInt64(Tail(line))
    IN  IF ~IsInt(Tail(line)) \/ n < -1 THEN Err
        ELSE IF n = -1 THEN Ok(Null, s)
        ELSE IF Len(s) < n THEN More
        ELSE Then(ReadLine(Drop(s, n)), LAMBDA end, rest :
               IF end = <<>> THEN Ok(Bytes(SubSeq(s, 1, n)), rest) ELSE Err)

ReadPayload(s) ==
    Then(ReadPrefixed(s), LAMBDA line, rest :
        IF line[1] = "$" THEN Payload(line, rest) ELSE Err)

\* One more item after those got, and n items, each read by reader.
ReadItem(got, reader) ==
    Then(got, LAMBDA items, s :
        Then(reader[s], LAMBDA v, rest : Ok(Append(items, v), rest)))

ReadItems(n, s, reader) ==
    LET got[i \in 0..n] == IF i = 0 THEN Ok(<<>>, s)
                           ELSE ReadItem(got[i - 1], reader)
    IN  got[n]

ReadArray(line, s, reader) ==
    IF IsInt(Tail(line)) /\ ParseInt64(Tail(line)) >= 0
      THEN Then(ReadItems(ParseInt64(Tail(line)), s, reader),
                LAMBDA items, rest : Ok(Array(items), rest))
      ELSE Err

ReadBulkPayload(s) ==
    Then(ReadPrefixed(s), LAMBDA line, rest :
        IF line[1] = "*"
          THEN ReadArray(line, rest, [w \in Text |-> ReadPayload(w)]) ELSE Err)

\* The decoding of the value that follows the line "~name".
ReadEncoded(name, s, inner) ==
    Then(inner[s], LAMBDA v, rest :
        IF name = <<"json">> /\ v.type = "bytes" THEN Ok(Json, rest) ELSE Err)

Markers == {"$", "*", "&", "+", ":", ".", "?", "-", "~"}

\* The value that a line begins; inner reads the values inside it.
Value(line, rest, inner) ==
    LET prefix == Head(line)
        arg    == Tail(line)
    IN  CASE prefix = "$" -> Payload(line, rest)
          [] prefix = "*" -> ReadArray(line, rest, inner)
          [] prefix = "&" -> Ok(Byte(arg[1]), rest)
          [] prefix = "+" -> Ok(String(arg), rest)
          [] prefix = ":" -> IF IsInt(arg) THEN Ok(Int64(ParseInt64(arg)), rest)
                             ELSE Err
          [] prefix = "." -> IF IsFloat(arg)
                               THEN Ok(Float(ParseFloat64(arg)), rest) ELSE Err
          [] prefix = "?" -> Ok(Bool(arg[1] = "1"), rest)
          [] prefix = "-" -> Ok(Error(arg), rest)
          [] prefix = "~" -> ReadEncoded(arg, rest, inner)
          [] prefix \notin Markers -> Err

ReadValue(s, inner) ==
    Then(ReadPrefixed(s), LAMBDA line, rest : Value(line, rest, inner))

\* readInterface calls itself for the values inside a value, which are
\* shorter: no more often than s is long.
ReadInterface(s) ==
    LET read[depth \in 0..Len(s)] ==
          [w \in Text |-> IF depth = 0 THEN More
                          ELSE ReadValue(w, read[depth - 1])]
    IN  read[Len(s)][s]

\* Variant: only the first space separates.
SplitOnce(s) ==
    LET i == Index(s, SP)
    IN  IF i = 0 THEN <<s>> ELSE <<SubSeq(s, 1, i - 1), Drop(s, i)>>

\* bytes.Split(line, " "): a space starts a part, another symbol goes to the
\* end of the last one.
Extended(parts, ch) == IF ch = SP THEN Append(parts, <<>>)
                       ELSE Append(Front(parts), Append(Last(parts), ch))
Split(s) ==
    LET split[i \in 0..Len(s)] ==
          IF i = 0 THEN << <<>> >> ELSE Extended(split[i - 1], s[i])
    IN  split[Len(s)]

\* readBulk of the line protocol.
ReadBulk(s) ==
    Then(ReadLineInvariant(s), LAMBDA line, rest :
        IF Len(line) < 2 THEN Err ELSE Ok(Array(Map(Bytes, Split(line))), rest))

\* What RunClient of each protocol reads.
ReadRequest(protocol, s) ==
    CASE protocol = "redis" -> ReadBulkPayload(s)
      [] protocol = "line"  -> ReadBulk(s)
      [] protocol = "interface" -> ReadInterface(s)
=============================================================================
