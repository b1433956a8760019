--------------------------- MODULE MCConversation ---------------------------
(* A model of Conversation for TLC: arguments of every type; texts that    *)
(* are empty, hold a space or exceed the buffer; texts with a line break   *)
(* that leave a string, an empty array or the start of an array behind it. *)
EXTENDS Conversation

MCSymbols == {CR, LF, SP, "$", "*", "&", "+", ":", ".", "?", "-", "~", "ERR ",
              "json", "true", "false", "[", "]", "<nil>", Code, "b", "T"}
             \cup ToSet(Digits) \cup ToSet(Words)
             \cup UNION {ToSet(cmd) : cmd \in Commands \cup {NOPE}}

MCItems == {<<>>, <<"a">>, <<"a", SP, "b">>, <<"+", "1", "2">>, <<"1", ".", "5">>,
            <<"T">>, <<"a", "a", "a", "a", "a", "a", "a", "a">>}

MCValues == {String(t) : t \in {<<>>, <<"a">>, <<"a", LF, "b">>,
                                <<"a", CR, LF, "+", "b">>, <<"a", CR>>,
                                <<"a", CR, LF, "*", "2">>,
                                <<"a", CR, LF, "*", "0", CR, LF, "*", "1">>}}
            \cup {Int64(-12), Float(20), Bool(FALSE), Null, Byte(LF),
                  Bytes(<<"a", LF>>), Other(<<"a", CR, LF>>)}
=============================================================================
