--------------------------- MODULE MCExperimental ---------------------------
EXTENDS Grammar

VARIABLE subject  \* what the behaviour is about
CONSTANT Subjects

SeqsUpTo(S, n_) == UNION {[1..k -> S] : k \in 0..n_}

-----------------------------------------------------------------------------
(* Texts to lex *)

BracketPieces == {<<"(">>, <<")">>, <<"[">>, <<"]">>, <<"{">>, <<"}">>}
Pieces == {<<"a">>, <<".">>, <<"0">>, <<" ">>, <<"nl">>, <<"\"", "a", "\"">>, <<"b", "\"", "a", "\"">>, <<"/", "*">>, <<"*", "/">>, <<"/", "/">>, <<"`">>,
           <<"'">>, <<"ghost">>, <<"(">>, <<")">>, <<"i","f">>, <<"i", "n">>, <<"f">>, <<"accent">>, <<"&">>, <<"bad">>, <<"nul">>, <<"bom">>}
NumberChars == {"0", "1", "8", "x", "b", "e", "-", ".", "u", "_"}
StringChars == {"\"", "\\", "x", "u", "a", "0", "7", "nl", "nul"}
MCTexts ==
  {FlattenSeq(p) : p \in SeqsUpTo(BracketPieces, 4)} \cup {FlattenSeq(p) : p \in SeqsUpTo(Pieces, 3)}
    \cup {<<d>> \o s : d \in {"0", "1", "."}, s \in SeqsUpTo(NumberChars, 3)} \cup {<<"\"">> \o s : s \in SeqsUpTo(StringChars, 3)}

-----------------------------------------------------------------------------
(* Files to parse: these, and those that one word more, one less or another one makes of them; and all short ones. *)

Proto2 == <<"syntax", "=", "\"proto2\"", ";">>
Proto3 == <<"syntax", "=", "\"proto3\"", ";">>
Edition2024 == <<"edition", "=", "\"2024\"", ";">>
Sentences == {
  Proto2 \o <<"message", "a", "{", "optional", "a", "b", "=", "1", ";", "}">>,
  Proto3 \o <<"message", "a", "{", "a", ".", "b", "c", "=", "1", "[", "a", "=", "1", "]", ";", "map", "<", "a", ",", "b", ">", "c", "=", "1", ";", "}">>,
  <<"message", "a", "{", "oneof", "b", "{", "c", "d", "=", "1", ";", "group", "Group", "=", "1", "{", "}", "}", "}">>,
  <<"enum", "a", "{", "b", "=", "1", ";", "reserved", "\"s\"", ";", "}">>,
  <<"extend", "a", ".", "b", "{", "repeated", "c", "d", "=", "1", ";", "}">>,
  <<"service", "a", "{", "rpc", "b", "(", "c", ")", "returns", "(", "stream", "d", ")", "{", "option", "a", "=", "1", ";", "}", "}">>,
  Edition2024 \o <<"export", "enum", "a", "{", "reserved", "b", ";", "}">>,
  Edition2024 \o <<"import", "option", "\"s\"", ";", "option", "a", ".", "(", "b", ")", "=", "{", "c", ":", "1", "}", ";">>,
  <<"package", "a", ".", "b", ".", "c", ";", "import", "public", "\"s\"", ";">>,
  <<";", "package", "a", ";", "message", "a", "{", "extensions", "1", "to", "2", ",", "1", ";", "}">>,
  <<"option", "a", "=", "{", "[", "a", "]", ":", "[", "1", "]", ",", "b", "<", "c", ":", "-", "1", ">", "}", ";">>}
Words == {"a", ".", "(", "{", "1", ";", "stream", "optional"}
Replaced(x) == {[x EXCEPT ![i] = w] : i \in DOMAIN x, w \in Words}
Shorter(x) == {SubSeq(x, 1, i - 1) \o SubSeq(x, i + 1, Len(x)) : i \in DOMAIN x}
Longer(x) == {SubSeq(x, 1, i) \o <<w>> \o SubSeq(x, i + 1, Len(x)) : i \in 0..Len(x), w \in Words}
MCFiles == SeqsUpTo({"a", ".", "(", "{", "}", "=", "1", ";", "<", ">"}, 3)
             \cup {<<"reserved">> \o s : s \in SeqsUpTo({"1", "a", ",", "nl"}, 3)}
             \cup UNION {{x} \cup Replaced(x) \cup Shorter(x) \cup Longer(x) : x \in Sentences}

-----------------------------------------------------------------------------

ExperimentalInit == subject \in Subjects /\ TokensInit /\ LegalInit
TokensSteps == subject = "text" /\ TokensNext /\ UNCHANGED <<subject, legalVars>>
LegalSteps == subject = "file" /\ LegalNext /\ UNCHANGED <<subject, tokenVars>>
ExperimentalNext == TokensSteps \/ LegalSteps
ExperimentalSpec == ExperimentalInit /\ [][ExperimentalNext]_<<subject, tokenVars, legalVars>>
=============================================================================
