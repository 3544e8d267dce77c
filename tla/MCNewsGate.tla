----------------------------- MODULE MCNewsGate -----------------------------
(* Small instances of NewsGate for TLC. *)
EXTENDS NewsGate

ASSUME CaseKeepsAscii /\ PlainNames /\ GrayBetween

\* Letters a and b, a capital, a Chinese character and the blank.
MCLower == [c \in {"a", "A", "b", "M", " "} |-> IF c = "A" THEN "a" ELSE c]

Entry(ticker, names, sectors, macros) ==
  [ticker |-> ticker, names |-> names, sectors |-> sectors, macros |-> macros]

NoKeywords == [m \in WatchMarkets |-> {}]

\* A ticker "A" in sector "b" in America, a ticker in the sector of the same
\* name in China, known by a Chinese character and by two words too.
Base ==
  [entries |-> [us |-> {Entry(<<"A">>, {}, {<<"b">>}, {})},
                cn |-> {Entry(<<"a", "b">>, {<<"M">>, <<"b", " ", "a">>}, {<<"b">>}, {})}],
   sectors |-> [us |-> {<<"b">>}, cn |-> {<<"b">>}],
   macros |-> NoKeywords, generic |-> NoKeywords,
   rules |-> TRUE, llm |-> FALSE, action |-> "digest"]

\* The Chinese entry names a sector only America lists: refused by the file.
Unlisted == [Base EXCEPT !.sectors["cn"] = {}]

WithModels == [Base EXCEPT !.llm = TRUE]
ModelsOnly == [Base EXCEPT !.rules = FALSE, !.llm = TRUE]

MCWatchlists == {Base, Unlisted, WithModels, ModelsOnly,
                 [Base EXCEPT !.action = "skip",
                              !.macros = [us |-> {<<"M">>}, cn |-> {}],
                              !.generic = [us |-> {}, cn |-> {<<"M", "a">>}]]}

MCTitles ==
  {<<"A">>, <<"b">>, <<"M">>, <<"A", "b">>, <<"b", "A">>, <<"M", "A">>, <<"A", "M">>,
   <<"b", "A", "M">>, <<"M", "b", "M">>, <<"A", "b", "A">>,
   <<"b", " ", "A">>, <<"b", "b", " ", "A">>}
MCArticles ==
  [source : {"juchao"}, title : {<<"A">>, <<"b">>}, body : {<<>>, <<"b">>}]
  \cup [source : {"sina"}, title : MCTitles, body : {<<>>}]
  \cup [source : {"sina"}, title : {<<"A">>}, body : {<<"b">>}]

\* A strong filing (95), an upgrade that is below or in the gray zone, and an
\* answer no enum knows.
MCAnswers ==
  {[event |-> "filing", sentiment |-> "bullish", magnitude |-> "high"],
   [event |-> "upgrade", sentiment |-> "neutral", magnitude |-> "high"],
   [event |-> "rumour", sentiment |-> "mixed", magnitude |-> "high"]}
=============================================================================
