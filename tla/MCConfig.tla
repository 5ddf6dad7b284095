------------------------------ MODULE MCConfig ------------------------------
(***************************************************************************)
(* Config on small inputs.                                                 *)
(***************************************************************************)
EXTENDS Config

CONSTANTS
  a, b,          \* two files
  MaxPattern,    \* every pattern up to this length is tried
  MaxWords       \* every command line up to this length is tried

Member(name, val) == [name |-> name, val |-> val, valid |-> TRUE]
Misspelt(member) == [member EXCEPT !.valid = FALSE]

Console(pattern) == [type |-> "stdout", file |-> NotDefined, pattern |-> pattern]
LogFile(name) == [type |-> "file", file |-> name, pattern |-> NotDefined]
Log(name, level, appenders) == [name |-> name, level |-> level, appenders |-> appenders]

SystemLog == Log("system", "DEBUG", <<Console(NotDefined), LogFile("log.txt")>>)

MCDirectory == a :> {"conf", "/"} @@ b :> {"other", "/"}

MCContents ==
  { Broken,
    <<>>,
    <<Member("timeout", -1), Member("logs", <<SystemLog>>)>>,
    <<Member("logs", <<Log("root", "ERROR", <<Console(<<"%", "m">>)>>), SystemLog>>),
      Misspelt(Member("timeout", 8))>>,
    <<Member("logs", <<Log("system", "", <<LogFile(NotDefined), LogFile("log.txt")>>),
                       Log("system", "INFO", <<>>)>>),
      Member("timeout", NotANumber), Member("unknown", 1)>>,
    <<Member("logs", <<SystemLog, Log(NotDefined, "INFO", <<>>)>>), Member("timeout", 5)>> }

Patterns ==
  SeqOf(Characters \ {"n", "H"}, MaxPattern)
    \cup {FlattenSeq(s) : s \in SeqOf({<<"%", "d", "{", "%", "H", "}">>, <<"%", "d">>, <<"%", "m">>,
                                        <<"%", "%">>, <<"x">>, <<"%", "x">>}, 3)}

Words == {Key("d"), Key("c"), Key(""), Value("other"), Value("")}

NoChange == [argv |-> <<>>, content |-> (a :> <<>> @@ b :> <<>>), loads |-> 1, edits |-> 0, sets |-> 0]

MCInputs ==
  {[NoChange EXCEPT !.content = a :> <<Member("logs", <<Log("system", "INFO", <<Console(p)>>)>>)>> @@ b :> <<>>] :
     p \in Patterns}
  \cup
  {[NoChange EXCEPT !.argv = words, !.content = [f \in {a, b} |-> <<Member("logs", <<SystemLog>>)>>]] :
     words \in SeqOf(Words, MaxWords)}
  \cup
  {[argv |-> words, content |-> (a :> first @@ b :> <<Member("timeout", 9)>>), loads |-> 2, edits |-> 2, sets |-> 1] :
     words \in {<<>>, <<Key("c"), Key("d")>>}, first \in {Broken, <<Member("timeout", -1), Member("logs", <<SystemLog>>)>>}}
=============================================================================
