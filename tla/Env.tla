--------------------------------- MODULE Env ---------------------------------
(***************************************************************************)
(* sylar::Env (env.h, env.cpp): the command line as a map, and the place   *)
(* of the configuration.  A word is a key ("-d" is the key d; a lone "-"   *)
(* has no name) or a value.                                                *)
(***************************************************************************)
EXTENDS Naturals, Sequences

Key(name) == [kind |-> "key", text |-> name]
Value(text) == [kind |-> "value", text |-> text]

NoKey == Value("nullptr")

\* add(): a later value replaces an earlier one.
Add(m_args, word, text) ==
  [key \in DOMAIN m_args \cup {word.text} |-> IF key = word.text THEN text ELSE m_args[key]]

\* now_key without a value.
AddPending(s) == IF s.now_key = NoKey THEN s.m_args ELSE Add(s.m_args, s.now_key, "")

\* Mutant: a key that follows a key replaces it.
MutNextWord(s, word) ==
  IF ~s.ok THEN s
  ELSE IF word.kind = "key"
  THEN IF word.text = "" THEN [s EXCEPT !.ok = FALSE] ELSE [s EXCEPT !.now_key = word]
  ELSE IF s.now_key = NoKey THEN [s EXCEPT !.ok = FALSE]
  ELSE [s EXCEPT !.m_args = Add(@, s.now_key, word.text), !.now_key = NoKey]

\* One round of the loop; after "return false" nothing more happens.
NextWord(s, word) ==
  IF ~s.ok THEN s
  ELSE IF word.kind = "key"
  THEN IF word.text = "" THEN [s EXCEPT !.ok = FALSE]
       ELSE [s EXCEPT !.m_args = AddPending(s), !.now_key = word]
  ELSE IF s.now_key = NoKey THEN [s EXCEPT !.ok = FALSE]
  ELSE [s EXCEPT !.m_args = Add(@, s.now_key, word.text), !.now_key = NoKey]

\* Env::init(argc, argv): what it returns and leaves in m_args.
EnvInit(argv) ==
  LET loop[i \in 0..Len(argv)] ==
        IF i = 0 THEN [ok |-> TRUE, m_args |-> <<>>, now_key |-> NoKey] ELSE NextWord(loop[i - 1], argv[i])
      s == loop[Len(argv)]
  IN [ok |-> s.ok, m_args |-> IF s.ok THEN AddPending(s) ELSE s.m_args]

Has(m_args, key) == key \in DOMAIN m_args

Get(m_args, key, default_value) == IF Has(m_args, key) THEN m_args[key] ELSE default_value

\* getAbsolutePath() for a directory: an empty name is the root of the file system.
AbsolutePath(path) == IF path = "" THEN "/" ELSE path

ConfigPath(m_args) == AbsolutePath(Get(m_args, "c", "conf"))
=============================================================================
