------------------------------- MODULE Logging -------------------------------
(***************************************************************************)
(* What sylar makes of the configuration variable "logs" (log.cpp): the    *)
(* conversion of YAML nodes to LogDefines, and the listener that brings    *)
(* the loggers from the old set of LogDefines to the new one.              *)
(*                                                                         *)
(* A YAML node for an appender has a type ("file", "stdout", another word, *)
(* or NotDefined), a file and a pattern; a node for a logger has a name, a *)
(* level and a sequence of appender nodes.                                 *)
(***************************************************************************)
EXTENDS Naturals, Sequences, FiniteSets, SequencesExt, LogFormatter

CONSTANT NotDefined    \* what a YAML node does not have

Levels == {"FATAL", "ALERT", "CRIT", "ERROR", "WARN", "NOTICE", "INFO", "DEBUG", "NOTSET"}

\* What is left of a sequence when only the places in keep stay.
Subsequence(seq, keep) ==
  LET kept[n \in 0..Len(seq)] ==
        IF n = 0 THEN <<>> ELSE IF n \in keep THEN Append(kept[n - 1], seq[n]) ELSE kept[n - 1]
  IN kept[Len(seq)]

\* Mutant: an unknown word is kept.
MutFromString(level) == level

\* LogLevel::FromString(), which takes small letters for capitals; "" stands for a
\* level that is not defined.
FromString(level) == IF level \in Levels THEN level ELSE "NOTSET"

\* The appenders that are not left out with an error message.
Usable(node) ==
  \/ node.type = "file" /\ node.file # NotDefined
  \/ node.type = "stdout"

\* A pattern that is not defined is the empty one; only file appenders have files.
LogAppenderDefine(node) ==
  [m_type |-> node.type,
   m_file |-> IF node.type = "file" THEN node.file ELSE NotDefined,
   m_pattern |-> IF node.pattern = NotDefined THEN <<>> ELSE node.pattern]

LogDefine(node) ==
  LET usable == Subsequence(node.appenders, {i \in DOMAIN node.appenders : Usable(node.appenders[i])})
  IN [m_name |-> node.name,
      level |-> FromString(node.level),
      m_appenders |-> [i \in DOMAIN usable |-> LogAppenderDefine(usable[i])]]

\* The conversion of a node throws without a name or with an appender of no type.
Converts(node) ==
  node.name # NotDefined /\ \A i \in DOMAIN node.appenders : node.appenders[i].type # NotDefined

\* LexicalCast<std::string, std::set<LogDefine>>: the first of two LogDefines with
\* one name stays.
LogsConvert(nodes) == \A i \in DOMAIN nodes : Converts(nodes[i])

Logs(nodes) ==
  {LogDefine(nodes[i]) : i \in {j \in 1..Len(nodes) : \A k \in 1..(j - 1) : nodes[k].name # nodes[j].name}}

-----------------------------------------------------------------------------
DefaultPattern == <<"%", "d", "{", "H", "}", "%", "m", "%", "n">>

ASSUME PatternAssumption == DefaultPattern \in Seq(Characters)

\* The appender made for a LogAppenderDefine; it does not look at m_error.
LogAppender(lad, beyond) ==
  [type |-> lad.m_type,
   pattern |-> lad.m_pattern,
   formatter |-> Formatter(IF lad.m_pattern = <<>> THEN DefaultPattern ELSE lad.m_pattern, beyond)]

\* No appenders on the console for a program that was started as a daemon.
Made(appenders, daemon) ==
  Subsequence(appenders, {i \in DOMAIN appenders : ~(appenders[i].m_type = "stdout" /\ daemon)})

\* setLevel(), clearAppenders() and the loop of addAppender().
Configure(def, daemon, beyond) ==
  LET made == Made(def.m_appenders, daemon)
  IN [m_level |-> def.level,
      m_appenders |-> [i \in DOMAIN made |-> LogAppender(made[i], beyond)]]

Silence == [m_level |-> "NOTSET", m_appenders |-> <<>>]

\* std::set::find() compares names.
Find(defines, name) == {def \in defines : def.m_name = name}

\* Mutant: a LogDefine counts as unchanged when the old set has its name.
MutOnLogsChange(m_loggers, old_value, new_value, daemon, beyond) ==
  [name \in DOMAIN m_loggers |->
     IF Find(new_value, name) # {} /\ Find(old_value, name) = {}
     THEN Configure(CHOOSE def \in Find(new_value, name) : TRUE, daemon, beyond)
     ELSE IF Find(new_value, name) = {} /\ Find(old_value, name) # {} THEN Silence
     ELSE m_loggers[name]]

\* The listener of "logs", of type on_change_cb.
OnLogsChange(m_loggers, old_value, new_value, daemon, beyond) ==
  [name \in DOMAIN m_loggers |->
     IF Find(new_value, name) \ old_value # {}
     THEN Configure(CHOOSE def \in Find(new_value, name) : TRUE, daemon, beyond)
     ELSE IF Find(new_value, name) = {} /\ Find(old_value, name) # {} THEN Silence
     ELSE m_loggers[name]]

\* A Logger before anything is configured, whether getLogger() has made it or will:
\* only root has an appender.
NewLogger(name) ==
  [m_level |-> "INFO",
   m_appenders |-> IF name = "root"
                   THEN <<LogAppender([m_type |-> "stdout", m_pattern |-> <<>>], TRUE)>>
                   ELSE <<>>]
=============================================================================
