------------------------------- MODULE Config -------------------------------
(***************************************************************************)
(* A program's configuration (config.h, config.cpp): Env::init(), then     *)
(* LoadFromConfDir() as often as the program likes, while somebody edits   *)
(* the files and another thread calls setValue().  Two variables have      *)
(* listeners: "logs" (Logging) and "timeout", tcp.connect.timeout, which   *)
(* hook.cpp copies into s_connect_timeout.                                 *)
(*                                                                         *)
(* A file is Broken for YAML::LoadFile(), or a sequence of members in the  *)
(* order of ListAllMember(): a name, a value, and whether every key on the *)
(* way to it is spelt with the permitted characters.                       *)
(*                                                                         *)
(* setValue() is two steps, as it takes two locks: the comparison and the  *)
(* listeners under the read lock, the store under the write lock.          *)
(***************************************************************************)
EXTENDS Integers, Sequences, FiniteSets, Logging, Env

CONSTANTS
  Inputs,      \* command lines, files and bounds to start from
  Loggers,     \* names of loggers, "root" among them
  Directory,   \* where each file is, on every path above it too
  Contents,    \* what an editor may write into a file
  Timeouts,    \* what the other thread may set
  DefaultTimeout,
  UintRange,   \* the number of values of a uint64_t, 2^64
  Broken,
  NotANumber,  \* a value that is no integer
  NoFile,
  Client,      \* the other thread
  SameSecond   \* may a file change twice within one second of st_mtime?

Files == DOMAIN Directory

ASSUME ConfigAssumption ==
  /\ "root" \in Loggers
  /\ SameSecond \in BOOLEAN
  /\ DefaultTimeout \in Int /\ Timeouts \subseteq Int /\ UintRange \in Nat \ {0}
  /\ NoFile \notin Files /\ Client \notin Files /\ Client # NoFile

\* A node for a logger, and a member of a file.
IsNode(node) ==
  /\ node.name \in Loggers \cup {NotDefined}
  /\ node.appenders \in Seq(Range(node.appenders))
  /\ \A appender \in Range(node.appenders) : appender.pattern \in {NotDefined} \cup Seq(Characters)

IsMember(member) ==
  /\ member.name = "timeout" => member.val \in Int \cup {NotANumber}
  /\ member.name = "logs" => member.val \in Seq(Range(member.val)) /\ \A node \in Range(member.val) : IsNode(node)

\* What YAML::LoadFile() may find in a file.
IsContent(c) == c = Broken \/ (c \in Seq(Range(c)) /\ \A member \in Range(c) : IsMember(member))

ASSUME InputsAssumption ==
  /\ \A c \in Contents : IsContent(c)
  /\ \A input \in Inputs :
       /\ input.argv \in Seq([kind : {"key", "value"}, text : STRING])
       /\ input.content = [f \in Files |-> input.content[f]]
       /\ \A f \in Files : IsContent(input.content[f])

VARIABLES
  argv, m_args,       \* the command line; Env's map
  content, mtime,     \* of each file
  s_file2modifytime,
  m_val,              \* of the two ConfigVars
  m_loggers,          \* LoggerManager
  s_connect_timeout,
  pc, force,          \* of the thread that loads
  todo,               \* the files it has listed and not looked at
  file,               \* the one it is at, with the st_mtime it saw
  members,            \* what is left of all_nodes
  client,             \* the other thread's value between its two locks, or none
  loads, edits, sets, \* bounds: how many more there may be
  setter, raced,      \* history: who stored last; setValue() calls overlapped
  configured          \* history: loggers "logs" has ever named

loader == <<pc, force, todo, file, members>>
filesystem == <<content, mtime>>
values == <<m_val, m_loggers, s_connect_timeout, configured>>
bounds == <<loads, edits, sets>>
vars == <<argv, m_args, filesystem, s_file2modifytime, values, loader, client, bounds, setter, raced>>

\* An int becomes a uint64_t in s_connect_timeout: a negative timeout is a long one.
Unsigned(val) == val % UintRange

Nothing == [file |-> NoFile, st_mtime |-> 0]

\* Static initialisation: Lookup() registers the variables with their defaults,
\* the listeners are added.
Init ==
  /\ \E input \in Inputs :
       /\ argv = input.argv
       /\ content = input.content
       /\ loads = input.loads /\ edits = input.edits /\ sets = input.sets
  /\ mtime = [f \in Files |-> 1]
  /\ m_args = <<>>
  /\ s_file2modifytime = [f \in Files |-> 0]
  /\ m_val = [logs |-> {}, timeout |-> DefaultTimeout]
  /\ m_loggers = [name \in Loggers |-> NewLogger(name)]
  /\ s_connect_timeout = Unsigned(DefaultTimeout)
  /\ pc = "main" /\ force = FALSE /\ todo = {} /\ file = Nothing /\ members = <<>>
  /\ client = <<>>
  /\ setter = [v \in {"logs", "timeout"} |-> NoFile]
  /\ raced = FALSE /\ configured = {}

\* main() goes on whatever Env::init() returns, as most tests do.
InitEnv ==
  /\ pc = "main"
  /\ m_args' = EnvInit(argv).m_args
  /\ pc' = "idle"
  /\ UNCHANGED <<argv, force, filesystem, s_file2modifytime, values, todo, file, members, client, bounds,
                 setter, raced>>

-----------------------------------------------------------------------------
(* Config::LoadFromConfDir(EnvMgr::GetInstance()->getConfigPath(), force)  *)

\* FSUtil::ListAllFile() for ".yml"; readdir() returns files in any order.
Listing == {f \in Files : ConfigPath(m_args) \in Directory[f]}

LoadFromConfDir ==
  /\ pc = "idle" /\ loads > 0
  /\ force' \in BOOLEAN
  /\ loads' = loads - 1
  /\ todo' = Listing
  /\ pc' = "next"
  /\ UNCHANGED <<argv, m_args, filesystem, s_file2modifytime, values, file, members, client, edits,
                 sets, setter, raced>>

\* lstat(), before s_mutex is taken.
Stat(f) ==
  /\ pc = "next" /\ f \in todo
  /\ todo' = todo \ {f}
  /\ file' = [file |-> f, st_mtime |-> mtime[f]]
  /\ pc' = "check"
  /\ UNCHANGED <<argv, m_args, force, filesystem, s_file2modifytime, values, members, client, bounds, setter,
                 raced>>

\* Under s_mutex: an unchanged file is left out unless force is set; the time is
\* written down before the file is read.
CheckTime ==
  /\ pc = "check"
  /\ IF ~force /\ s_file2modifytime[file.file] = file.st_mtime
     THEN pc' = "next" /\ UNCHANGED s_file2modifytime
     ELSE /\ s_file2modifytime' = [s_file2modifytime EXCEPT ![file.file] = file.st_mtime]
          /\ pc' = "read"
  /\ UNCHANGED <<argv, m_args, force, filesystem, values, todo, file, members, client, bounds, setter, raced>>

\* ListAllMember() prunes what has a key with another character in its name.
ListAllMember(root) == Subsequence(root, {i \in DOMAIN root : root[i].valid})

\* YAML::LoadFile(); what it throws ends the work on this file.
ReadFile ==
  /\ pc = "read"
  /\ IF content[file.file] = Broken THEN pc' = "next" /\ UNCHANGED members
     ELSE pc' = "apply" /\ members' = ListAllMember(content[file.file])
  /\ UNCHANGED <<argv, m_args, force, filesystem, s_file2modifytime, values, todo, file, client, bounds,
                 setter, raced>>

\* Does FromStr{}(val) return?  boost::lexical_cast<int> throws for other text.
FromStrReturns(member) ==
  IF member.name = "logs" THEN LogsConvert(member.val) ELSE member.val # NotANumber

FromStr(member) == IF member.name = "logs" THEN Logs(member.val) ELSE member.val

\* A name LookupBase() finds, a value that can be converted (the exception of one
\* that cannot is swallowed by fromString()), and not the value the variable has.
Effective(member) ==
  /\ member.name \in DOMAIN m_val
  /\ FromStrReturns(member)
  /\ m_val[member.name] # FromStr(member)

Skip ==
  /\ pc = "apply" /\ members # <<>>
  /\ ~Effective(Head(members))
  /\ members' = Tail(members)
  /\ UNCHANGED <<argv, m_args, force, filesystem, s_file2modifytime, values, pc, todo, file, client, bounds,
                 setter, raced>>

\* The listeners of a variable, under its read lock.
Notify(name, val, beyond) ==
  IF name = "timeout" THEN s_connect_timeout' = Unsigned(val) /\ UNCHANGED <<m_loggers, configured>>
  ELSE /\ m_loggers' = OnLogsChange(m_loggers, m_val.logs, val, Has(m_args, "d"), beyond)
       /\ configured' = configured \cup {def.m_name : def \in val}
       /\ UNCHANGED s_connect_timeout

SetValue(beyond) ==
  /\ pc = "apply" /\ members # <<>>
  /\ Effective(Head(members))
  /\ Notify(Head(members).name, FromStr(Head(members)), beyond)
  /\ raced' = (raced \/ (client # <<>> /\ Head(members).name = "timeout"))
  /\ pc' = "store"
  /\ UNCHANGED <<argv, m_args, force, filesystem, s_file2modifytime, m_val, todo, file, members, client, bounds,
                 setter>>

\* Under the write lock.
StoreValue ==
  /\ pc = "store"
  /\ m_val' = [m_val EXCEPT ![Head(members).name] = FromStr(Head(members))]
  /\ setter' = [setter EXCEPT ![Head(members).name] = file.file]
  /\ members' = Tail(members)
  /\ pc' = "apply"
  /\ UNCHANGED <<argv, m_args, force, filesystem, s_file2modifytime, m_loggers, s_connect_timeout, configured,
                 todo, file, client, bounds, raced>>

\* Mutant: the time is written down, again, when the file has been applied.
MutFileDone ==
  /\ pc = "apply" /\ members = <<>>
  /\ pc' = "next"
  /\ s_file2modifytime' = [s_file2modifytime EXCEPT ![file.file] = mtime[file.file]]
  /\ UNCHANGED <<argv, m_args, force, filesystem, values, todo, file, members, client, bounds, setter,
                 raced>>

\* The end of a file, and of LoadFromConfDir().
FileDone ==
  /\ pc = "apply" /\ members = <<>>
  /\ pc' = "next"
  /\ UNCHANGED <<argv, m_args, force, filesystem, s_file2modifytime, values, todo, file, members, client, bounds,
                 setter, raced>>

LoadReturns ==
  /\ pc = "next" /\ todo = {}
  /\ pc' = "idle" /\ file' = Nothing
  /\ UNCHANGED <<argv, m_args, force, filesystem, s_file2modifytime, values, todo, members, client, bounds,
                 setter, raced>>

Load ==
  \/ LoadFromConfDir
  \/ \E f \in todo : Stat(f)
  \/ CheckTime \/ ReadFile \/ Skip \/ StoreValue \/ FileDone \/ LoadReturns
  \/ \E beyond \in BOOLEAN : SetValue(beyond)

-----------------------------------------------------------------------------
(* The other thread, and the editor.                                       *)

\* g_tcp_connect_timeout->setValue(val): unchanged, or its two steps.
ClientSetValue(val) ==
  /\ client = <<>> /\ sets > 0
  /\ sets' = sets - 1
  /\ m_val.timeout # val
  /\ s_connect_timeout' = Unsigned(val)
  /\ raced' = (raced \/ (pc = "store" /\ Head(members).name = "timeout"))
  /\ client' = <<val>>
  /\ UNCHANGED <<argv, m_args, filesystem, s_file2modifytime, m_val, m_loggers, configured, loader, loads,
                 edits, setter>>

ClientStore ==
  /\ client # <<>>
  /\ m_val' = [m_val EXCEPT !.timeout = client[1]]
  /\ setter' = [setter EXCEPT !.timeout = Client]
  /\ client' = <<>>
  /\ UNCHANGED <<argv, m_args, filesystem, s_file2modifytime, m_loggers, s_connect_timeout, configured,
                 loader, bounds, raced>>

\* A file is written; a file that is being written is Broken for a while.
Edit(f, new) ==
  /\ edits > 0
  /\ edits' = edits - 1
  /\ content' = [content EXCEPT ![f] = new]
  /\ \E seconds \in IF SameSecond THEN {0, 1} ELSE {1} :
       mtime' = [mtime EXCEPT ![f] = @ + seconds]
  /\ UNCHANGED <<argv, m_args, s_file2modifytime, values, loader, client, loads, sets, setter, raced>>

Next ==
  \/ InitEnv
  \/ Load
  \/ \E val \in Timeouts : ClientSetValue(val)
  \/ ClientStore
  \/ \E f \in Files, new \in Contents : Edit(f, new)

Spec == Init /\ [][Next]_vars

-----------------------------------------------------------------------------
\* Types of what configuration and files end in.
TypeOK ==
  /\ s_file2modifytime \in [Files -> Nat] /\ mtime \in [Files -> Nat \ {0}]
  /\ m_val.timeout \in Int /\ s_connect_timeout \in 0..(UintRange - 1)
  /\ \A def \in m_val.logs : def.m_name \in Loggers /\ def.level \in Levels
  /\ m_loggers \in [Loggers -> [m_level : Levels, m_appenders : Seq([type : {"file", "stdout"},
        pattern : Seq(Characters), formatter : [items : Seq(Items), error : BOOLEAN]])]]
  /\ pc \in {"main", "idle", "next", "check", "read", "apply", "store"}
  /\ todo \subseteq Files /\ file.file \in Files \cup {NoFile}
  /\ pc \in {"check", "read", "apply", "store"} => file.file # NoFile

\* What a file has to say about a variable.
Given(f, v) ==
  {i \in DOMAIN content[f] :
     content[f][i].valid /\ content[f][i].name = v /\ FromStrReturns(content[f][i])}

\* A file whose time is written down has been applied: its last convertible value
\* of every variable is the variable's value, unless another file or the other
\* thread has set that since.  Edits may fall between any two steps of a load; a
\* file that changes after its time was taken is loaded again.
LoadedIsCurrent ==
  pc = "idle" =>
    \A f \in Listing :
      content[f] # Broken /\ s_file2modifytime[f] = mtime[f] =>
        \A v \in DOMAIN m_val :
          Given(f, v) # {} /\ setter[v] \in {f, NoFile}
            => m_val[v] = FromStr(content[f][CHOOSE i \in Given(f, v) : \A j \in Given(f, v) : j <= i])

\* The first word that makes Env::init() return false, or 0.
Wrong ==
  LET Bad(i) == argv[i] = Key("") \/ (argv[i].kind = "value" /\ (i = 1 \/ argv[i - 1].kind = "value"))
      bad == {i \in DOMAIN argv : Bad(i)}
  IN IF bad = {} THEN 0 ELSE CHOOSE i \in bad : \A j \in bad : i <= j

\* The keys that count: the one an error interrupts does not.
Counted == {i \in DOMAIN argv : argv[i].kind = "key" /\ (Wrong = 0 \/ i < Wrong - 1)}

\* Env has exactly the keys of the command line, each with the word that follows
\* it where it stands last, or with nothing.
ArgsMean ==
  pc # "main" =>
    /\ DOMAIN m_args = {argv[i].text : i \in Counted}
    /\ \A i \in Counted :
         (\A j \in Counted : argv[j] = argv[i] => j <= i) =>
           m_args[argv[i].text] = IF i < Len(argv) /\ argv[i + 1].kind = "value"
                                  THEN argv[i + 1].text ELSE ""

\* Every appender prints what its pattern says, whatever that is made of:
\* text, escaped percent signs, items, dates with and without braces, and what is
\* left of a pattern with an error (LogFormatter::init()).
FormattersMean ==
  \A name \in Loggers : \A i \in DOMAIN m_loggers[name].m_appenders :
    LET appender == m_loggers[name].m_appenders[i]
        pattern == IF appender.pattern = <<>> THEN DefaultPattern ELSE appender.pattern
    IN Plain(pattern) => appender.formatter = Meant(pattern)

\* What "logs" asks of a logger: one it names has that level and, console apart
\* for daemons, those appenders in order; one it has named before is silent; the
\* others are as they were made.
LoggerFollows(name, logs) ==
  LET logger == m_loggers[name]
  IN IF Find(logs, name) # {}
     THEN \E def \in Find(logs, name) :
            LET made == Made(def.m_appenders, Has(m_args, "d"))
            IN /\ logger.m_level = def.level
               /\ DOMAIN logger.m_appenders = DOMAIN made
               /\ \A i \in DOMAIN made :
                    /\ logger.m_appenders[i].type = made[i].m_type
                    /\ logger.m_appenders[i].pattern = made[i].m_pattern
     ELSE logger = IF name \in configured THEN Silence ELSE NewLogger(name)

\* Variables and listeners agree whenever no setValue() is between its two locks:
\* every logger is what "logs" says, however many changes led there, and
\* s_connect_timeout is tcp.connect.timeout, as unsigned.  Only two overlapping calls for one
\* variable can leave them apart (config.h:281).
ListenersFollow ==
  pc # "store" =>
    /\ \A name \in Loggers : LoggerFollows(name, m_val.logs)
    /\ client = <<>> /\ ~raced => s_connect_timeout = Unsigned(m_val.timeout)
=============================================================================
