---------------------------- MODULE ConfigProofs ----------------------------
(***************************************************************************)
(* For any files, command lines, patterns and loggers, and any number of   *)
(* loads, edits and setValue() calls:                                      *)
(*                                                                         *)
(* ListenersFollow.  A set of LogDefines has one for each name, the        *)
(* listener has seen every name the variable holds, and listeners run      *)
(* ahead of the store by exactly one value.                                *)
(*                                                                         *)
(* LoadedIsCurrent, if no file changes twice within a second.  A file      *)
(* whose time is written down will be read, is being applied member by     *)
(* member, or has been applied; an edit makes it newer than that time.     *)
(*                                                                         *)
(* ArgsMean.  A loop invariant of Env::init().                             *)
(*                                                                         *)
(* TypeOK and FormattersMean.  What yaml-cpp hands over is well formed     *)
(* (IsContent); converted, it is a set of LogDefines, and every appender   *)
(* of a logger was made from one of them, so that its formatter is what    *)
(* LogFormatterProofs says of its pattern.                                 *)
(***************************************************************************)
EXTENDS Config, LogFormatterProofs

\* setValue() of a variable is between its two locks, in the thread that loads.
Storing(name) == pc = "store" /\ Head(members).name = name

OneDefineEach(logs) == \A d, e \in logs : d.m_name = e.m_name => d = e

KnownNames(logs) == \A d \in logs : d.m_name \in configured

AllFollow(logs) == \A name \in Loggers : LoggerFollows(name, logs)

Shape ==
  /\ DOMAIN m_val = {"logs", "timeout"}
  /\ DOMAIN m_loggers = Loggers
  /\ pc = "store" => Storing("logs") \/ Storing("timeout")
  /\ pc = "main" => m_val.logs = {}

\* The loggers are what "logs" says, or what it is about to say.
LogsInv ==
  /\ OneDefineEach(m_val.logs) /\ KnownNames(m_val.logs)
  /\ Storing("logs") => AllFollow(FromStr(Head(members))) /\ KnownNames(FromStr(Head(members)))
  /\ ~Storing("logs") => AllFollow(m_val.logs)

\* So is s_connect_timeout, as long as calls have not overlapped.
TimeoutInv ==
  ~raced =>
    /\ client # <<>> => ~Storing("timeout") /\ s_connect_timeout = Unsigned(client[1])
    /\ client = <<>> /\ Storing("timeout") => s_connect_timeout = Unsigned(FromStr(Head(members)))
    /\ client = <<>> /\ ~Storing("timeout") => s_connect_timeout = Unsigned(m_val.timeout)

IInv == Shape /\ LogsInv /\ TimeoutInv

-----------------------------------------------------------------------------
(* What the conversion and the listener do.                                *)

\* Of two nodes with one name the first counts, whatever the nodes are.
LEMMA LogsUnique == ASSUME NEW nodes PROVE OneDefineEach(Logs(nodes))
<1> DEFINE Firsts == {j \in 1..Len(nodes) : \A k \in 1..(j - 1) : nodes[k].name # nodes[j].name}
<1>1. \A i \in Firsts : LogDefine(nodes[i]).m_name = nodes[i].name
  BY DEF LogDefine
<1>2. \A i, j \in Firsts : nodes[i].name = nodes[j].name => i = j
  OBVIOUS
<1> QED BY <1>1, <1>2 DEF Logs, OneDefineEach

\* A logger the listener configures has the level and the appenders asked for.
LEMMA ConfigureFollows ==
  ASSUME NEW def, NEW daemon, NEW beyond
  PROVE  LET logger == Configure(def, daemon, beyond)
             made == Made(def.m_appenders, daemon)
         IN /\ logger.m_level = def.level
            /\ DOMAIN logger.m_appenders = DOMAIN made
            /\ \A i \in DOMAIN made :
                 /\ logger.m_appenders[i].type = made[i].m_type
                 /\ logger.m_appenders[i].pattern = made[i].m_pattern
BY DEF Configure, LogAppender

\* The listener brings the loggers from any value to any other.
LEMMA ListenerFollows ==
  ASSUME Shape, LogsInv, ~Storing("logs"), NEW logs, NEW beyond,
         m_loggers' = OnLogsChange(m_loggers, m_val.logs, logs, Has(m_args, "d"), beyond),
         configured' = configured \cup {def.m_name : def \in logs},
         m_args' = m_args
  PROVE  \A name \in Loggers : LoggerFollows(name, logs)'
<1> DEFINE Follows(name, logger, ls, seen) ==
      IF Find(ls, name) # {}
      THEN \E def \in Find(ls, name) :
             /\ logger.m_level = def.level
             /\ DOMAIN logger.m_appenders = DOMAIN Made(def.m_appenders, Has(m_args, "d"))
             /\ \A i \in DOMAIN Made(def.m_appenders, Has(m_args, "d")) :
                  /\ logger.m_appenders[i].type = Made(def.m_appenders, Has(m_args, "d"))[i].m_type
                  /\ logger.m_appenders[i].pattern = Made(def.m_appenders, Has(m_args, "d"))[i].m_pattern
      ELSE logger = IF name \in seen THEN Silence ELSE NewLogger(name)
<1> SUFFICES ASSUME NEW name \in Loggers PROVE Follows(name, m_loggers'[name], logs, configured')
  BY DEF LoggerFollows
<1>1. Follows(name, m_loggers[name], m_val.logs, configured)
  BY DEF LogsInv, AllFollow, LoggerFollows
<1>2. m_loggers'[name] =
        IF Find(logs, name) \ m_val.logs # {}
        THEN Configure(CHOOSE def \in Find(logs, name) : TRUE, Has(m_args, "d"), beyond)
        ELSE IF Find(logs, name) = {} /\ Find(m_val.logs, name) # {} THEN Silence
        ELSE m_loggers[name]
  BY DEF OnLogsChange, Shape
<1>3. CASE Find(logs, name) \ m_val.logs # {}
  <2> DEFINE def == CHOOSE d \in Find(logs, name) : TRUE
  <2>1. Find(logs, name) # {} /\ def \in Find(logs, name) BY <1>3
  <2>2. m_loggers'[name] = Configure(def, Has(m_args, "d"), beyond) BY <1>2, <1>3
  <2> HIDE DEF def
  <2> QED BY <2>1, <2>2, ConfigureFollows
<1>4. CASE Find(logs, name) \ m_val.logs = {} /\ Find(logs, name) # {}
  <2>1. m_loggers'[name] = m_loggers[name] BY <1>2, <1>4
  <2>2. PICK d \in Find(logs, name) : d \in m_val.logs BY <1>4
  <2>3. Find(m_val.logs, name) = {d} BY <2>2 DEF Find, LogsInv, OneDefineEach
  <2>4. Find(logs, name) = {d} BY <1>4, <2>2, <2>3 DEF Find
  <2> QED BY <1>1, <2>1, <2>3, <2>4
<1>5. CASE Find(logs, name) = {}
  <2>1. name \in configured' <=> name \in configured BY <1>5 DEF Find
  <2>2. CASE Find(m_val.logs, name) # {}
    <3>1. name \in configured BY <2>2 DEF Find, LogsInv, KnownNames
    <3> QED BY <1>2, <1>5, <2>1, <2>2, <3>1
  <2>3. CASE Find(m_val.logs, name) = {}
    BY <1>1, <1>2, <1>5, <2>1, <2>3
  <2> QED BY <2>2, <2>3
<1> QED BY <1>3, <1>4, <1>5

\* A step that leaves the loggers and what they are compared with alone.
LEMMA LoggersKept ==
  ASSUME UNCHANGED <<m_loggers, configured, m_args>>, NEW logs
  PROVE  AllFollow(logs) => \A name \in Loggers : LoggerFollows(name, logs)'
BY DEF AllFollow, LoggerFollows

-----------------------------------------------------------------------------
(* The steps.                                                              *)

LEMMA InitInv == Init => IInv
<1> SUFFICES ASSUME Init PROVE IInv OBVIOUS
<1>1. Shape BY DEF Init, Shape
<1>2. AllFollow(m_val.logs) BY DEF Init, AllFollow, LoggerFollows, Find
<1>3. LogsInv BY <1>2 DEF Init, LogsInv, OneDefineEach, KnownNames, Storing
<1>4. TimeoutInv BY DEF Init, TimeoutInv, Storing
<1> QED BY <1>1, <1>3, <1>4 DEF IInv

\* Before Env::init() no logger is configured, so none depends on the arguments.
LEMMA InitEnvInv == ASSUME IInv, InitEnv PROVE IInv'
<1>1. Shape' /\ TimeoutInv' BY DEF IInv, InitEnv, Shape, TimeoutInv, Storing, values, bounds
<1>2. m_val.logs = {} /\ ~Storing("logs") /\ ~Storing("logs")'
  BY DEF IInv, InitEnv, Shape, Storing
<1>3. AllFollow(m_val.logs)'
  BY <1>2 DEF IInv, InitEnv, LogsInv, AllFollow, LoggerFollows, Find, values
<1> QED BY <1>1, <1>2, <1>3 DEF IInv, LogsInv, InitEnv, OneDefineEach, KnownNames, values

\* Everything that touches neither the values nor the listeners, and does not
\* move between the two locks.
LEMMA QuietInv ==
  ASSUME IInv, UNCHANGED <<values, m_args, client, raced>>,
         \/ pc # "store" /\ pc' # "store" /\ (pc' = "main" => pc = "main")
         \/ UNCHANGED <<pc, members>>
  PROVE  IInv'
<1>1. UNCHANGED <<m_val, m_loggers, s_connect_timeout, configured>> BY DEF values
<1>2. \A name : Storing(name)' <=> Storing(name) BY DEF Storing
<1>3. Shape' BY <1>1, <1>2 DEF IInv, Shape, Storing
<1>4. Storing("logs") => FromStr(Head(members))' = FromStr(Head(members))
  BY DEF Storing, FromStr
<1>5. Storing("timeout") => FromStr(Head(members))' = FromStr(Head(members))
  BY DEF Storing, FromStr
<1>6. LogsInv'
  <2>1. AllFollow(m_val.logs) => AllFollow(m_val.logs)'
    BY <1>1, LoggersKept DEF AllFollow
  <2>2. Storing("logs") =>
          (AllFollow(FromStr(Head(members))) => AllFollow(FromStr(Head(members)))')
    BY <1>1, <1>4, LoggersKept DEF AllFollow
  <2> QED BY <1>1, <1>2, <1>4, <2>1, <2>2 DEF IInv, LogsInv, OneDefineEach, KnownNames
<1>7. TimeoutInv' BY <1>1, <1>2, <1>5 DEF IInv, TimeoutInv
<1> QED BY <1>3, <1>6, <1>7 DEF IInv

\* The listeners run; the value is stored later.
LEMMA SetValueInv == ASSUME IInv, NEW beyond \in BOOLEAN, SetValue(beyond) PROVE IInv'
<1> DEFINE member == Head(members)
<1>1. /\ pc = "apply" /\ pc' = "store" /\ member' = member
      /\ UNCHANGED <<m_val, m_args, client>>
      /\ member.name \in {"logs", "timeout"}
  BY DEF SetValue, Effective, IInv, Shape
<1>2. ~Storing("logs") /\ ~Storing("timeout") BY <1>1 DEF Storing
<1>3. FromStr(member)' = FromStr(member) BY <1>1 DEF FromStr
<1>4. CASE member.name = "logs"
  <2>1. /\ m_loggers' = OnLogsChange(m_loggers, m_val.logs, FromStr(member), Has(m_args, "d"), beyond)
        /\ configured' = configured \cup {def.m_name : def \in FromStr(member)}
        /\ s_connect_timeout' = s_connect_timeout
        /\ raced' <=> raced
    BY <1>4 DEF SetValue, Notify
  <2>2. Storing("logs")' /\ ~Storing("timeout")' BY <1>1, <1>4 DEF Storing
  <2>3. Shape' BY <1>1, <2>1, <2>2 DEF IInv, Shape, OnLogsChange
  <2>4. AllFollow(FromStr(member))'
    BY <1>1, <1>2, <1>3, <2>1, ListenerFollows DEF IInv, AllFollow
  <2>5. LogsInv'
    BY <1>1, <1>3, <2>1, <2>2, <2>4 DEF IInv, LogsInv, OneDefineEach, KnownNames
  <2>6. TimeoutInv' BY <1>1, <1>2, <2>1, <2>2 DEF IInv, TimeoutInv
  <2> QED BY <2>3, <2>5, <2>6 DEF IInv
<1>5. CASE member.name = "timeout"
  <2>1. /\ s_connect_timeout' = Unsigned(FromStr(member))
        /\ UNCHANGED <<m_loggers, configured>>
        /\ raced' = (raced \/ client # <<>>)
    BY <1>5 DEF SetValue, Notify
  <2>2. ~Storing("logs")' /\ Storing("timeout")' BY <1>1, <1>5 DEF Storing
  <2>3. Shape' BY <1>1, <2>1, <2>2 DEF IInv, Shape
  <2>4. AllFollow(m_val.logs)' BY <1>1, <1>2, <2>1, LoggersKept DEF IInv, LogsInv, AllFollow
  <2>5. LogsInv' BY <1>1, <2>1, <2>2, <2>4 DEF IInv, LogsInv, OneDefineEach, KnownNames
  <2>6. TimeoutInv' BY <1>1, <1>3, <2>1, <2>2 DEF IInv, TimeoutInv
  <2> QED BY <2>3, <2>5, <2>6 DEF IInv
<1> QED BY <1>1, <1>4, <1>5

\* The store catches up with the listeners.
LEMMA StoreValueInv == ASSUME IInv, StoreValue PROVE IInv'
<1> DEFINE member == Head(members)
<1>1. /\ pc = "store" /\ pc' = "apply"
      /\ m_val' = [m_val EXCEPT ![member.name] = FromStr(member)]
      /\ UNCHANGED <<m_loggers, s_connect_timeout, configured, m_args, client, raced>>
  BY DEF StoreValue
<1>2. ~Storing("logs")' /\ ~Storing("timeout")' BY <1>1 DEF Storing
<1>3. DOMAIN m_val = {"logs", "timeout"} BY DEF IInv, Shape
<1>4. Shape' BY <1>1, <1>2, <1>3 DEF IInv, Shape
<1>5. CASE Storing("logs")
  <2>1. m_val'.logs = FromStr(member) /\ m_val'.timeout = m_val.timeout
    BY <1>1, <1>3, <1>5 DEF Storing
  <2>2. OneDefineEach(FromStr(member))
    BY <1>5, LogsUnique DEF Storing, FromStr
  <2>3. AllFollow(m_val.logs)'
    BY <1>1, <1>5, <2>1, LoggersKept DEF IInv, LogsInv, AllFollow
  <2>4. LogsInv' BY <1>1, <1>2, <1>5, <2>1, <2>2, <2>3 DEF IInv, LogsInv, OneDefineEach, KnownNames
  <2>5. ~Storing("timeout") BY <1>5 DEF Storing
  <2>6. TimeoutInv' BY <1>1, <1>2, <2>1, <2>5 DEF IInv, TimeoutInv
  <2> QED BY <1>4, <2>4, <2>6 DEF IInv
<1>6. CASE Storing("timeout")
  <2>1. m_val'.logs = m_val.logs /\ m_val'.timeout = FromStr(member)
    BY <1>1, <1>3, <1>6 DEF Storing
  <2>2. ~Storing("logs") BY <1>6 DEF Storing
  <2>3. AllFollow(m_val.logs)'
    BY <1>1, <2>1, <2>2, LoggersKept DEF IInv, LogsInv, AllFollow
  <2>4. LogsInv' BY <1>1, <1>2, <2>1, <2>2, <2>3 DEF IInv, LogsInv, OneDefineEach, KnownNames
  <2>5. TimeoutInv' BY <1>1, <1>2, <1>6, <2>1 DEF IInv, TimeoutInv
  <2> QED BY <1>4, <2>4, <2>5 DEF IInv
<1> QED BY <1>1, <1>5, <1>6 DEF IInv, Shape

\* The other thread's two steps.
LEMMA ClientInv ==
  ASSUME IInv, (\E val \in Timeouts : ClientSetValue(val)) \/ ClientStore
  PROVE  IInv'
<1>1. /\ UNCHANGED <<m_loggers, configured, m_args, pc, members>>
      /\ \A name : Storing(name)' <=> Storing(name)
      /\ FromStr(Head(members))' = FromStr(Head(members))
  BY DEF ClientSetValue, ClientStore, loader, Storing, FromStr
<1>2. DOMAIN m_val' = DOMAIN m_val /\ m_val'.logs = m_val.logs
  BY DEF ClientSetValue, ClientStore, IInv, Shape
<1>3. Shape' BY <1>1, <1>2 DEF IInv, Shape
<1>4. LogsInv'
  <2>1. AllFollow(m_val.logs) => AllFollow(m_val.logs)'
    BY <1>1, <1>2, LoggersKept DEF AllFollow
  <2>2. AllFollow(FromStr(Head(members))) => AllFollow(FromStr(Head(members)))'
    BY <1>1, LoggersKept DEF AllFollow
  <2> QED BY <1>1, <1>2, <2>1, <2>2 DEF IInv, LogsInv, OneDefineEach, KnownNames
<1>5. TimeoutInv'
  <2>1. ASSUME NEW val \in Timeouts, ClientSetValue(val) PROVE TimeoutInv'
    BY <1>1, <2>1 DEF ClientSetValue, IInv, TimeoutInv, Storing
  <2>2. ASSUME ClientStore PROVE TimeoutInv'
    <3>1. m_val'.timeout = client[1] BY <2>2 DEF ClientStore, IInv, Shape
    <3> QED BY <1>1, <2>2, <3>1 DEF ClientStore, IInv, TimeoutInv
  <2> QED BY <2>1, <2>2
<1> QED BY <1>3, <1>4, <1>5 DEF IInv

LEMMA NextInv == ASSUME IInv, [Next]_vars PROVE IInv'
<1>1. CASE InitEnv BY <1>1, InitEnvInv
<1>2. CASE Load
  <2>1. CASE LoadFromConfDir \/ (\E f \in todo : Stat(f)) \/ CheckTime \/ ReadFile \/ Skip \/ FileDone \/ LoadReturns
    BY <2>1, QuietInv DEF LoadFromConfDir, Stat, CheckTime, ReadFile, Skip, FileDone, LoadReturns
  <2>2. CASE StoreValue BY <2>2, StoreValueInv
  <2>3. CASE \E beyond \in BOOLEAN : SetValue(beyond) BY <2>3, SetValueInv
  <2> QED BY <1>2, <2>1, <2>2, <2>3 DEF Load
<1>3. CASE (\E val \in Timeouts : ClientSetValue(val)) \/ ClientStore BY <1>3, ClientInv
<1>4. CASE \E f \in Files, new \in Contents : Edit(f, new)
  BY <1>4, QuietInv DEF Edit, loader
<1>5. CASE UNCHANGED vars BY <1>5, QuietInv DEF vars, loader
<1> QED BY <1>1, <1>2, <1>3, <1>4, <1>5 DEF Next

-----------------------------------------------------------------------------
\* The inductive invariant: listeners are ahead of their variable by at most the
\* value that is about to be stored.
THEOREM ConfigInvariant == Spec => []IInv
<1> QED BY InitInv, NextInv, PTL DEF Spec

\* Loggers and s_connect_timeout are what the configuration variables say,
\* however files, editors and threads led there (LogIniter, _HookIniter).
THEOREM ListenersAgree == Spec => []ListenersFollow
<1>1. IInv => ListenersFollow
  BY DEF IInv, LogsInv, TimeoutInv, AllFollow, ListenersFollow, Storing
<1> QED BY <1>1, ConfigInvariant, PTL

-----------------------------------------------------------------------------
(* What LoadFromConfDir() has applied.                                     *)

Variables == {"logs", "timeout"}

\* The loader is at work on a file.
Busy == pc \in {"check", "read", "apply", "store"}

Times ==
  /\ mtime \in [Files -> Nat \ {0}] /\ s_file2modifytime \in [Files -> Nat]
  /\ \A f \in Files : s_file2modifytime[f] <= mtime[f]
  /\ todo \subseteq Files /\ file.file \in Files \cup {NoFile}
  /\ Busy => file.file \in Files /\ file.st_mtime \in Nat /\ file.st_mtime <= mtime[file.file]

Data ==
  /\ content = [f \in Files |-> content[f]] /\ \A f \in Files : IsContent(content[f])
  /\ DOMAIN setter = Variables
  /\ \E S : members \in Seq(S) /\ \A member \in S : IsMember(member)
  /\ pc = "store" => members # <<>> /\ FromStrReturns(Head(members))

\* After the positions in done, the last value a file gives is the variable's.
Applied(f, done) ==
  \A v \in Variables :
    setter[v] \in {f, NoFile} =>
      \A i \in Given(f, v) \cap done :
        (\A j \in Given(f, v) \cap done : j <= i) => m_val[v] = FromStr(content[f][i])

\* h says where in root each of the nodes is: in order, none left out on the way.
Places(root, nodes, h) ==
  /\ h \in [1..Len(nodes) -> DOMAIN root]
  /\ \A n \in 1..Len(nodes) : nodes[n] = root[h[n]] /\ root[h[n]].valid
  /\ \A m, n \in 1..Len(nodes) : m < n => h[m] < h[n]
  /\ \A i \in DOMAIN root :
       root[i].valid => (\E n \in 1..Len(nodes) : h[n] = i) \/ (\A n \in 1..Len(nodes) : i < h[n])

\* The positions before all those.
Before(root, nodes, h) == {i \in DOMAIN root : \A n \in 1..Len(nodes) : i < h[n]}

\* The loader has written the time of f down and is not done with it; and then
\* what it has not applied yet is what comes after the positions it has applied.
Midway(f) == pc \in {"read", "apply", "store"} /\ file.file = f

Partly(f) ==
  \E h, done : /\ Places(content[f], members, h)
               /\ done = Before(content[f], members, h)
               /\ Applied(f, done)

\* f is one whose time is written down: it will be read, or is being applied, or
\* has been.
Recorded(f) == content[f] # Broken /\ s_file2modifytime[f] = mtime[f]

LoadInv ==
  \A f \in Files : Recorded(f) =>
    IF Midway(f) THEN pc = "read" \/ Partly(f) ELSE Applied(f, DOMAIN content[f])

FilesInv == Times /\ Data /\ LoadInv

-----------------------------------------------------------------------------
(* What the loops leave that skip elements, ListAllMember() among them.    *)

\* The kept places, in order: h says where in seq each element comes from.
Kept(seq, keep, sub, h) ==
  /\ h \in [1..Len(sub) -> 1..Len(seq)]
  /\ \A k \in 1..Len(sub) : sub[k] = seq[h[k]] /\ h[k] \in keep
  /\ \A k, l \in 1..Len(sub) : k < l => h[k] < h[l]
  /\ \A i \in 1..Len(seq) : i \in keep => \E k \in 1..Len(sub) : h[k] = i

LEMMA SubsequenceIs ==
  ASSUME NEW S, NEW seq \in Seq(S), NEW keep
  PROVE  /\ Subsequence(seq, keep) \in Seq(S)
         /\ \E h : Kept(seq, keep, Subsequence(seq, keep), h)
<1> DEFINE Step(g, n) ==
             IF n = 0 THEN <<>> ELSE IF n \in keep THEN Append(g[n - 1], seq[n]) ELSE g[n - 1]
           Fits(g, m) == g = [n \in 0..m |-> Step(g, n)]
           Output == CHOOSE g : Fits(g, Len(seq))
           Runs == {m \in Nat : \E g : Fits(g, m)}
<1>0. Len(seq) \in Nat /\ DOMAIN seq = 1..Len(seq) OBVIOUS
<1>1. Len(seq) \in Runs
  <2>1. 0 \in Runs
    <3>1. Fits([n \in 0..0 |-> <<>>], 0) OBVIOUS
    <3> QED BY <3>1
  <2>2. ASSUME NEW m \in Nat, m \in Runs PROVE m + 1 \in Runs
    <3>1. PICK g : Fits(g, m) BY <2>2
    <3> DEFINE f == [n \in 0..(m + 1) |-> IF n = m + 1 THEN Step(g, m + 1) ELSE g[n]]
    <3>2. \A n \in 0..m : f[n] = g[n] OBVIOUS
    <3>3. \A n \in 0..m : g[n] = Step(g, n) BY <3>1
    <3>4. \A n \in 0..(m + 1) : Step(f, n) = Step(g, n)
      <4> SUFFICES ASSUME NEW n \in 0..(m + 1) PROVE Step(f, n) = Step(g, n) OBVIOUS
      <4>1. n = 0 \/ n - 1 \in 0..m OBVIOUS
      <4> HIDE DEF f
      <4> QED BY <3>2, <4>1
    <3>5. \A n \in 0..(m + 1) : f[n] = Step(g, n)
      <4> HIDE DEF Step
      <4> QED BY <3>3
    <3>6. Fits(f, m + 1)
      <4>1. f = [n \in 0..(m + 1) |-> f[n]] OBVIOUS
      <4> HIDE DEF f, Step
      <4> QED BY <3>4, <3>5, <4>1
    <3> HIDE DEF f, Fits
    <3> QED BY <3>6
  <2> HIDE DEF Runs
  <2>3. Nat \subseteq Runs BY <2>1, <2>2, SetInduction
  <2> QED BY <1>0, <2>3
<1>2. Fits(Output, Len(seq)) BY <1>1, Zenon
<1>3. Subsequence(seq, keep) = Output[Len(seq)] BY DEF Subsequence
<1> HIDE DEF Output
<1>4. \A n \in 0..Len(seq) : Output[n] = Step(Output, n) BY <1>2
<1> DEFINE Hits(n, h) ==
             /\ Output[n] \in Seq(S)
             /\ h \in [1..Len(Output[n]) -> 1..n]
             /\ \A k \in 1..Len(Output[n]) : Output[n][k] = seq[h[k]] /\ h[k] \in keep
             /\ \A k, l \in 1..Len(Output[n]) : k < l => h[k] < h[l]
             /\ \A i \in 1..n : i \in keep => \E k \in 1..Len(Output[n]) : h[k] = i
           Placed == {n \in Nat : n <= Len(seq) => \E h : Hits(n, h)}
<1>5. Len(seq) \in Placed
  <2>1. 0 \in Placed
    <3>1. Output[0] = <<>> BY <1>0, <1>4
    <3>2. Hits(0, <<>>) BY <3>1
    <3> HIDE DEF Hits
    <3> QED BY <3>2
  <2>2. ASSUME NEW m \in Nat, m \in Placed PROVE m + 1 \in Placed
    <3> SUFFICES ASSUME m + 1 <= Len(seq) PROVE \E h : Hits(m + 1, h) OBVIOUS
    <3>1. PICK h : Hits(m, h) BY <1>0, <2>2
    <3>2. Output[m + 1] = IF m + 1 \in keep THEN Append(Output[m], seq[m + 1]) ELSE Output[m]
      BY <1>0, <1>4
    <3>3. CASE m + 1 \notin keep
      <4>1. Output[m + 1] = Output[m] BY <3>2, <3>3
      <4>2. \A i \in 1..(m + 1) : i \in 1..m \/ i = m + 1 OBVIOUS
      <4>3. h \in [1..Len(Output[m + 1]) -> 1..(m + 1)] BY <3>1, <4>1
      <4>4. \A i \in 1..(m + 1) : i \in keep => \E k \in 1..Len(Output[m + 1]) : h[k] = i
        BY <3>1, <3>3, <4>1, <4>2
      <4>5. Hits(m + 1, h) BY <3>1, <4>1, <4>3, <4>4
      <4> HIDE DEF Hits
      <4> QED BY <4>5
    <3>4. CASE m + 1 \in keep
      <4>1. PICK last : last = Len(Output[m]) + 1 OBVIOUS
      <4>2. seq[m + 1] \in S /\ last \in Nat \ {0} BY <1>0, <3>1, <4>1
      <4>3. /\ Output[m + 1] \in Seq(S) /\ Len(Output[m + 1]) = last
            /\ Output[m + 1][last] = seq[m + 1]
            /\ \A k \in 1..(last - 1) : Output[m + 1][k] = Output[m][k]
        BY <3>1, <3>2, <3>4, <4>1, <4>2, AppendProperties
      <4> DEFINE e == [k \in 1..last |-> IF k = last THEN m + 1 ELSE h[k]]
      <4>4. /\ h \in [1..(last - 1) -> 1..m]
            /\ \A k \in 1..(last - 1) : Output[m][k] = seq[h[k]] /\ h[k] \in keep
            /\ \A k, l \in 1..(last - 1) : k < l => h[k] < h[l]
            /\ \A i \in 1..m : i \in keep => \E k \in 1..(last - 1) : h[k] = i
        BY <3>1, <4>1
      <4>5. e \in [1..last -> 1..(m + 1)] /\ e[last] = m + 1 /\ \A k \in 1..(last - 1) : e[k] = h[k] /\ h[k] \in 1..m
        BY <4>2, <4>4
      <4>6. \A k \in 1..last : k = last \/ k \in 1..(last - 1) BY <4>2
      <4>7. last \in 1..last /\ 1..(last - 1) \subseteq 1..last BY <4>2
      <4> HIDE DEF e
      <4>8. \A k \in 1..last : Output[m + 1][k] = seq[e[k]] /\ e[k] \in keep
        BY <3>4, <4>3, <4>4, <4>5, <4>6
      <4>9. ASSUME NEW k \in 1..last, NEW l \in 1..last, k < l PROVE e[k] < e[l]
        <5>1. k \in 1..(last - 1) BY <4>2, <4>9
        <5>2. CASE l = last BY <4>5, <5>1, <5>2
        <5>3. CASE l \in 1..(last - 1) BY <4>4, <4>5, <4>9, <5>1, <5>3
        <5> QED BY <4>6, <5>2, <5>3
      <4>10. ASSUME NEW i \in 1..(m + 1), i \in keep PROVE \E k \in 1..last : e[k] = i
        <5>1. CASE i = m + 1 BY <4>5, <4>7, <5>1
        <5>2. CASE i \in 1..m BY <4>4, <4>5, <4>7, <4>10, <5>2
        <5> QED BY <5>1, <5>2
      <4>11. Hits(m + 1, e) BY <4>3, <4>5, <4>8, <4>9, <4>10
      <4> HIDE DEF Hits
      <4> QED BY <4>11
    <3> QED BY <3>3, <3>4
  <2> HIDE DEF Placed
  <2>3. Nat \subseteq Placed BY <2>1, <2>2, SetInduction
  <2> QED BY <1>0, <2>3
<1>6. PICK h : Hits(Len(seq), h)
  <2> HIDE DEF Hits
  <2> QED BY <1>0, <1>5
<1>7. Kept(seq, keep, Subsequence(seq, keep), h) BY <1>0, <1>3, <1>6 DEF Kept
<1> QED BY <1>0, <1>3, <1>6, <1>7

\* Exactly the valid members, in the order of the file.
LEMMA MembersPlaced ==
  ASSUME NEW S, NEW root \in Seq(S)
  PROVE  /\ ListAllMember(root) \in Seq(S)
         /\ \E h : /\ Places(root, ListAllMember(root), h)
                   /\ \A i \in DOMAIN root : root[i].valid => \E n \in 1..Len(ListAllMember(root)) : h[n] = i
<1>1. PICK keep : keep = {i \in DOMAIN root : root[i].valid} OBVIOUS
<1>2. PICK nodes : nodes = ListAllMember(root) OBVIOUS
<1>3. nodes = Subsequence(root, keep) BY <1>1, <1>2 DEF ListAllMember
<1>4. nodes \in Seq(S) BY <1>3, SubsequenceIs
<1>5. PICK h : Kept(root, keep, nodes, h) BY <1>3, SubsequenceIs
<1>6. DOMAIN root = 1..Len(root) OBVIOUS
<1>7. Places(root, nodes, h) BY <1>1, <1>5, <1>6 DEF Places, Kept
<1>8. \A i \in DOMAIN root : root[i].valid => \E n \in 1..Len(nodes) : h[n] = i BY <1>1, <1>5, <1>6 DEF Kept
<1> QED BY <1>2, <1>4, <1>7, <1>8

-----------------------------------------------------------------------------
(* The steps keep FilesInv.                                                *)

LEMMA InitFiles == Init => FilesInv
<1> SUFFICES ASSUME Init PROVE FilesInv OBVIOUS
<1>1. Times BY DEF Init, Times, Busy, Nothing
<1>2. Data
  <2>1. PICK input \in Inputs : content = input.content BY DEF Init
  <2>2. content = [f \in Files |-> content[f]] /\ \A f \in Files : IsContent(content[f])
    BY <2>1, InputsAssumption
  <2>3. members \in Seq({}) BY DEF Init
  <2>4. members = <<>> /\ pc = "main" /\ setter = [v \in {"logs", "timeout"} |-> NoFile] BY DEF Init
  <2>5. DOMAIN setter = Variables BY <2>4 DEF Variables
  <2>6. \E S : members \in Seq(S) /\ \A member \in S : IsMember(member)
    <3>1. PICK T : T = {} OBVIOUS
    <3>2. members \in Seq(T) BY <2>3, <3>1
    <3>3. \A member \in T : IsMember(member) BY <3>1
    <3> HIDE <3>1
    <3> QED BY <3>2, <3>3, Zenon
  <2> QED BY <2>2, <2>4, <2>5, <2>6 DEF Data
<1>3. LoadInv BY DEF Init, LoadInv, Recorded
<1> QED BY <1>1, <1>2, <1>3 DEF FilesInv

\* A time that is written down is never ahead of the file's.
LEMMA TimesKept == ASSUME Times, [Next]_vars PROVE Times'
<1>1. CASE InitEnv BY <1>1 DEF InitEnv, Times, Busy, filesystem
<1>2. CASE Load
  <2>1. CASE LoadFromConfDir BY <2>1 DEF LoadFromConfDir, Times, Busy, filesystem, Listing
  <2>2. CASE \E f \in todo : Stat(f) BY <2>2 DEF Stat, Times, Busy, filesystem
  <2>3. CASE CheckTime
    <3>1. UNCHANGED <<mtime, todo, file>> /\ pc' \in {"next", "read"} /\ Busy
      BY <2>3 DEF CheckTime, filesystem, Busy
    <3>2. /\ s_file2modifytime' \in [Files -> Nat]
          /\ \A f \in Files : s_file2modifytime'[f] <= mtime[f]
      BY <2>3, <3>1 DEF CheckTime, Times
    <3> QED BY <3>1, <3>2 DEF Times, Busy
  <2>4. CASE ReadFile \/ Skip \/ StoreValue \/ FileDone \/ LoadReturns \/ \E beyond \in BOOLEAN : SetValue(beyond)
    <3>1. /\ UNCHANGED <<mtime, s_file2modifytime, todo>>
          /\ Busy' => Busy /\ file' = file
          /\ file' \in {file, Nothing}
      BY <2>4 DEF ReadFile, Skip, StoreValue, FileDone, LoadReturns, SetValue, filesystem, Busy
    <3>2. file'.file \in Files \cup {NoFile} BY <3>1 DEF Times, Nothing
    <3> QED BY <3>1, <3>2 DEF Times
  <2> QED BY <1>2, <2>1, <2>2, <2>3, <2>4 DEF Load
<1>3. CASE (\E val \in Timeouts : ClientSetValue(val)) \/ ClientStore \/ UNCHANGED vars
  BY <1>3 DEF ClientSetValue, ClientStore, vars, loader, filesystem, Times, Busy
<1>4. CASE \E f \in Files, new \in Contents : Edit(f, new)
  <2>1. PICK f \in Files, new \in Contents : Edit(f, new) BY <1>4
  <2>2. UNCHANGED <<s_file2modifytime, pc, todo, file>> BY <2>1 DEF Edit, loader
  <2>3. PICK seconds \in {0, 1} : mtime' = [mtime EXCEPT ![f] = @ + seconds] BY <2>1 DEF Edit
  <2>4. mtime' \in [Files -> Nat \ {0}] /\ \A g \in Files : mtime[g] <= mtime'[g] BY <2>3 DEF Times
  <2>5. \A g \in Files : s_file2modifytime'[g] <= mtime'[g] BY <2>2, <2>4 DEF Times
  <2>6. Busy' => file'.file \in Files /\ file'.st_mtime \in Nat /\ file'.st_mtime <= mtime'[file'.file]
    BY <2>2, <2>4 DEF Times, Busy
  <2> QED BY <2>2, <2>4, <2>5, <2>6 DEF Times
<1> QED BY <1>1, <1>2, <1>3, <1>4 DEF Next

\* What ReadFile finds, and leaves in members.
LEMMA ReadMembers ==
  ASSUME Times, Data, ReadFile, content[file.file] # Broken
  PROVE  /\ file.file \in Files
         /\ \E S : /\ content[file.file] \in Seq(S) /\ members' \in Seq(S)
                  /\ \A member \in S : IsMember(member)
         /\ \E h : /\ Places(content[file.file], members', h)
                   /\ Before(content[file.file], members', h)
                        \cap {i \in DOMAIN content[file.file] : content[file.file][i].valid} = {}
<1>1. file.file \in Files BY DEF ReadFile, Times, Busy
<1>2. /\ content[file.file] \in Seq(Range(content[file.file]))
      /\ \A member \in Range(content[file.file]) : IsMember(member)
  BY <1>1 DEF Data, IsContent
<1>3. PICK S, root : root = content[file.file] /\ root \in Seq(S) /\ \A member \in S : IsMember(member) BY <1>2
<1>4. members' = ListAllMember(root) BY <1>3 DEF ReadFile
<1>5. PICK h : /\ Places(root, members', h)
               /\ \A i \in DOMAIN root : root[i].valid => \E n \in 1..Len(members') : h[n] = i
  BY <1>3, <1>4, MembersPlaced
<1>6. Before(root, members', h) \cap {i \in DOMAIN root : root[i].valid} = {}
  <2>1. DOMAIN root \subseteq Nat BY <1>3
  <2> QED BY <1>5, <2>1 DEF Before
<1>7. members' \in Seq(S) BY <1>3, <1>4, MembersPlaced
<1> QED BY <1>1, <1>3, <1>5, <1>6, <1>7

LEMMA DataKept == ASSUME Times, Data, Shape, [Next]_vars PROVE Data'
<1>1. PICK S : members \in Seq(S) /\ \A member \in S : IsMember(member) BY DEF Data
<1>2. CASE InitEnv BY <1>2 DEF InitEnv, Data, filesystem, FromStrReturns
<1>3. CASE Load
  <2>1. UNCHANGED content
    BY <1>3 DEF Load, LoadFromConfDir, Stat, CheckTime, ReadFile, Skip, StoreValue, FileDone, LoadReturns,
                SetValue, filesystem
  <2>2. DOMAIN setter' = DOMAIN setter
    BY <1>3 DEF Load, LoadFromConfDir, Stat, CheckTime, ReadFile, Skip, StoreValue, FileDone, LoadReturns,
                SetValue
  <2>3. \E T : members' \in Seq(T) /\ \A member \in T : IsMember(member)
    <3>1. CASE ReadFile
      <4>1. CASE content[file.file] = Broken BY <1>1, <3>1, <4>1 DEF ReadFile
      <4>2. CASE content[file.file] # Broken BY <3>1, <4>2, ReadMembers
      <4> QED BY <4>1, <4>2
    <3>2. CASE Skip \/ StoreValue
      <4>1. members' = Tail(members) /\ members # <<>> BY <3>2 DEF Skip, StoreValue, Data
      <4> QED BY <1>1, <4>1, HeadTailProperties
    <3>3. CASE LoadFromConfDir \/ (\E f \in todo : Stat(f)) \/ CheckTime \/ FileDone \/ LoadReturns
               \/ \E beyond \in BOOLEAN : SetValue(beyond)
      BY <1>1, <3>3 DEF LoadFromConfDir, Stat, CheckTime, FileDone, LoadReturns, SetValue
    <3> QED BY <1>3, <3>1, <3>2, <3>3 DEF Load
  <2>4. pc' = "store" => members' # <<>> /\ FromStrReturns(Head(members))'
    <3>1. CASE \E beyond \in BOOLEAN : SetValue(beyond)
      BY <3>1 DEF SetValue, Effective, FromStrReturns
    <3>2. CASE ~\E beyond \in BOOLEAN : SetValue(beyond)
      BY <1>3, <3>2 DEF Load, LoadFromConfDir, Stat, CheckTime, ReadFile, Skip, StoreValue, FileDone, LoadReturns
    <3> QED BY <3>1, <3>2
  <2> QED BY <2>1, <2>2, <2>3, <2>4 DEF Data
<1>4. CASE (\E val \in Timeouts : ClientSetValue(val)) \/ ClientStore \/ UNCHANGED vars
  BY <1>4 DEF ClientSetValue, ClientStore, vars, loader, filesystem, Data, FromStrReturns
<1>5. CASE \E f \in Files, new \in Contents : Edit(f, new)
  <2>1. PICK f \in Files, new \in Contents : Edit(f, new) BY <1>5
  <2>2. UNCHANGED <<setter, pc, members>> BY <2>1 DEF Edit, loader
  <2>3. content' = [content EXCEPT ![f] = new] /\ IsContent(new) BY <2>1, InputsAssumption DEF Edit
  <2>4. content' = [g \in Files |-> content'[g]] BY <2>3 DEF Data
  <2>5. \A g \in Files : IsContent(content'[g]) BY <2>3 DEF Data
  <2> QED BY <2>2, <2>4, <2>5 DEF Data, FromStrReturns
<1> QED BY <1>2, <1>3, <1>4, <1>5 DEF Next

\* What a file says, and whether it has been applied, does not change by itself.
LEMMA GivenKept ==
  ASSUME NEW f, content'[f] = content[f], NEW v
  PROVE  Given(f, v)' = Given(f, v) /\ \A i : FromStr(content[f][i])' = FromStr(content[f][i])
BY DEF Given, FromStr, FromStrReturns

LEMMA AppliedKept ==
  ASSUME UNCHANGED <<m_val, setter>>, NEW f, content'[f] = content[f], NEW done, Applied(f, done)
  PROVE  Applied(f, done)'
BY GivenKept DEF Applied

\* A store of another thread or from another file only takes f's claim away.
LEMMA AppliedByOthers ==
  ASSUME NEW f, content'[f] = content[f], NEW done, Applied(f, done), Data, Shape,
         NEW v \in Variables, NEW val, NEW other, other \notin {f, NoFile},
         m_val' = [m_val EXCEPT ![v] = val], setter' = [setter EXCEPT ![v] = other]
  PROVE  Applied(f, done)'
<1> SUFFICES ASSUME NEW w \in Variables, setter'[w] \in {f, NoFile},
                    NEW i \in Given(f, w) \cap done, \A j \in Given(f, w) \cap done : j <= i
             PROVE  m_val'[w] = FromStr(content[f][i])
  BY GivenKept DEF Applied
<1>1. w # v /\ setter[w] \in {f, NoFile} /\ m_val'[w] = m_val[w]
  BY DEF Data, Shape, Variables
<1> QED BY <1>1 DEF Applied

LEMMA PartlyKept ==
  ASSUME UNCHANGED <<m_val, setter, members>>, NEW f, content'[f] = content[f], Partly(f)
  PROVE  Partly(f)'
<1>1. PICK h, done : /\ Places(content[f], members, h)
                     /\ done = Before(content[f], members, h)
                     /\ Applied(f, done)
  BY DEF Partly
<1>2. Applied(f, done)' BY <1>1, AppliedKept
<1> QED BY <1>1, <1>2 DEF Partly

\* One more member is dealt with, and the variable it names has its value.
LEMMA OneMore ==
  ASSUME Data, NEW f \in Files, content[f] # Broken, Partly(f), content'[f] = content[f],
         members # <<>>, members' = Tail(members),
         Head(members).name \in Variables /\ FromStrReturns(Head(members)) =>
           m_val'[Head(members).name] = FromStr(Head(members)),
         \A v \in Variables : v # Head(members).name => m_val'[v] = m_val[v] /\ setter'[v] = setter[v],
         \/ m_val' = m_val /\ setter' = setter
         \/ FromStrReturns(Head(members))
  PROVE  Partly(f)'
<1>1. PICK h, done : /\ Places(content[f], members, h)
                     /\ done = Before(content[f], members, h)
                     /\ Applied(f, done)
  BY DEF Partly
<1>2. PICK root, nodes : root = content[f] /\ nodes = members OBVIOUS
<1>3. PICK S : nodes \in Seq(S) BY <1>2 DEF Data
<1>4. PICK len : len = Len(nodes) OBVIOUS
<1>5. /\ len \in Nat \ {0} /\ Len(Tail(nodes)) = len - 1
      /\ \A n \in 1..(len - 1) : Tail(nodes)[n] = nodes[n + 1]
      /\ Head(nodes) = nodes[1]
  BY <1>2, <1>3, <1>4, HeadTailProperties, EmptySeq
<1>6. DOMAIN root \subseteq Nat BY <1>2 DEF Data, IsContent
<1>7. /\ h \in [1..len -> DOMAIN root]
      /\ \A n \in 1..len : nodes[n] = root[h[n]] /\ root[h[n]].valid
      /\ \A m, n \in 1..len : m < n => h[m] < h[n]
      /\ \A i \in DOMAIN root :
           root[i].valid => (\E n \in 1..len : h[n] = i) \/ (\A n \in 1..len : i < h[n])
      /\ done = {i \in DOMAIN root : \A n \in 1..len : i < h[n]}
  BY <1>1, <1>2, <1>4 DEF Places, Before
<1> DEFINE e == [n \in 1..(len - 1) |-> h[n + 1]]
<1>8. PICK at : at = h[1] OBVIOUS
<1>9. at \in DOMAIN root /\ root[at] = Head(members) /\ root[at].valid BY <1>2, <1>5, <1>7, <1>8
<1>10. \A n \in 1..(len - 1) : n + 1 \in 1..len /\ e[n] = h[n + 1] BY <1>5
<1>11. \A n \in 1..len : n = 1 \/ n - 1 \in 1..(len - 1) BY <1>5
<1>12. e \in [1..(len - 1) -> DOMAIN root] BY <1>7, <1>10
<1> HIDE DEF e
<1>13. \A n \in 2..len : h[n] = e[n - 1] /\ n - 1 \in 1..(len - 1) BY <1>5, <1>10
<1>14. Places(root, Tail(nodes), e)
  <2>1. \A n \in 1..(len - 1) : Tail(nodes)[n] = root[e[n]] /\ root[e[n]].valid BY <1>5, <1>7, <1>10
  <2>2. \A m, n \in 1..(len - 1) : m < n => e[m] < e[n] BY <1>5, <1>7, <1>10
  <2>3. ASSUME NEW i \in DOMAIN root, root[i].valid
        PROVE  (\E n \in 1..(len - 1) : e[n] = i) \/ (\A n \in 1..(len - 1) : i < e[n])
    <3>1. CASE \A n \in 1..len : i < h[n] BY <1>10, <3>1
    <3>2. CASE i = h[1]
      <4>1. \A n \in 1..(len - 1) : 1 < n + 1 /\ 1 \in 1..len BY <1>5
      <4> QED BY <1>7, <1>10, <3>2, <4>1
    <3>3. CASE \E n \in 2..len : h[n] = i BY <1>13, <3>3
    <3>4. \A n \in 1..len : n = 1 \/ n \in 2..len BY <1>5
    <3> QED BY <1>7, <2>3, <3>1, <3>2, <3>3, <3>4
  <2> QED BY <1>5, <1>12, <2>1, <2>2, <2>3 DEF Places
<1>15. PICK next : next = Before(root, Tail(nodes), e) OBVIOUS
<1>16. next = {i \in DOMAIN root : \A n \in 1..(len - 1) : i < e[n]} BY <1>5, <1>15 DEF Before
<1>17. \A i \in done : i \in next /\ i < at BY <1>5, <1>7, <1>8, <1>10, <1>16
<1>18. at \in next
  <2>1. \A n \in 1..(len - 1) : 1 < n + 1 /\ 1 \in 1..len BY <1>5
  <2> QED BY <1>7, <1>8, <1>9, <1>10, <1>16, <2>1
<1>19. ASSUME NEW i \in next, root[i].valid PROVE i \in done \/ i = at
  <2>1. CASE \A n \in 1..len : i < h[n] BY <1>7, <1>16, <2>1
  <2>2. CASE \E n \in 1..len : h[n] = i
    <3>1. PICK n \in 1..len : h[n] = i BY <2>2
    <3>2. n # 1 => n - 1 \in 1..(len - 1) /\ e[n - 1] = i BY <1>5, <1>10, <3>1
    <3>3. i \in Nat /\ ~(i < i) BY <1>6, <1>16
    <3>4. n = 1 BY <1>16, <3>2, <3>3
    <3> QED BY <1>8, <3>1, <3>4
  <2> QED BY <1>7, <1>16, <1>19, <2>1, <2>2
<1>20. Applied(f, next)'
  <2> SUFFICES ASSUME NEW v \in Variables, setter'[v] \in {f, NoFile},
                      NEW i \in Given(f, v) \cap next, \A j \in Given(f, v) \cap next : j <= i
               PROVE  m_val'[v] = FromStr(root[i])
    BY <1>2, GivenKept DEF Applied
  <2>1. i \in done \/ i = at BY <1>2, <1>19 DEF Given
  <2>2. CASE i = at
    <3>1. Head(members).name = v /\ FromStrReturns(Head(members)) BY <1>2, <1>9, <2>2 DEF Given
    <3> QED BY <1>9, <2>2, <3>1
  <2>3. CASE i \in done /\ i # at
    <3>1. i < at /\ i \in Nat /\ at \in Nat BY <1>6, <1>9, <1>17, <2>3, <1>16
    <3>2. at \notin Given(f, v) BY <1>18, <3>1
    <3>3. (\A j \in Given(f, v) \cap done : j <= i) BY <1>17
    <3>4. setter[v] \in {f, NoFile} => m_val[v] = FromStr(root[i])
      BY <1>1, <1>2, <2>3, <3>3 DEF Applied
    <3>5. CASE Head(members).name # v BY <3>4, <3>5
    <3>6. CASE Head(members).name = v /\ UNCHANGED <<m_val, setter>> BY <3>4, <3>6
    <3>7. CASE Head(members).name = v /\ FromStrReturns(Head(members))
      BY <1>2, <1>9, <3>2, <3>7 DEF Given
    <3> QED BY <3>5, <3>6, <3>7
  <2> QED BY <2>1, <2>2, <2>3
<1> QED BY <1>2, <1>14, <1>15, <1>20 DEF Partly

\* A step that neither begins nor ends the work on a file nor applies a member.
LEMMA LoadKept ==
  ASSUME LoadInv, UNCHANGED <<content, mtime, s_file2modifytime, m_val, setter>>,
         \A f \in Files : Midway(f)' <=> Midway(f),
         pc \in {"read", "apply", "store"} => UNCHANGED members /\ (pc = "read" => pc' = "read")
  PROVE  LoadInv'
<1> SUFFICES ASSUME NEW f \in Files, Recorded(f)'
             PROVE  IF Midway(f)' THEN pc' = "read" \/ Partly(f)' ELSE Applied(f, DOMAIN content[f])'
  BY DEF LoadInv
<1>1. Recorded(f) BY DEF Recorded
<1>2. CASE Midway(f)
  <2>1. pc = "read" \/ Partly(f) BY <1>1, <1>2 DEF LoadInv
  <2>2. UNCHANGED members /\ (pc = "read" => pc' = "read") BY <1>2 DEF Midway
  <2>3. CASE pc = "read" BY <1>2, <2>2, <2>3
  <2>4. CASE Partly(f)
    <3>1. Partly(f)' BY <2>2, <2>4, PartlyKept
    <3> QED BY <1>2, <3>1
  <2> QED BY <2>1, <2>3, <2>4
<1>3. CASE ~Midway(f)
  <2>1. PICK done : done = DOMAIN content[f] OBVIOUS
  <2>2. Applied(f, done) BY <1>1, <1>3, <2>1 DEF LoadInv
  <2>3. Applied(f, done)' BY <2>2, AppliedKept
  <2>4. Applied(f, DOMAIN content[f])' BY <2>1, <2>3 DEF Applied
  <2> QED BY <1>3, <2>4
<1> QED BY <1>2, <1>3

\* Files the loader is not at are not affected by what it does with another.
LEMMA OthersKept ==
  ASSUME LoadInv, Data, Shape, NEW f \in Files, ~Midway(f), Recorded(f), content'[f] = content[f],
         \/ UNCHANGED <<m_val, setter>>
         \/ \E v \in Variables : \E val, other :
              /\ other \notin {f, NoFile}
              /\ m_val' = [m_val EXCEPT ![v] = val] /\ setter' = [setter EXCEPT ![v] = other]
  PROVE  Applied(f, DOMAIN content[f])'
<1>1. PICK done : done = DOMAIN content[f] OBVIOUS
<1>2. Applied(f, done) BY <1>1 DEF LoadInv
<1>3. CASE UNCHANGED <<m_val, setter>>
  <2>1. Applied(f, done)' BY <1>2, <1>3, AppliedKept
  <2> QED BY <1>1, <2>1 DEF Applied
<1>4. CASE \E v \in Variables : \E val, other :
              /\ other \notin {f, NoFile}
              /\ m_val' = [m_val EXCEPT ![v] = val] /\ setter' = [setter EXCEPT ![v] = other]
  <2>1. Applied(f, done)' BY <1>2, <1>4, AppliedByOthers
  <2> QED BY <1>1, <2>1 DEF Applied
<1> QED BY <1>3, <1>4

LEMMA CheckTimeLoad == ASSUME FilesInv, Shape, CheckTime PROVE LoadInv'
<1>1. /\ UNCHANGED <<content, mtime, m_val, setter, file, members>> /\ pc = "check"
      /\ file.file \in Files
  BY DEF CheckTime, filesystem, values, FilesInv, Times, Busy
<1>2. CASE pc' = "next" /\ UNCHANGED s_file2modifytime
  BY <1>1, <1>2, LoadKept DEF FilesInv, Midway
<1>3. CASE pc' = "read" /\ s_file2modifytime' = [s_file2modifytime EXCEPT ![file.file] = file.st_mtime]
  <2> SUFFICES ASSUME NEW f \in Files, Recorded(f)'
               PROVE  IF Midway(f)' THEN pc' = "read" \/ Partly(f)' ELSE Applied(f, DOMAIN content[f])'
    BY DEF LoadInv
  <2>1. CASE f = file.file BY <1>1, <1>3, <2>1 DEF Midway
  <2>2. CASE f # file.file
    <3>1. Recorded(f) /\ ~Midway(f) /\ ~Midway(f)' BY <1>1, <1>3, <2>2 DEF Recorded, Midway, FilesInv, Times
    <3>2. Applied(f, DOMAIN content[f])' BY <1>1, <3>1, OthersKept DEF FilesInv
    <3> QED BY <3>1, <3>2
  <2> QED BY <2>1, <2>2
<1> QED BY <1>2, <1>3 DEF CheckTime

LEMMA ReadFileLoad == ASSUME FilesInv, Shape, ReadFile PROVE LoadInv'
<1>1. /\ UNCHANGED <<content, mtime, s_file2modifytime, m_val, setter, file>> /\ pc = "read"
      /\ pc' \in {"next", "apply"} /\ (content[file.file] # Broken => pc' = "apply")
  BY DEF ReadFile, filesystem, values
<1> SUFFICES ASSUME NEW f \in Files, Recorded(f)'
             PROVE  IF Midway(f)' THEN pc' = "read" \/ Partly(f)' ELSE Applied(f, DOMAIN content[f])'
  BY DEF LoadInv
<1>2. Recorded(f) BY <1>1 DEF Recorded
<1>3. CASE f = file.file
  <2>1. Midway(f)' /\ content[file.file] # Broken BY <1>1, <1>2, <1>3 DEF Midway, Recorded
  <2>2. PICK h : /\ Places(content[f], members', h)
                 /\ Before(content[f], members', h) \cap {i \in DOMAIN content[f] : content[f][i].valid} = {}
    BY <1>3, <2>1, ReadMembers DEF FilesInv
  <2>3. PICK done : done = Before(content[f], members', h) OBVIOUS
  <2>4. \A v : Given(f, v) \cap done = {} BY <2>2, <2>3 DEF Given
  <2>5. Applied(f, done)' BY <1>1, <2>4, GivenKept DEF Applied
  <2> QED BY <1>1, <2>1, <2>2, <2>3, <2>5 DEF Partly
<1>4. CASE f # file.file
  <2>1. ~Midway(f) /\ ~Midway(f)' BY <1>1, <1>4 DEF Midway
  <2>2. Applied(f, DOMAIN content[f])' BY <1>1, <1>2, <2>1, OthersKept DEF FilesInv
  <2> QED BY <2>1, <2>2
<1> QED BY <1>3, <1>4

\* Skip and StoreValue: one more member of the file the loader is at.
LEMMA MemberLoad == ASSUME FilesInv, Shape, Skip \/ StoreValue PROVE LoadInv'
<1> DEFINE member == Head(members)
<1>1. /\ UNCHANGED <<content, mtime, s_file2modifytime, file>>
      /\ pc \in {"apply", "store"} /\ pc' = "apply"
      /\ members # <<>> /\ members' = Tail(members)
      /\ file.file \in Files
  BY DEF Skip, StoreValue, filesystem, FilesInv, Times, Busy, Data
<1>2. \/ /\ UNCHANGED <<m_val, setter>>
         /\ member.name \in Variables /\ FromStrReturns(member) => m_val[member.name] = FromStr(member)
      \/ /\ member.name \in Variables /\ FromStrReturns(member)
         /\ m_val' = [m_val EXCEPT ![member.name] = FromStr(member)]
         /\ setter' = [setter EXCEPT ![member.name] = file.file]
  <2>1. CASE Skip BY <2>1 DEF Skip, Effective, values, Shape, Variables
  <2>2. CASE StoreValue BY <2>2 DEF StoreValue, Shape, Storing, Variables, FilesInv, Data
  <2> QED BY <2>1, <2>2
<1> SUFFICES ASSUME NEW f \in Files, Recorded(f)'
             PROVE  IF Midway(f)' THEN pc' = "read" \/ Partly(f)' ELSE Applied(f, DOMAIN content[f])'
  BY DEF LoadInv
<1>3. Recorded(f) BY <1>1 DEF Recorded
<1>4. CASE f = file.file
  <2>1. Midway(f) /\ Midway(f)' /\ pc # "read" BY <1>1, <1>4 DEF Midway
  <2>2. Partly(f) BY <1>3, <2>1 DEF FilesInv, LoadInv
  <2>3. /\ member.name \in Variables /\ FromStrReturns(member) => m_val'[member.name] = FromStr(member)
        /\ \A v \in Variables : v # member.name => m_val'[v] = m_val[v] /\ setter'[v] = setter[v]
        /\ UNCHANGED <<m_val, setter>> \/ FromStrReturns(member)
    BY <1>2 DEF Shape, Variables, FilesInv, Data
  <2>4. content'[f] = content[f] /\ content[f] # Broken BY <1>1, <1>3 DEF Recorded
  <2>5. Partly(f)' BY <1>1, <2>2, <2>3, <2>4, OneMore DEF FilesInv
  <2> QED BY <2>1, <2>5
<1>5. CASE f # file.file
  <2>1. ~Midway(f) /\ ~Midway(f)' BY <1>1, <1>5 DEF Midway
  <2>2. file.file \notin {f, NoFile} BY <1>1, <1>5, ConfigAssumption
  <2>3. \/ UNCHANGED <<m_val, setter>>
        \/ \E v \in Variables : \E val, other :
             /\ other \notin {f, NoFile}
             /\ m_val' = [m_val EXCEPT ![v] = val] /\ setter' = [setter EXCEPT ![v] = other]
    BY <1>2, <2>2
  <2>4. Applied(f, DOMAIN content[f])' BY <1>1, <1>3, <2>1, <2>3, OthersKept DEF FilesInv
  <2> QED BY <2>1, <2>4
<1> QED BY <1>4, <1>5

\* Nothing is left of the file: all of it has been applied.
LEMMA FileDoneLoad == ASSUME FilesInv, Shape, FileDone PROVE LoadInv'
<1>1. /\ UNCHANGED <<content, mtime, s_file2modifytime, m_val, setter, file>>
      /\ pc = "apply" /\ pc' = "next" /\ members = <<>>
  BY DEF FileDone, filesystem, values
<1> SUFFICES ASSUME NEW f \in Files, Recorded(f)'
             PROVE  IF Midway(f)' THEN pc' = "read" \/ Partly(f)' ELSE Applied(f, DOMAIN content[f])'
  BY DEF LoadInv
<1>2. Recorded(f) /\ ~Midway(f)' BY <1>1 DEF Recorded, Midway
<1>3. CASE f = file.file
  <2>1. Partly(f) BY <1>1, <1>2, <1>3 DEF FilesInv, LoadInv, Midway
  <2>2. PICK h, done : done = Before(content[f], members, h) /\ Applied(f, done) BY <2>1 DEF Partly
  <2>3. done = DOMAIN content[f] BY <1>1, <2>2 DEF Before
  <2>4. Applied(f, done)' BY <1>1, <2>2, AppliedKept
  <2>5. Applied(f, DOMAIN content[f])' BY <1>1, <2>3, <2>4 DEF Applied
  <2> QED BY <1>2, <2>5
<1>4. CASE f # file.file
  <2>1. ~Midway(f) BY <1>4 DEF Midway
  <2>2. Applied(f, DOMAIN content[f])' BY <1>1, <1>2, <2>1, OthersKept DEF FilesInv
  <2> QED BY <1>2, <2>2
<1> QED BY <1>3, <1>4

\* The other thread takes the variable from whoever set it.
LEMMA ClientStoreLoad == ASSUME FilesInv, Shape, ClientStore PROVE LoadInv'
<1>1. /\ UNCHANGED <<content, mtime, s_file2modifytime, pc, file, members>>
      /\ m_val' = [m_val EXCEPT !["timeout"] = client[1]]
      /\ setter' = [setter EXCEPT !["timeout"] = Client]
  BY DEF ClientStore, filesystem, loader
<1> SUFFICES ASSUME NEW f \in Files, Recorded(f)'
             PROVE  IF Midway(f)' THEN pc' = "read" \/ Partly(f)' ELSE Applied(f, DOMAIN content[f])'
  BY DEF LoadInv
<1>2. Recorded(f) /\ (Midway(f)' <=> Midway(f)) BY <1>1 DEF Recorded, Midway
<1>3. Client \notin {f, NoFile} /\ "timeout" \in Variables BY ConfigAssumption DEF Variables
<1>4. CASE Midway(f)
  <2>1. CASE pc = "read" BY <1>1, <1>2, <1>4, <2>1
  <2>2. CASE Partly(f)
    <3>1. PICK h, done : /\ Places(content[f], members, h)
                         /\ done = Before(content[f], members, h)
                         /\ Applied(f, done)
      BY <2>2 DEF Partly
    <3>2. Applied(f, done)' BY <1>1, <1>3, <3>1, AppliedByOthers DEF FilesInv
    <3>3. Partly(f)' BY <1>1, <3>1, <3>2 DEF Partly
    <3> QED BY <1>2, <1>4, <3>3
  <2> QED BY <1>2, <1>4, <2>1, <2>2 DEF FilesInv, LoadInv
<1>5. CASE ~Midway(f)
  <2>1. \E v \in Variables : \E val, other :
          /\ other \notin {f, NoFile}
          /\ m_val' = [m_val EXCEPT ![v] = val] /\ setter' = [setter EXCEPT ![v] = other]
    BY <1>1, <1>3
  <2>2. Applied(f, DOMAIN content[f])' BY <1>1, <1>2, <1>5, <2>1, OthersKept DEF FilesInv
  <2> QED BY <1>2, <1>5, <2>2
<1> QED BY <1>4, <1>5

\* A file that changes has a newer time than the one written down.
LEMMA EditLoad ==
  ASSUME FilesInv, Shape, ~SameSecond, NEW f \in Files, NEW new \in Contents, Edit(f, new)
  PROVE  LoadInv'
<1>1. /\ UNCHANGED <<s_file2modifytime, m_val, setter, pc, file, members>>
      /\ content' = [content EXCEPT ![f] = new]
      /\ mtime' = [mtime EXCEPT ![f] = @ + 1]
  BY DEF Edit, loader, values
<1> SUFFICES ASSUME NEW g \in Files, Recorded(g)'
             PROVE  IF Midway(g)' THEN pc' = "read" \/ Partly(g)' ELSE Applied(g, DOMAIN content[g])'
  BY DEF LoadInv
<1>2. g # f
  <2> SUFFICES ASSUME g = f PROVE FALSE OBVIOUS
  <2>1. mtime'[f] = mtime[f] + 1 /\ s_file2modifytime[f] <= mtime[f]
        /\ mtime[f] \in Nat /\ s_file2modifytime[f] \in Nat
    BY <1>1 DEF FilesInv, Times
  <2> QED BY <1>1, <2>1 DEF Recorded
<1>3. content'[g] = content[g] /\ mtime'[g] = mtime[g] BY <1>1, <1>2 DEF FilesInv, Times, Data
<1>4. Recorded(g) /\ (Midway(g)' <=> Midway(g)) BY <1>1, <1>3 DEF Recorded, Midway
<1>5. CASE Midway(g)
  <2>1. CASE pc = "read" BY <1>1, <1>4, <1>5, <2>1
  <2>2. CASE Partly(g)
    <3>1. Partly(g)' BY <1>1, <1>3, <2>2, PartlyKept
    <3> QED BY <1>4, <1>5, <3>1
  <2> QED BY <1>4, <1>5, <2>1, <2>2 DEF FilesInv, LoadInv
<1>6. CASE ~Midway(g)
  <2>1. Applied(g, DOMAIN content[g])' BY <1>1, <1>3, <1>4, <1>6, OthersKept DEF FilesInv
  <2> QED BY <1>4, <1>6, <2>1
<1> QED BY <1>5, <1>6

LEMMA FilesKept == ASSUME IInv, FilesInv, ~SameSecond, [Next]_vars PROVE FilesInv'
<1>0. Shape BY DEF IInv
<1>1. LoadInv'
  <2>1. CASE InitEnv BY <2>1, LoadKept DEF InitEnv, FilesInv, Midway, filesystem, values
  <2>2. CASE LoadFromConfDir \/ (\E f \in todo : Stat(f)) \/ LoadReturns
    BY <2>2, LoadKept DEF LoadFromConfDir, Stat, LoadReturns, FilesInv, Midway, filesystem, values
  <2>3. CASE \E beyond \in BOOLEAN : SetValue(beyond)
    <3>1. /\ UNCHANGED <<content, mtime, s_file2modifytime, m_val, setter, file, members>>
          /\ pc = "apply" /\ pc' = "store"
      BY <2>3 DEF SetValue, filesystem
    <3> QED BY <3>1, LoadKept DEF FilesInv, Midway
  <2>4. CASE CheckTime BY <1>0, <2>4, CheckTimeLoad
  <2>5. CASE ReadFile BY <1>0, <2>5, ReadFileLoad
  <2>6. CASE Skip \/ StoreValue BY <1>0, <2>6, MemberLoad
  <2>7. CASE FileDone BY <1>0, <2>7, FileDoneLoad
  <2>8. CASE (\E val \in Timeouts : ClientSetValue(val)) \/ UNCHANGED vars
    <3>1. UNCHANGED <<content, mtime, s_file2modifytime, m_val, setter, pc, file, members>>
      BY <2>8 DEF ClientSetValue, vars, filesystem, loader, values
    <3> QED BY <3>1, LoadKept DEF FilesInv, Midway
  <2>9. CASE ClientStore BY <1>0, <2>9, ClientStoreLoad
  <2>10. CASE \E f \in Files, new \in Contents : Edit(f, new) BY <1>0, <2>10, EditLoad
  <2> QED BY <2>1, <2>2, <2>3, <2>4, <2>5, <2>6, <2>7, <2>8, <2>9, <2>10 DEF Next, Load
<1> QED BY <1>0, <1>1, TimesKept, DataKept DEF FilesInv

-----------------------------------------------------------------------------
\* When no file changes twice within a second of st_mtime, LoadFromConfDir()
\* leaves out only files it has applied: between loads the last convertible value
\* of a file whose time is written down is the variable's, unless another file or
\* thread has set it since, wherever edits and other threads cut in.
THEOREM LoadsAreCurrent ==
  ASSUME ~SameSecond
  PROVE  Spec => []LoadedIsCurrent
<1>1. IInv /\ FilesInv /\ [Next]_vars => FilesInv' BY FilesKept
<1>2. IInv /\ FilesInv => LoadedIsCurrent
  <2> SUFFICES ASSUME IInv, FilesInv, pc = "idle", NEW f \in Listing, Recorded(f),
                      NEW v \in DOMAIN m_val, Given(f, v) # {}, setter[v] \in {f, NoFile}
               PROVE  m_val[v] = FromStr(content[f][CHOOSE i \in Given(f, v) : \A j \in Given(f, v) : j <= i])
    BY DEF LoadedIsCurrent, Recorded
  <2>1. f \in Files /\ v \in Variables BY DEF Listing, IInv, Shape, Variables
  <2>2. Applied(f, DOMAIN content[f]) BY <2>1 DEF FilesInv, LoadInv, Midway
  <2>3. content[f] \in Seq(Range(content[f])) BY <2>1 DEF FilesInv, Data, IsContent, Recorded
  <2>4. PICK S, root : root = content[f] /\ root \in Seq(S) BY <2>3
  <2>5. Len(root) \in Nat /\ Given(f, v) \subseteq 1..Len(root) BY <2>4 DEF Given
  <2>6. PICK i : i = CHOOSE k \in Given(f, v) : \A j \in Given(f, v) : j <= k OBVIOUS
  <2>7. i \in Given(f, v) /\ \A j \in Given(f, v) : j <= i
    <3>1. \E k \in Given(f, v) : \A j \in Given(f, v) : j <= k BY <2>5, LastExists
    <3> QED BY <2>6, <3>1
  <2>8. i \in DOMAIN content[f] BY <2>7 DEF Given
  <2>9. m_val[v] = FromStr(content[f][i]) BY <2>1, <2>2, <2>7, <2>8 DEF Applied
  <2> QED BY <2>6, <2>9
<1> QED BY <1>1, <1>2, InitFiles, ConfigInvariant, PTL DEF Spec

-----------------------------------------------------------------------------
(* Env::init(), for every command line.  After n words the map has every   *)
(* key before the n-th word; the n-th, if it is a key, is pending.         *)

Words == [kind : {"key", "value"}, text : STRING]

Bad(i) == argv[i] = Key("") \/ (argv[i].kind = "value" /\ (i = 1 \/ argv[i - 1].kind = "value"))

\* The keys before the k-th word, and what one is followed by.
Keys(k) == {i \in DOMAIN argv : argv[i].kind = "key" /\ i < k}

After(i) == IF i < Len(argv) /\ argv[i + 1].kind = "value" THEN argv[i + 1].text ELSE ""

\* The map m is right about the words before the k-th.
Upto(m, k) ==
  /\ DOMAIN m = {argv[i].text : i \in Keys(k)}
  /\ \A i \in Keys(k) : (\A j \in Keys(k) : argv[j] = argv[i] => j <= i) => m[argv[i].text] = After(i)

\* Where the loop is after n words.
Read(s, n) ==
  /\ DOMAIN s = {"ok", "m_args", "now_key"} /\ s.ok \in BOOLEAN
  /\ s.ok => /\ \A i \in 1..n : ~Bad(i)
             /\ Upto(s.m_args, n)
             /\ s.now_key = IF n > 0 /\ argv[n].kind = "key" THEN argv[n] ELSE NoKey
  /\ ~s.ok => \E w \in 1..n : Bad(w) /\ (\A i \in 1..n : Bad(i) => w <= i) /\ Upto(s.m_args, w - 1)

\* add() of the key that is the k-th word, with what follows it.
LEMMA AddKey ==
  ASSUME argv \in Seq(Words), NEW k \in 1..Len(argv), argv[k].kind = "key", NEW m, Upto(m, k)
  PROVE  Upto(Add(m, argv[k], After(k)), k + 1)
<1> DEFINE new == Add(m, argv[k], After(k))
<1>1. /\ DOMAIN new = {argv[k].text} \cup DOMAIN m
      /\ new[argv[k].text] = After(k)
      /\ \A x \in DOMAIN m : x # argv[k].text => new[x] = m[x]
  BY DEF Add
<1> HIDE DEF new
<1>2. Keys(k + 1) = Keys(k) \cup {k} /\ \A j \in Keys(k) : j \in 1..Len(argv) /\ j < k BY DEF Keys
<1>3. DOMAIN new = {argv[i].text : i \in Keys(k + 1)} BY <1>1, <1>2 DEF Upto
<1>4. ASSUME NEW i \in Keys(k + 1), \A j \in Keys(k + 1) : argv[j] = argv[i] => j <= i
      PROVE  new[argv[i].text] = After(i)
  <2>1. CASE i = k BY <1>1, <2>1
  <2>2. CASE i \in Keys(k)
    <3>1. argv[k] # argv[i] BY <1>2, <1>4, <2>2
    <3>2. argv[k] \in Words /\ argv[i] \in Words /\ argv[i].kind = "key" BY <1>2, <2>2 DEF Keys
    <3>3. argv[k].text # argv[i].text BY <3>1, <3>2 DEF Words
    <3>4. m[argv[i].text] = After(i) BY <1>2, <1>4, <2>2 DEF Upto
    <3>5. argv[i].text \in DOMAIN m BY <2>2 DEF Upto
    <3> QED BY <1>1, <3>3, <3>4, <3>5
  <2> QED BY <1>2, <2>1, <2>2
<1> QED BY <1>3, <1>4 DEF Upto, new

\* A word that is no key adds none.
LEMMA NoKeyAdded ==
  ASSUME argv \in Seq(Words), NEW k \in Nat, k > 0 => k \in 1..Len(argv) /\ argv[k].kind # "key", NEW m, Upto(m, k)
  PROVE  Upto(m, k + 1)
<1>1. Keys(k + 1) = Keys(k) BY DEF Keys
<1> QED BY <1>1 DEF Upto

LEMMA WordRead ==
  ASSUME argv \in Seq(Words), NEW n \in Nat, n + 1 <= Len(argv), NEW s, Read(s, n)
  PROVE  Read(NextWord(s, argv[n + 1]), n + 1)
<1>1. PICK word, new : word = argv[n + 1] /\ new = NextWord(s, word) OBVIOUS
<1>2. /\ word \in Words /\ n + 1 \in 1..Len(argv)
      /\ \A i \in 1..(n + 1) : i \in 1..n \/ i = n + 1
      /\ 1..n \subseteq 1..(n + 1)
      /\ n > 0 => n \in 1..Len(argv) /\ argv[n] \in Words
  BY <1>1
<1>3. word.kind \in {"key", "value"} BY <1>2 DEF Words
<1>4. Bad(n + 1) <=> word = Key("") \/ (word.kind = "value" /\ (n = 0 \/ argv[n].kind = "value"))
  <2>1. (n + 1) - 1 = n /\ (n + 1 = 1 <=> n = 0) OBVIOUS
  <2> QED BY <1>1, <2>1 DEF Bad
<1>5. word = Key("") <=> word.kind = "key" /\ word.text = ""
  <2>1. word = [kind |-> word.kind, text |-> word.text] BY <1>2 DEF Words
  <2>2. Key("").kind = "key" /\ Key("").text = "" BY DEF Key
  <2>3. word.kind = "key" /\ word.text = "" => word = Key("") BY <2>1 DEF Key
  <2> QED BY <2>2, <2>3
<1>6. DOMAIN s = {"ok", "m_args", "now_key"} BY DEF Read
<1>7. DOMAIN new = {"ok", "m_args", "now_key"} BY <1>1, <1>6 DEF NextWord
<1>8. CASE ~s.ok
  <2>1. PICK w \in 1..n : Bad(w) /\ (\A i \in 1..n : Bad(i) => w <= i) /\ Upto(s.m_args, w - 1)
    BY <1>8 DEF Read
  <2>2. w \in 1..(n + 1) /\ w <= n + 1 BY <2>1
  <2>3. new = s BY <1>1, <1>8 DEF NextWord
  <2>4. \A i \in 1..(n + 1) : Bad(i) => w <= i BY <1>2, <2>1, <2>2
  <2>5. Read(s, n + 1) BY <1>8, <2>1, <2>2, <2>4 DEF Read
  <2> QED BY <1>1, <2>3, <2>5
<1>9. CASE s.ok
  <2>1. /\ \A i \in 1..n : ~Bad(i)
        /\ Upto(s.m_args, n)
        /\ s.now_key = IF n > 0 /\ argv[n].kind = "key" THEN argv[n] ELSE NoKey
    BY <1>9 DEF Read
  <2>2. (s.now_key # NoKey) <=> (n > 0 /\ argv[n].kind = "key") BY <2>1 DEF NoKey, Value
  <2>3. CASE Bad(n + 1)
    <3>1. new = [s EXCEPT !.ok = FALSE]
      <4>1. CASE word.kind = "key"
        <5>1. word.text = "" BY <1>4, <1>5, <2>3, <4>1
        <5> QED BY <1>1, <1>9, <4>1, <5>1 DEF NextWord
      <4>2. CASE word.kind = "value"
        <5>1. n = 0 \/ argv[n].kind = "value" BY <1>4, <1>5, <2>3, <4>2
        <5>2. s.now_key = NoKey BY <2>2, <5>1
        <5> QED BY <1>1, <1>9, <4>2, <5>2 DEF NextWord
      <4> QED BY <1>3, <4>1, <4>2
    <3>2. new.ok = FALSE /\ new.m_args = s.m_args BY <1>6, <3>1
    <3>3. n + 1 \in 1..(n + 1) /\ (\A i \in 1..(n + 1) : Bad(i) => n + 1 <= i) /\ (n + 1) - 1 = n
      BY <1>2, <2>1
    <3>4. Upto(new.m_args, (n + 1) - 1) BY <2>1, <3>2, <3>3
    <3>5. Read(new, n + 1) BY <1>7, <2>3, <3>2, <3>3, <3>4 DEF Read
    <3> QED BY <1>1, <3>5
  <2>4. CASE ~Bad(n + 1)
    <3>1. \A i \in 1..(n + 1) : ~Bad(i) BY <1>2, <2>1, <2>4
    <3>2. /\ new.ok = TRUE
          /\ new.m_args = IF n > 0 /\ argv[n].kind = "key" THEN Add(s.m_args, argv[n], After(n)) ELSE s.m_args
          /\ new.now_key = IF word.kind = "key" THEN word ELSE NoKey
      <4>1. CASE word.kind = "key"
        <5>1. word.text # "" BY <1>4, <1>5, <2>4, <4>1
        <5>2. After(n) = "" BY <1>1, <4>1 DEF After
        <5>3. new = [s EXCEPT !.m_args = AddPending(s), !.now_key = word] BY <1>1, <1>9, <4>1, <5>1 DEF NextWord
        <5>4. new.ok = s.ok /\ new.m_args = AddPending(s) /\ new.now_key = word BY <1>6, <5>3
        <5>5. s.ok = TRUE BY <1>9 DEF Read
        <5>6. AddPending(s) = IF n > 0 /\ argv[n].kind = "key" THEN Add(s.m_args, argv[n], "") ELSE s.m_args
          BY <2>1, <2>2 DEF AddPending
        <5> QED BY <4>1, <5>2, <5>4, <5>5, <5>6
      <4>2. CASE word.kind = "value"
        <5>0. n # 0 /\ argv[n].kind # "value" BY <1>4, <2>4, <4>2, Zenon
        <5>1. n > 0 /\ argv[n].kind # "value" BY <5>0
        <5>2. argv[n].kind = "key" BY <1>2, <5>1 DEF Words
        <5>3. After(n) = word.text
          <6>1. n < Len(argv) OBVIOUS
          <6> QED BY <1>1, <4>2, <6>1 DEF After
        <5>4. s.now_key = argv[n] /\ s.now_key # NoKey BY <2>1, <2>2, <5>1, <5>2
        <5>5. new = [s EXCEPT !.m_args = Add(s.m_args, s.now_key, word.text), !.now_key = NoKey]
          BY <1>1, <1>9, <4>2, <5>4 DEF NextWord
        <5>6. new.ok = s.ok /\ new.m_args = Add(s.m_args, s.now_key, word.text) /\ new.now_key = NoKey
          BY <1>6, <5>5
        <5>7. s.ok = TRUE BY <1>9 DEF Read
        <5> QED BY <4>2, <5>1, <5>2, <5>3, <5>4, <5>6, <5>7
      <4> QED BY <1>3, <4>1, <4>2
    <3>3. Upto(new.m_args, n + 1)
      <4>1. CASE n > 0 /\ argv[n].kind = "key" BY <1>2, <2>1, <3>2, <4>1, AddKey
      <4>2. CASE ~(n > 0 /\ argv[n].kind = "key") BY <1>2, <2>1, <3>2, <4>2, NoKeyAdded
      <4> QED BY <4>1, <4>2
    <3>4. n + 1 > 0 OBVIOUS
    <3>5. Read(new, n + 1) BY <1>1, <1>7, <3>1, <3>2, <3>3, <3>4 DEF Read
    <3> QED BY <1>1, <3>5
  <2> QED BY <2>3, <2>4
<1> QED BY <1>8, <1>9

\* What init() leaves in the map, for a command line of any length.
LEMMA InitReads ==
  ASSUME argv \in Seq(Words)
  PROVE  /\ DOMAIN EnvInit(argv).m_args = {argv[i].text : i \in Counted}
         /\ \A i \in Counted :
              (\A j \in Counted : argv[j] = argv[i] => j <= i) => EnvInit(argv).m_args[argv[i].text] = After(i)
<1> DEFINE First == [ok |-> TRUE, m_args |-> <<>>, now_key |-> NoKey]
           Step(g, i) == IF i = 0 THEN First ELSE NextWord(g[i - 1], argv[i])
           Fits(g, m) == g = [i \in 0..m |-> Step(g, i)]
           Loop == CHOOSE g : Fits(g, Len(argv))
           Runs == {m \in Nat : \E g : Fits(g, m)}
<1>0. Len(argv) \in Nat /\ DOMAIN argv = 1..Len(argv) OBVIOUS
<1>1. Len(argv) \in Runs
  <2>1. 0 \in Runs
    <3>1. Fits([i \in 0..0 |-> First], 0) OBVIOUS
    <3> QED BY <3>1
  <2>2. ASSUME NEW m \in Nat, m \in Runs PROVE m + 1 \in Runs
    <3>1. PICK g : Fits(g, m) BY <2>2
    <3> DEFINE f == [i \in 0..(m + 1) |-> IF i = m + 1 THEN Step(g, m + 1) ELSE g[i]]
    <3>2. \A i \in 0..m : f[i] = g[i] OBVIOUS
    <3>3. \A i \in 0..m : g[i] = Step(g, i) BY <3>1
    <3>4. \A i \in 0..(m + 1) : Step(f, i) = Step(g, i)
      <4> SUFFICES ASSUME NEW i \in 0..(m + 1) PROVE Step(f, i) = Step(g, i) OBVIOUS
      <4>1. i = 0 \/ i - 1 \in 0..m OBVIOUS
      <4> HIDE DEF f
      <4> QED BY <3>2, <4>1
    <3>5. \A i \in 0..(m + 1) : f[i] = Step(g, i)
      <4> HIDE DEF Step
      <4> QED BY <3>3
    <3>6. Fits(f, m + 1)
      <4>1. f = [i \in 0..(m + 1) |-> f[i]] OBVIOUS
      <4> HIDE DEF f, Step
      <4> QED BY <3>4, <3>5, <4>1
    <3> HIDE DEF f, Fits
    <3> QED BY <3>6
  <2> HIDE DEF Runs
  <2>3. Nat \subseteq Runs BY <2>1, <2>2, SetInduction
  <2> QED BY <1>0, <2>3
<1>2. Fits(Loop, Len(argv)) BY <1>1, Zenon
<1>3. EnvInit(argv).m_args =
        IF Loop[Len(argv)].ok THEN AddPending(Loop[Len(argv)]) ELSE Loop[Len(argv)].m_args
  BY DEF EnvInit
<1> HIDE DEF Loop
<1>4. \A i \in 0..Len(argv) : Loop[i] = Step(Loop, i) BY <1>2
<1> DEFINE Seen == {n \in Nat : n <= Len(argv) => Read(Loop[n], n)}
<1>5. Len(argv) \in Seen
  <2>1. 0 \in Seen
    <3>1. Loop[0] = First
      <4>1. 0 \in 0..Len(argv) BY <1>0
      <4>2. Loop[0] = Step(Loop, 0) BY <1>4, <4>1
      <4> QED BY <4>2
    <3>2. Upto(<<>>, 0)
      <4>1. Keys(0) = {} BY <1>0 DEF Keys
      <4> QED BY <4>1 DEF Upto
    <3>3. Read(First, 0) BY <3>2 DEF Read
    <3> QED BY <3>1, <3>3
  <2>2. ASSUME NEW m \in Nat, m \in Seen PROVE m + 1 \in Seen
    <3> SUFFICES ASSUME m + 1 <= Len(argv) PROVE Read(Loop[m + 1], m + 1) OBVIOUS
    <3>1. Read(Loop[m], m) BY <1>0, <2>2
    <3>2. Loop[m + 1] = NextWord(Loop[m], argv[m + 1])
      <4>1. m + 1 \in 0..Len(argv) /\ m + 1 # 0 /\ (m + 1) - 1 = m BY <1>0
      <4> QED BY <1>4, <4>1
    <3> QED BY <3>1, <3>2, WordRead
  <2> HIDE DEF Seen
  <2>3. Nat \subseteq Seen BY <2>1, <2>2, SetInduction
  <2> QED BY <1>0, <2>3
<1>6. PICK s, n : s = Loop[Len(argv)] /\ n = Len(argv) OBVIOUS
<1>7. Read(s, n) /\ n \in Nat BY <1>0, <1>5, <1>6
<1>8. PICK m : m = EnvInit(argv).m_args OBVIOUS
<1>9. Wrong = IF {i \in 1..n : Bad(i)} = {} THEN 0
              ELSE CHOOSE i \in {k \in 1..n : Bad(k)} : \A j \in {k \in 1..n : Bad(k)} : i <= j
  BY <1>0, <1>6 DEF Wrong, Bad
<1>10. CASE s.ok
  <2>1. Wrong = 0 BY <1>7, <1>9, <1>10 DEF Read
  <2>2. Counted = Keys(n + 1) BY <1>0, <1>6, <1>7, <2>1 DEF Counted, Keys
  <2>3. m = AddPending(s) BY <1>3, <1>6, <1>8, <1>10
  <2>4. Upto(s.m_args, n) /\ s.now_key = IF n > 0 /\ argv[n].kind = "key" THEN argv[n] ELSE NoKey
    BY <1>7, <1>10 DEF Read
  <2>5. Upto(m, n + 1)
    <3>1. CASE n > 0 /\ argv[n].kind = "key"
      <4>1. s.now_key = argv[n] /\ NoKey.kind = "value" BY <2>4, <3>1 DEF NoKey, Value
      <4>2. s.now_key # NoKey BY <3>1, <4>1
      <4>3. m = Add(s.m_args, argv[n], "") BY <2>3, <4>1, <4>2 DEF AddPending
      <4>4. ~(n < Len(argv)) /\ n \in 1..Len(argv) BY <1>0, <1>6, <3>1
      <4>5. After(n) = "" BY <4>4 DEF After
      <4>6. Upto(Add(s.m_args, argv[n], After(n)), n + 1) BY <2>4, <3>1, <4>4, AddKey
      <4> QED BY <4>3, <4>5, <4>6
    <3>2. CASE ~(n > 0 /\ argv[n].kind = "key")
      <4>1. m = s.m_args BY <2>3, <2>4, <3>2 DEF AddPending
      <4> QED BY <1>6, <1>7, <2>4, <3>2, <4>1, NoKeyAdded
    <3> QED BY <3>1, <3>2
  <2> QED BY <1>8, <2>2, <2>5 DEF Upto
<1>11. CASE ~s.ok
  <2>1. PICK w \in 1..n : Bad(w) /\ (\A i \in 1..n : Bad(i) => w <= i) /\ Upto(s.m_args, w - 1)
    BY <1>7, <1>11 DEF Read
  <2>2. Wrong = w
    <3>1. PICK bad : bad = {i \in 1..n : Bad(i)} OBVIOUS
    <3>2. w \in bad /\ \A j \in bad : w <= j BY <2>1, <3>1
    <3>3. bad \subseteq Nat BY <3>1
    <3>4. \A k \in bad : (\A j \in bad : k <= j) => k = w BY <3>2, <3>3
    <3>5. Wrong = CHOOSE i \in bad : \A j \in bad : i <= j BY <1>9, <3>1, <3>2
    <3> QED BY <3>2, <3>4, <3>5
  <2>3. Counted = Keys(w - 1) BY <1>0, <2>2 DEF Counted, Keys
  <2>4. m = s.m_args BY <1>3, <1>6, <1>8, <1>11
  <2> QED BY <1>8, <2>1, <2>3, <2>4 DEF Upto
<1> QED BY <1>10, <1>11

\* However many words a program is started with, and in whatever order, Env has
\* the keys up to the first error, each with the value it was given last, from
\* Env::init() on.
THEOREM ArgumentsKept == Spec => []ArgsMean
<1> DEFINE Inv == argv \in Seq(Words) /\ (pc # "main" => m_args = EnvInit(argv).m_args)
<1>1. Init => Inv BY InputsAssumption DEF Init, Words
<1>2. Inv /\ [Next]_vars => Inv'
  <2> SUFFICES ASSUME Inv, [Next]_vars PROVE Inv' OBVIOUS
  <2>1. CASE InitEnv BY <2>1 DEF InitEnv
  <2>2. CASE ~InitEnv
    <3>1. UNCHANGED <<argv, m_args>> /\ (pc' # "main" => pc # "main")
      BY <2>2 DEF Next, Load, LoadFromConfDir, Stat, CheckTime, ReadFile, Skip, StoreValue, FileDone,
                  LoadReturns, SetValue, ClientSetValue, ClientStore, Edit, vars, loader
    <3> QED BY <3>1
  <2> QED BY <2>1, <2>2
<1>3. Inv => ArgsMean
  <2> SUFFICES ASSUME Inv, pc # "main" PROVE ArgsMean BY DEF ArgsMean
  <2> QED BY InitReads DEF ArgsMean, After
<1> QED BY <1>1, <1>2, <1>3, PTL DEF Spec

-----------------------------------------------------------------------------
(* Types, and what formatters are made from: every appender a logger ever  *)
(* has is LogAppender() of a pattern.                                      *)

Appenders ==
  {LogAppender([m_type |-> type, m_pattern |-> pattern], beyond) :
     type \in {"file", "stdout"}, pattern \in Seq(Characters), beyond \in BOOLEAN}

LoggerType == [m_level : Levels, m_appenders : Seq(Appenders)]

IsDefine(def) ==
  /\ def.m_name \in Loggers /\ def.level \in Levels
  /\ \E S : /\ def.m_appenders \in Seq(S)
           /\ \A x \in S : x.m_type \in {"file", "stdout"} /\ x.m_pattern \in Seq(Characters)

ValuesOK ==
  /\ m_val.timeout \in Int /\ s_connect_timeout \in 0..(UintRange - 1)
  /\ client # <<>> => client[1] \in Int
  /\ \A def \in m_val.logs : IsDefine(def)
  /\ m_loggers \in [Loggers -> LoggerType]

LEMMA UnsignedTyped == ASSUME NEW val \in Int PROVE Unsigned(val) \in 0..(UintRange - 1)
  BY ConfigAssumption DEF Unsigned

\* A node that converts gives a LogDefine of usable appenders.
LEMMA LogDefineTyped == ASSUME NEW node, IsNode(node), Converts(node) PROVE IsDefine(LogDefine(node))
<1>1. PICK T, appenders : /\ appenders = node.appenders /\ appenders \in Seq(T)
                          /\ \A x \in T : x.pattern \in {NotDefined} \cup Seq(Characters)
  BY DEF IsNode
<1>2. PICK keep : keep = {i \in DOMAIN appenders : Usable(appenders[i])} OBVIOUS
<1>3. PICK usable : usable = Subsequence(appenders, keep) OBVIOUS
<1>4. usable \in Seq(T) BY <1>1, <1>3, SubsequenceIs
<1>5. PICK h : Kept(appenders, keep, usable, h) BY <1>1, <1>3, SubsequenceIs
<1>6. DOMAIN usable = 1..Len(usable) /\ Len(usable) \in Nat BY <1>4
<1>7. \A i \in 1..Len(usable) : usable[i] \in T /\ Usable(usable[i]) BY <1>2, <1>4, <1>5, <1>6 DEF Kept
<1>8. PICK S : S = {LogAppenderDefine(x) : x \in {y \in T : Usable(y)}} OBVIOUS
<1>9. PICK made : made = [i \in DOMAIN usable |-> LogAppenderDefine(usable[i])] OBVIOUS
<1>10. made \in Seq(S)
  <2>1. made \in [1..Len(usable) -> S] BY <1>6, <1>7, <1>8, <1>9
  <2> QED BY <1>6, <2>1
<1>11. ASSUME NEW x \in S PROVE x.m_type \in {"file", "stdout"} /\ x.m_pattern \in Seq(Characters)
  <2>1. PICK y \in T : Usable(y) /\ x = LogAppenderDefine(y) BY <1>8
  <2>2. x.m_type = y.type /\ x.m_pattern = IF y.pattern = NotDefined THEN <<>> ELSE y.pattern
    BY <2>1 DEF LogAppenderDefine
  <2>3. y.type \in {"file", "stdout"} BY <2>1 DEF Usable
  <2>4. <<>> \in Seq(Characters) OBVIOUS
  <2>5. y.pattern \in {NotDefined} \cup Seq(Characters) BY <1>1, <2>1
  <2> QED BY <2>2, <2>3, <2>4, <2>5
<1>12. PICK def : def = LogDefine(node) OBVIOUS
<1>13. def.m_name = node.name /\ def.level = FromString(node.level) /\ def.m_appenders = made
  BY <1>1, <1>2, <1>3, <1>9, <1>12 DEF LogDefine
<1>14. def.m_name \in Loggers BY <1>13 DEF IsNode, Converts
<1>15. def.level \in Levels BY <1>13 DEF FromString, Levels
<1> QED BY <1>10, <1>11, <1>12, <1>13, <1>14, <1>15 DEF IsDefine

\* The values FromStr{} returns.
LEMMA FromStrTyped ==
  ASSUME NEW member, IsMember(member), FromStrReturns(member)
  PROVE  /\ member.name = "timeout" => FromStr(member) \in Int
         /\ member.name = "logs" => \A def \in FromStr(member) : IsDefine(def)
<1>1. ASSUME member.name = "timeout" PROVE FromStr(member) \in Int
  BY <1>1 DEF IsMember, FromStrReturns, FromStr
<1>2. ASSUME member.name = "logs", NEW def \in FromStr(member) PROVE IsDefine(def)
  <2>1. PICK T, nodes : /\ nodes = member.val /\ nodes \in Seq(T) /\ \A node \in T : IsNode(node)
    BY <1>2 DEF IsMember
  <2>2. def \in Logs(nodes) /\ LogsConvert(nodes) BY <1>2, <2>1 DEF FromStr, FromStrReturns
  <2>3. PICK i \in 1..Len(nodes) : def = LogDefine(nodes[i]) BY <2>2 DEF Logs
  <2>4. i \in DOMAIN nodes /\ nodes[i] \in T BY <2>1
  <2>5. IsNode(nodes[i]) /\ Converts(nodes[i]) BY <2>1, <2>2, <2>4 DEF LogsConvert
  <2> QED BY <2>3, <2>5, LogDefineTyped
<1> QED BY <1>1, <1>2

LEMMA ConfigureTyped ==
  ASSUME NEW def, IsDefine(def), NEW daemon \in BOOLEAN, NEW beyond \in BOOLEAN
  PROVE  Configure(def, daemon, beyond) \in LoggerType
<1>1. PICK S : /\ def.m_appenders \in Seq(S)
               /\ \A x \in S : x.m_type \in {"file", "stdout"} /\ x.m_pattern \in Seq(Characters)
  BY DEF IsDefine
<1>2. PICK made : made = Made(def.m_appenders, daemon) OBVIOUS
<1>3. made \in Seq(S) BY <1>1, <1>2, SubsequenceIs DEF Made
<1>4. DOMAIN made = 1..Len(made) /\ Len(made) \in Nat /\ \A i \in 1..Len(made) : made[i] \in S BY <1>3
<1>5. ASSUME NEW x \in S PROVE LogAppender(x, beyond) \in Appenders
  <2>1. PICK type, pattern : type = x.m_type /\ pattern = x.m_pattern OBVIOUS
  <2>2. LogAppender(x, beyond) = LogAppender([m_type |-> type, m_pattern |-> pattern], beyond)
    BY <2>1 DEF LogAppender
  <2>3. type \in {"file", "stdout"} /\ pattern \in Seq(Characters) BY <1>1, <2>1
  <2> QED BY <2>2, <2>3 DEF Appenders
<1>6. PICK appenders : appenders = [i \in DOMAIN made |-> LogAppender(made[i], beyond)] OBVIOUS
<1>7. appenders \in Seq(Appenders)
  <2>1. appenders \in [1..Len(made) -> Appenders] BY <1>4, <1>5, <1>6
  <2> QED BY <1>4, <2>1
<1>8. Configure(def, daemon, beyond) = [m_level |-> def.level, m_appenders |-> appenders]
  BY <1>2, <1>6 DEF Configure
<1>9. def.level \in Levels BY DEF IsDefine
<1> QED BY <1>7, <1>8, <1>9 DEF LoggerType

LEMMA NewLoggerTyped == ASSUME NEW name PROVE NewLogger(name) \in LoggerType
<1>1. "INFO" \in Levels BY DEF Levels
<1>2. <<>> \in Seq(Appenders) /\ <<>> \in Seq(Characters) OBVIOUS
<1>3. PICK x : x = LogAppender([m_type |-> "stdout", m_pattern |-> <<>>], TRUE) OBVIOUS
<1>4. x \in Appenders
  <2>1. PICK type, pattern, beyond : type = "stdout" /\ pattern = <<>> /\ beyond = TRUE OBVIOUS
  <2>2. type \in {"file", "stdout"} /\ beyond \in BOOLEAN BY <2>1
  <2>3. pattern \in Seq(Characters) BY <1>2, <2>1
  <2>4. x = LogAppender([m_type |-> type, m_pattern |-> pattern], beyond) BY <1>3, <2>1
  <2> QED BY <2>2, <2>3, <2>4 DEF Appenders
<1>5. <<x>> \in Seq(Appenders) BY <1>4
<1>6. NewLogger(name) = [m_level |-> "INFO", m_appenders |-> IF name = "root" THEN <<x>> ELSE <<>>]
  BY <1>3 DEF NewLogger
<1> QED BY <1>1, <1>2, <1>5, <1>6 DEF LoggerType

LEMMA ListenerTyped ==
  ASSUME NEW loggers \in [Loggers -> LoggerType], NEW old, NEW new, \A def \in new : IsDefine(def),
         NEW daemon \in BOOLEAN, NEW beyond \in BOOLEAN
  PROVE  OnLogsChange(loggers, old, new, daemon, beyond) \in [Loggers -> LoggerType]
<1>1. Silence \in LoggerType
  <2>1. "NOTSET" \in Levels /\ <<>> \in Seq(Appenders) BY DEF Levels
  <2> QED BY <2>1 DEF Silence, LoggerType
<1>2. ASSUME NEW name \in Loggers, Find(new, name) \ old # {}
      PROVE  Configure(CHOOSE def \in Find(new, name) : TRUE, daemon, beyond) \in LoggerType
  <2>1. PICK def : def = CHOOSE d \in Find(new, name) : TRUE OBVIOUS
  <2>2. def \in Find(new, name) BY <1>2, <2>1
  <2>3. IsDefine(def) BY <2>2 DEF Find
  <2> QED BY <2>1, <2>3, ConfigureTyped
<1> QED BY <1>1, <1>2 DEF OnLogsChange

\* What the member at hand is.
LEMMA MemberTyped == ASSUME Data, members # <<>> PROVE IsMember(Head(members))
<1>1. PICK S : members \in Seq(S) /\ \A member \in S : IsMember(member) BY DEF Data
<1>2. Head(members) \in S BY <1>1, HeadTailProperties
<1> QED BY <1>1, <1>2

LEMMA ValuesKept == ASSUME Shape, Data, ValuesOK, [Next]_vars PROVE ValuesOK'
<1>1. CASE \E beyond \in BOOLEAN : SetValue(beyond)
  <2>1. PICK beyond \in BOOLEAN : SetValue(beyond) BY <1>1
  <2>2. PICK member : member = Head(members) OBVIOUS
  <2>3. /\ members # <<>> /\ UNCHANGED <<m_val, client>> /\ FromStrReturns(member)
        /\ member.name \in {"logs", "timeout"}
        /\ Notify(member.name, FromStr(member), beyond)
    BY <2>1, <2>2 DEF SetValue, Effective, Shape
  <2>4. IsMember(member) BY <2>2, <2>3, MemberTyped
  <2>5. CASE member.name = "timeout"
    <3>1. s_connect_timeout' = Unsigned(FromStr(member)) /\ UNCHANGED m_loggers BY <2>3, <2>5 DEF Notify
    <3>2. FromStr(member) \in Int BY <2>3, <2>4, <2>5, FromStrTyped
    <3> QED BY <2>3, <3>1, <3>2, UnsignedTyped DEF ValuesOK
  <2>6. CASE member.name = "logs"
    <3>1. /\ m_loggers' = OnLogsChange(m_loggers, m_val.logs, FromStr(member), Has(m_args, "d"), beyond)
          /\ UNCHANGED s_connect_timeout
      BY <2>3, <2>6 DEF Notify
    <3>2. \A def \in FromStr(member) : IsDefine(def) BY <2>3, <2>4, <2>6, FromStrTyped
    <3>3. PICK daemon : daemon = Has(m_args, "d") OBVIOUS
    <3>4. daemon \in BOOLEAN BY <3>3 DEF Has
    <3>5. m_loggers' \in [Loggers -> LoggerType] BY <2>1, <3>1, <3>2, <3>3, <3>4, ListenerTyped DEF ValuesOK
    <3> QED BY <2>3, <3>1, <3>5 DEF ValuesOK
  <2> QED BY <2>3, <2>5, <2>6
<1>2. CASE StoreValue
  <2>1. PICK member : member = Head(members) OBVIOUS
  <2>2. /\ pc = "store" /\ m_val' = [m_val EXCEPT ![member.name] = FromStr(member)]
        /\ UNCHANGED <<m_loggers, s_connect_timeout, client>>
    BY <1>2, <2>1 DEF StoreValue
  <2>3. members # <<>> /\ FromStrReturns(member) /\ member.name \in {"logs", "timeout"}
    BY <2>1, <2>2 DEF Data, Shape, Storing
  <2>4. IsMember(member) BY <2>1, <2>3, MemberTyped
  <2>5. CASE member.name = "timeout"
    <3>1. m_val'.timeout = FromStr(member) /\ m_val'.logs = m_val.logs BY <2>2, <2>5 DEF Shape
    <3>2. FromStr(member) \in Int BY <2>3, <2>4, <2>5, FromStrTyped
    <3> QED BY <2>2, <3>1, <3>2 DEF ValuesOK
  <2>6. CASE member.name = "logs"
    <3>1. m_val'.logs = FromStr(member) /\ m_val'.timeout = m_val.timeout BY <2>2, <2>6 DEF Shape
    <3>2. \A def \in FromStr(member) : IsDefine(def) BY <2>3, <2>4, <2>6, FromStrTyped
    <3> QED BY <2>2, <3>1, <3>2 DEF ValuesOK
  <2> QED BY <2>3, <2>5, <2>6
<1>3. CASE \E val \in Timeouts : ClientSetValue(val)
  <2>1. PICK val \in Timeouts : ClientSetValue(val) BY <1>3
  <2>2. s_connect_timeout' = Unsigned(val) /\ client' = <<val>> /\ UNCHANGED <<m_val, m_loggers>> BY <2>1 DEF ClientSetValue
  <2>3. val \in Int BY ConfigAssumption
  <2> QED BY <2>2, <2>3, UnsignedTyped DEF ValuesOK
<1>4. CASE ClientStore
  <2>1. client # <<>> /\ client' = <<>> /\ UNCHANGED <<m_loggers, s_connect_timeout>> BY <1>4 DEF ClientStore
  <2>2. m_val'.timeout = client[1] /\ m_val'.logs = m_val.logs BY <1>4 DEF ClientStore, Shape
  <2> QED BY <2>1, <2>2 DEF ValuesOK
<1>5. CASE \/ InitEnv \/ LoadFromConfDir \/ (\E f \in todo : Stat(f)) \/ CheckTime \/ ReadFile \/ Skip
           \/ FileDone \/ LoadReturns \/ (\E f \in Files, new \in Contents : Edit(f, new)) \/ UNCHANGED vars
  <2>1. UNCHANGED <<m_val, m_loggers, s_connect_timeout, client>>
    BY <1>5 DEF InitEnv, LoadFromConfDir, Stat, CheckTime, ReadFile, Skip, FileDone, LoadReturns, Edit, vars, values
  <2> QED BY <2>1 DEF ValuesOK
<1> QED BY <1>1, <1>2, <1>3, <1>4, <1>5 DEF Next, Load

PcOK == pc \in {"main", "idle", "next", "check", "read", "apply", "store"}

\* What the thread that loads, the other thread and the editor keep: Times and
\* Data of the files, ValuesOK of the variables and of what their listeners fill.
THEOREM TypeInvariant == Spec => [](Times /\ Data /\ ValuesOK /\ PcOK)
<1>1. Init => Times /\ Data /\ ValuesOK /\ PcOK
  <2> SUFFICES ASSUME Init PROVE Times /\ Data /\ ValuesOK /\ PcOK OBVIOUS
  <2>1. Times /\ Data BY InitFiles DEF FilesInv
  <2>2. m_loggers \in [Loggers -> LoggerType] BY NewLoggerTyped DEF Init
  <2>3. ValuesOK BY <2>2, ConfigAssumption, UnsignedTyped DEF Init, ValuesOK
  <2> QED BY <2>1, <2>3 DEF Init, PcOK
<1>2. IInv /\ Times /\ Data /\ ValuesOK /\ PcOK /\ [Next]_vars => (Times /\ Data /\ ValuesOK /\ PcOK)'
  <2> SUFFICES ASSUME IInv, Times, Data, ValuesOK, PcOK, [Next]_vars PROVE (Times /\ Data /\ ValuesOK /\ PcOK)'
    OBVIOUS
  <2>1. Times' /\ Data' /\ ValuesOK' BY TimesKept, DataKept, ValuesKept DEF IInv
  <2>2. PcOK'
    BY DEF PcOK, Next, Load, InitEnv, LoadFromConfDir, Stat, CheckTime, ReadFile, Skip, StoreValue, FileDone,
           LoadReturns, SetValue, ClientSetValue, ClientStore, Edit, vars, loader
  <2> QED BY <2>1, <2>2
<1> QED BY <1>1, <1>2, ConfigInvariant, PTL DEF Spec

\* What an appender of any logger is.
LEMMA AppenderIs ==
  ASSUME NEW x \in Appenders
  PROVE  \E beyond \in BOOLEAN :
           /\ x.type \in {"file", "stdout"} /\ x.pattern \in Seq(Characters)
           /\ x = [type |-> x.type, pattern |-> x.pattern, formatter |-> x.formatter]
           /\ (IF x.pattern = <<>> THEN DefaultPattern ELSE x.pattern) \in Seq(Characters)
           /\ x.formatter = Formatter(IF x.pattern = <<>> THEN DefaultPattern ELSE x.pattern, beyond)
<1>1. PICK type \in {"file", "stdout"}, pattern \in Seq(Characters), beyond \in BOOLEAN :
        x = LogAppender([m_type |-> type, m_pattern |-> pattern], beyond)
  BY DEF Appenders
<1>2. /\ x.type = type /\ x.pattern = pattern
      /\ x.formatter = Formatter(IF pattern = <<>> THEN DefaultPattern ELSE pattern, beyond)
      /\ x = [type |-> x.type, pattern |-> x.pattern, formatter |-> x.formatter]
  BY <1>1 DEF LogAppender
<1> QED BY <1>1, <1>2, PatternAssumption

\* Types: FromString() keeps levels to the ones there are, only timeouts that are
\* numbers are stored, and appenders have formatters of items, whatever the files
\* hold and whoever sets the variables.
THEOREM TypeCorrect == Spec => []TypeOK
<1>1. Times /\ Data /\ ValuesOK /\ PcOK => TypeOK
  <2> SUFFICES ASSUME Times, Data, ValuesOK, PcOK PROVE TypeOK OBVIOUS
  <2> DEFINE Formatters == [items : Seq(Items), error : BOOLEAN]
             AppenderType == [type : {"file", "stdout"}, pattern : Seq(Characters), formatter : Formatters]
  <2>1. Appenders \subseteq AppenderType
    <3> SUFFICES ASSUME NEW x \in Appenders PROVE x \in AppenderType OBVIOUS
    <3>1. PICK beyond \in BOOLEAN :
           /\ x.type \in {"file", "stdout"} /\ x.pattern \in Seq(Characters)
           /\ x = [type |-> x.type, pattern |-> x.pattern, formatter |-> x.formatter]
           /\ (IF x.pattern = <<>> THEN DefaultPattern ELSE x.pattern) \in Seq(Characters)
           /\ x.formatter = Formatter(IF x.pattern = <<>> THEN DefaultPattern ELSE x.pattern, beyond)
      BY AppenderIs
    <3>2. x.formatter \in Formatters BY <3>1, FormatterTyped
    <3> HIDE DEF Formatters
    <3> QED BY <3>1, <3>2
  <2>2. m_loggers \in [Loggers -> [m_level : Levels, m_appenders : Seq(AppenderType)]]
    <3> HIDE DEF AppenderType
    <3>1. Seq(Appenders) \subseteq Seq(AppenderType) BY <2>1
    <3> QED BY <3>1 DEF ValuesOK, LoggerType
  <2>3. \A def \in m_val.logs : def.m_name \in Loggers /\ def.level \in Levels BY DEF ValuesOK, IsDefine
  <2>4. pc \in {"check", "read", "apply", "store"} => file.file # NoFile BY ConfigAssumption DEF Times, Busy
  <2> QED BY <2>2, <2>3, <2>4 DEF TypeOK, Times, ValuesOK, PcOK
<1> QED BY <1>1, TypeInvariant, PTL

\* Every appender of every logger prints what its pattern says: the formatters
\* that listeners made, in whatever order files were loaded, and root's own.
THEOREM FormattersAreMeant == Spec => []FormattersMean
<1>1. ValuesOK => FormattersMean
  <2> SUFFICES ASSUME ValuesOK, NEW name \in Loggers, NEW i \in DOMAIN m_loggers[name].m_appenders
               PROVE  LET appender == m_loggers[name].m_appenders[i]
                          pattern == IF appender.pattern = <<>> THEN DefaultPattern ELSE appender.pattern
                      IN Plain(pattern) => appender.formatter = Meant(pattern)
    BY DEF FormattersMean
  <2>1. PICK x : x = m_loggers[name].m_appenders[i] OBVIOUS
  <2>2. x \in Appenders BY <2>1 DEF ValuesOK, LoggerType
  <2>3. PICK pattern : pattern = IF x.pattern = <<>> THEN DefaultPattern ELSE x.pattern OBVIOUS
  <2>4. PICK beyond \in BOOLEAN : pattern \in Seq(Characters) /\ x.formatter = Formatter(pattern, beyond)
    BY <2>2, <2>3, AppenderIs
  <2>5. Plain(pattern) => x.formatter = Meant(pattern) BY <2>4, FormatterMeant
  <2> QED BY <2>1, <2>3, <2>5
<1> QED BY <1>1, TypeInvariant, PTL
=============================================================================
