------------------------------ MODULE FdManager ------------------------------
(***************************************************************************)
(* FdManager and FdCtx (fd_manager.h, fd_manager.cpp) under the hooked     *)
(* calls that use them (hook.cpp): socket(), accept(), close(), fcntl(),   *)
(* ioctl() and setsockopt().                                               *)
(*                                                                         *)
(* The manager keeps, beside the kernel's descriptor table, a table of its *)
(* own.  The calls bring the two together step by step, each step under    *)
(* the manager's lock or in the kernel, and the kernel gives a number away *)
(* again as soon as close_f() has returned.  A thread without hook makes   *)
(* an FdCtx in accept() but deletes none in close(): the history variable  *)
(* orphaned has the numbers whose FdCtx such a close() left behind.        *)
(*                                                                         *)
(* Clients make one call at a time on a descriptor and none before         *)
(* socket() has returned it or after close() has been called.              *)
(***************************************************************************)
EXTENDS Naturals, FiniteSets

CONSTANTS
  Threads,
  Hooked,        \* the threads where t_hook_enable is true
  Fds,           \* descriptor numbers
  NoCtx,         \* a null FdCtx::ptr
  InitialSize,   \* 64 in FdManager()
  Infinite,      \* a timeout of numeric_limits<uint64_t>::max()
  Seconds,       \* tv_sec and tv_usec of the timevals clients pass to
  Microseconds,  \* setsockopt()
  IoctlFlags,    \* what clients pass to ioctl(FIONBIO)
  MaxOpens       \* bound: files ever opened

ASSUME FdManagerAssumption ==
  /\ IsFiniteSet(Threads) /\ Hooked \subseteq Threads
  /\ Fds \subseteq Nat /\ IsFiniteSet(Fds)
  /\ InitialSize \in Nat /\ InitialSize >= 2
  /\ MaxOpens \in Nat
  /\ NoCtx \notin 1..MaxOpens
  /\ Seconds \subseteq Nat /\ Microseconds \subseteq Nat
  /\ Infinite \notin Nat /\ Infinite \notin [tv_sec : Nat, tv_usec : Nat]
  /\ IoctlFlags \subseteq BOOLEAN

\* Files are numbered in the order they are opened; an FdCtx has the number of
\* the file it was made for.
FileIds == 1..MaxOpens

Timevals == [tv_sec : Seconds, tv_usec : Microseconds]

VARIABLES
  file,      \* kernel: the file a descriptor refers to, 0 if it is free
  isSocket,  \* kernel: what S_ISSOCK says of each file
  nonBlock,  \* kernel: O_NONBLOCK of each file
  opened,    \* how many files have been opened
  m_datas,   \* the manager's table
  m_size,    \* its size
  ctx,       \* m_isSocket, m_sysNonBlock, m_userNonBlock and m_recvTimeout of each FdCtx
  call,      \* the call each thread is in: where, on which descriptor, with what
             \* argument and with which FdCtx::ptr
  managed,   \* history: files get(fd, true) was called for
  wanted,    \* history: what clients asked of each file
  orphaned   \* history: numbers whose FdCtx was left by close() in an unhooked thread

kernelVars == <<file, isSocket, nonBlock, opened>>
tableVars == <<m_datas, m_size, ctx>>
vars == <<kernelVars, tableVars, call, managed, wanted, orphaned>>

NoCall == [at |-> "none", fd |-> 0, arg |-> FALSE, ctx |-> NoCtx]

\* Mutant: -1 stays a negative number instead of the largest unsigned one.
MutNewCtx(socket) ==
  [m_isSocket |-> socket, m_sysNonBlock |-> socket, m_userNonBlock |-> FALSE,
   m_recvTimeout |-> 0 - 1]

\* What FdCtx::init() leaves.
NewCtx(socket) ==
  [m_isSocket |-> socket, m_sysNonBlock |-> socket, m_userNonBlock |-> FALSE,
   m_recvTimeout |-> Infinite]

Init ==
  /\ file = [fd \in Fds |-> 0]
  /\ isSocket = [i \in FileIds |-> FALSE]
  /\ nonBlock = [i \in FileIds |-> FALSE]
  /\ opened = 0
  /\ m_datas = [fd \in Fds |-> NoCtx]
  /\ m_size = InitialSize
  /\ ctx = [i \in FileIds |-> NewCtx(FALSE)]
  /\ call = [t \in Threads |-> NoCall]
  /\ managed = {}
  /\ wanted = [i \in FileIds |-> [nonBlock |-> FALSE, timeout |-> Infinite]]
  /\ orphaned = {}

Free(t) == call[t].at = "none"

At(t, where) == call[t].at = where

Goto(t, where) == call' = [call EXCEPT ![t].at = where]

Return(t) == call' = [call EXCEPT ![t] = NoCall]

\* No call on the descriptor is under way.
AtRest(fd) == \A t \in Threads : ~Free(t) => call[t].fd # fd

\* A client may use the descriptor.
Usable(fd) == file[fd] # 0 /\ AtRest(fd)

\* FdManager::get(fd): the entry, null if the table is too short.
Get(fd) == IF m_size <= fd THEN NoCtx ELSE m_datas[fd]

-----------------------------------------------------------------------------
(* Opening.                                                                *)

\* The kernel opens a file at a free number.
OpenAt(fd, socket) ==
  /\ opened < MaxOpens
  /\ file[fd] = 0
  /\ opened' = opened + 1
  /\ file' = [file EXCEPT ![fd] = opened + 1]
  /\ isSocket' = [isSocket EXCEPT ![opened + 1] = socket]
  /\ nonBlock' = [nonBlock EXCEPT ![opened + 1] = FALSE]

\* open(), pipe() and the like are not hooked.
OpenFile(fd) ==
  /\ OpenAt(fd, FALSE)
  /\ UNCHANGED <<tableVars, call, managed, wanted, orphaned>>

\* The call goes on to FdManager::get(fd, true).
Register(t, fd) ==
  call' = [call EXCEPT ![t] = [at |-> "look", fd |-> fd, arg |-> FALSE, ctx |-> NoCtx]]

\* socket(): socket_f() has returned fd; only a hooked thread registers it.
Socket(t, fd) ==
  /\ Free(t)
  /\ OpenAt(fd, TRUE)
  /\ IF t \in Hooked THEN Register(t, fd) ELSE UNCHANGED call
  /\ UNCHANGED <<tableVars, managed, wanted, orphaned>>

\* accept(): do_io() has returned fd; every thread registers it.
Accept(t, fd) ==
  /\ Free(t)
  /\ OpenAt(fd, TRUE)
  /\ Register(t, fd)
  /\ UNCHANGED <<tableVars, managed, wanted, orphaned>>

\* get(fd, true) under the read lock: an entry that exists is taken as it is.
Look(t) ==
  LET fd == call[t].fd IN
  /\ At(t, "look")
  /\ IF Get(fd) # NoCtx THEN Return(t) /\ managed' = managed \cup {file[fd]}
     ELSE Goto(t, "create") /\ UNCHANGED managed
  /\ UNCHANGED <<kernelVars, tableVars, wanted, orphaned>>

\* m_datas.resize(n), then m_datas[fd] = the FdCtx for its file.
Store(fd, n) ==
  /\ m_size' = n
  /\ m_datas' = [g \in Fds |-> IF g = fd THEN file[fd] ELSE IF g < n THEN m_datas[g] ELSE NoCtx]

\* Mutant: the size is not looked at again under the write lock.
MutCreate(t) ==
  LET fd == call[t].fd
      n == (fd * 3) \div 2
  IN  /\ At(t, "create")
      /\ ctx' = [ctx EXCEPT ![file[fd]] = NewCtx(isSocket[file[fd]])]
      /\ nonBlock' = [nonBlock EXCEPT ![file[fd]] = @ \/ isSocket[file[fd]]]
      /\ Store(fd, n)
      /\ managed' = managed \cup {file[fd]}
      /\ Return(t)
      /\ UNCHANGED <<file, isSocket, opened, wanted, orphaned>>

\* get(fd, true) under the write lock.  FdCtx::init() looks at the file and makes
\* a socket non-blocking.
Create(t) ==
  LET fd == call[t].fd
      n == IF fd >= m_size THEN (fd * 3) \div 2 ELSE m_size
  IN  /\ At(t, "create")
      /\ ctx' = [ctx EXCEPT ![file[fd]] = NewCtx(isSocket[file[fd]])]
      /\ nonBlock' = [nonBlock EXCEPT ![file[fd]] = @ \/ isSocket[file[fd]]]
      /\ Store(fd, n)
      /\ managed' = managed \cup {file[fd]}
      /\ Return(t)
      /\ UNCHANGED <<file, isSocket, opened, wanted, orphaned>>

-----------------------------------------------------------------------------
(* close()                                                                 *)

\* An FdCtx means that events are cancelled (IOManager's part) and the entry is
\* deleted; an unhooked thread and a descriptor without FdCtx go to the kernel.
Close(t, fd) ==
  /\ Free(t) /\ Usable(fd)
  /\ call' = [call EXCEPT ![t] = [NoCall EXCEPT !.fd = fd,
                !.at = IF t \in Hooked /\ Get(fd) # NoCtx THEN "del" ELSE "close_f"]]
  /\ UNCHANGED <<kernelVars, tableVars, managed, wanted, orphaned>>

Del(t) ==
  /\ At(t, "del")
  /\ m_datas' = IF m_size <= call[t].fd THEN m_datas
                ELSE [m_datas EXCEPT ![call[t].fd] = NoCtx]
  /\ Goto(t, "close_f")
  /\ UNCHANGED <<kernelVars, m_size, ctx, managed, wanted, orphaned>>

\* close_f() frees the number; an entry that is still there in a thread without
\* hook stays.
CloseF(t) ==
  LET fd == call[t].fd IN
  /\ At(t, "close_f")
  /\ file' = [file EXCEPT ![fd] = 0]
  /\ orphaned' = IF t \in Hooked \/ Get(fd) = NoCtx THEN orphaned \ {fd} ELSE orphaned \cup {fd}
  /\ Return(t)
  /\ UNCHANGED <<isSocket, nonBlock, opened, tableVars, managed, wanted>>

-----------------------------------------------------------------------------
(* fcntl(), ioctl() and setsockopt().                                      *)

\* A call that concerns the FdCtx of a socket, or passes its argument on.
Enter(t, fd, arg, withCtx, without) ==
  /\ Free(t) /\ Usable(fd)
  /\ LET c == Get(fd) IN
     call' = [call EXCEPT ![t] = [fd |-> fd, arg |-> arg, ctx |-> c,
                at |-> IF c # NoCtx /\ ctx[c].m_isSocket THEN withCtx ELSE without]]
  /\ UNCHANGED <<kernelVars, tableVars, managed, orphaned>>

WantNonBlock(fd, arg) == wanted' = [wanted EXCEPT ![file[fd]].nonBlock = arg]

\* fcntl(fd, F_SETFL, arg), in every thread.
Fcntl(t, fd, arg) ==
  /\ Enter(t, fd, arg, "setfl", "set_f")
  /\ WantNonBlock(fd, arg)

\* Mutant: the user's flag goes to the kernel as it is.
MutSetFlPlain(t) ==
  /\ At(t, "setfl")
  /\ ctx' = [ctx EXCEPT ![call[t].ctx].m_userNonBlock = call[t].arg]
  /\ call' = [call EXCEPT ![t].at = "set_f"]
  /\ UNCHANGED <<kernelVars, m_datas, m_size, managed, wanted, orphaned>>

\* The wish is kept in the FdCtx; the kernel's flag stays as m_sysNonBlock says.
SetFl(t) ==
  /\ At(t, "setfl")
  /\ ctx' = [ctx EXCEPT ![call[t].ctx].m_userNonBlock = call[t].arg]
  /\ call' = [call EXCEPT ![t].at = "set_f", ![t].arg = ctx[call[t].ctx].m_sysNonBlock]
  /\ UNCHANGED <<kernelVars, m_datas, m_size, managed, wanted, orphaned>>

\* ioctl(fd, FIONBIO, arg) passes the flag on unchanged.
Ioctl(t, fd, arg) ==
  /\ Enter(t, fd, arg, "fionbio", "set_f")
  /\ WantNonBlock(fd, arg)

SetUserNonblock(t) ==
  /\ At(t, "fionbio")
  /\ ctx' = [ctx EXCEPT ![call[t].ctx].m_userNonBlock = call[t].arg]
  /\ Goto(t, "set_f")
  /\ UNCHANGED <<kernelVars, m_datas, m_size, managed, wanted, orphaned>>

\* fcntl_f(), ioctl_f()
SetF(t) ==
  /\ At(t, "set_f")
  /\ nonBlock' = [nonBlock EXCEPT ![file[call[t].fd]] = call[t].arg]
  /\ Return(t)
  /\ UNCHANGED <<file, isSocket, opened, tableVars, managed, wanted, orphaned>>

\* Mutant: the seconds are taken for milliseconds.
MutMilliseconds(val) == val.tv_sec + val.tv_usec \div 1000

Milliseconds(val) == val.tv_sec * 1000 + val.tv_usec \div 1000

\* setsockopt(SO_RCVTIMEO) in a hooked thread: setTimeout() if there is an FdCtx,
\* whatever kind of file it is for.  setsockopt_f() does not concern this table.
SetSockOpt(t, fd, val) ==
  /\ t \in Hooked
  /\ Free(t) /\ Usable(fd)
  /\ ctx' = IF Get(fd) = NoCtx THEN ctx
            ELSE [ctx EXCEPT ![Get(fd)].m_recvTimeout = Milliseconds(val)]
  /\ wanted' = [wanted EXCEPT ![file[fd]].timeout = val]
  /\ UNCHANGED <<kernelVars, m_datas, m_size, call, managed, orphaned>>

-----------------------------------------------------------------------------
Step(t) ==
  \/ Look(t) \/ Create(t) \/ Del(t) \/ CloseF(t)
  \/ SetFl(t) \/ SetUserNonblock(t) \/ SetF(t)

Next ==
  \/ \E fd \in Fds : OpenFile(fd)
  \/ \E t \in Threads :
       \/ Step(t)
       \/ \E fd \in Fds :
            \/ Socket(t, fd) \/ Accept(t, fd) \/ Close(t, fd)
            \/ \E arg \in BOOLEAN : Fcntl(t, fd, arg)
            \/ \E arg \in IoctlFlags : Ioctl(t, fd, arg)
            \/ \E val \in Timevals : SetSockOpt(t, fd, val)

Spec == Init /\ [][Next]_vars

-----------------------------------------------------------------------------
TypeOK ==
  /\ file \in [Fds -> 0..MaxOpens]
  /\ isSocket \in [FileIds -> BOOLEAN] /\ nonBlock \in [FileIds -> BOOLEAN]
  /\ opened \in 0..MaxOpens
  /\ m_datas \in [Fds -> FileIds \cup {NoCtx}] /\ m_size \in Nat
  /\ ctx \in [FileIds -> [m_isSocket : BOOLEAN, m_sysNonBlock : BOOLEAN,
                          m_userNonBlock : BOOLEAN, m_recvTimeout : Nat \cup {Infinite}]]
  /\ call \in [Threads -> [at : {"none", "look", "create", "del", "close_f", "setfl",
                                 "fionbio", "set_f"},
                           fd : Fds \cup {0}, arg : BOOLEAN, ctx : FileIds \cup {NoCtx}]]
  /\ managed \subseteq FileIds /\ orphaned \subseteq Fds

\* The manager's table agrees with the kernel's: a descriptor no call is working
\* on has an FdCtx exactly if socket() in a hooked thread or accept() returned it,
\* and the FdCtx was made for the file that is open now, not for an earlier file
\* with the same number; growing the table for one descriptor loses no other's.
\* The one exception in the code: a number whose FdCtx close() in an unhooked
\* thread left behind, until a hooked thread closes it.
TableIsExact ==
  \A fd \in Fds \ orphaned :
    AtRest(fd) => Get(fd) = IF file[fd] \in managed THEN file[fd] ELSE NoCtx

\* A time in milliseconds is the timeval, rounded down.
RoundsDown(ms, val) ==
  IF val = Infinite THEN ms = Infinite
  ELSE LET usec == val.tv_sec * 1000 * 1000 + val.tv_usec
       IN  ms * 1000 <= usec /\ usec < (ms + 1) * 1000

\* What a client has set on a managed socket is what F_GETFL and getTimeout()
\* report, to the millisecond, and nothing set on an earlier file with the same
\* number shows, unless the number is orphaned (see TableIsExact).
SettingsKept ==
  \A fd \in Fds \ orphaned : Usable(fd) /\ file[fd] \in managed /\ Get(fd) # NoCtx =>
    /\ ctx[Get(fd)].m_userNonBlock = wanted[file[fd]].nonBlock
    /\ RoundsDown(ctx[Get(fd)].m_recvTimeout, wanted[file[fd]].timeout)

\* A socket that do_io() treats as blocking is non-blocking in the kernel: the
\* system call cannot stop the thread and all its fibers, unless the number is
\* orphaned (see TableIsExact).
NeverBlocks ==
  \A fd \in Fds \ orphaned : Usable(fd) /\ Get(fd) # NoCtx /\ ~ctx[Get(fd)].m_userNonBlock =>
    nonBlock[file[fd]]
=============================================================================
