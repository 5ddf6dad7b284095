-------------------------- MODULE FdManagerProofs --------------------------
(***************************************************************************)
(* The manager's table is exact, settings are kept and no socket blocks a  *)
(* thread, for any threads, descriptor numbers and numbers of files.       *)
(*                                                                         *)
(* The argument: a descriptor is in at most one call, its file is open     *)
(* throughout the call, and files have different numbers.  Between calls   *)
(* and in every call up to close_f() the entry of a descriptor is that of  *)
(* the file that is open, or none.  An entry that an unhooked close() left *)
(* is that of a file which is open nowhere: what calls on the orphaned     *)
(* number write to it concerns no other descriptor.                        *)
(***************************************************************************)
EXTENDS FdManager, TLAPS

NothingWanted == [nonBlock |-> FALSE, timeout |-> Infinite]

\* A descriptor is in one call, and open while it is; hooked threads delete entries.
Calls ==
  /\ \A t, u \in Threads : ~Free(t) /\ ~Free(u) /\ call[t].fd = call[u].fd => t = u
  /\ \A t \in Threads : ~Free(t) => call[t].fd \in Fds /\ file[call[t].fd] # 0
  /\ \A t \in Threads : At(t, "del") => t \in Hooked

Files ==
  /\ \A fd \in Fds : file[fd] <= opened
  /\ \A fd, g \in Fds : file[fd] # 0 /\ file[fd] = file[g] => fd = g
  /\ \A i \in managed : i <= opened

\* No hooked thread is about to free the number.
NotClosing(fd) == \A t \in Hooked : At(t, "close_f") => call[t].fd # fd

\* The entry of every descriptor that is not being closed, and whose files the
\* entries are.
Table ==
  /\ m_size >= 2
  /\ \A fd \in Fds : fd >= m_size => m_datas[fd] = NoCtx
  /\ \A fd \in Fds : m_datas[fd] # NoCtx =>
       /\ m_datas[fd] <= opened
       /\ \A g \in Fds : file[g] = m_datas[fd] \/ m_datas[g] = m_datas[fd] => g = fd
  /\ \A fd \in Fds \ orphaned :
       NotClosing(fd) => m_datas[fd] = IF file[fd] \in managed THEN file[fd] ELSE NoCtx
  /\ \A t \in Threads :
       /\ At(t, "close_f") /\ t \in Hooked => m_datas[call[t].fd] = NoCtx
       /\ At(t, "look") \/ At(t, "create") => file[call[t].fd] \notin managed

Wanted ==
  /\ wanted \in [FileIds -> [nonBlock : BOOLEAN, timeout : Timevals \cup {Infinite}]]
  /\ \A i \in FileIds : i > opened => wanted[i] = NothingWanted
  /\ \A t \in Threads : At(t, "look") \/ At(t, "create") =>
       wanted[file[call[t].fd]] = NothingWanted /\ isSocket[file[call[t].fd]]

\* A call that is about to change a setting.
Pending(t, fd) == (At(t, "setfl") \/ At(t, "fionbio")) /\ call[t].fd = fd

\* The FdCtx of the file says what its clients want.
Kept(fd) ==
  /\ ctx[file[fd]].m_isSocket /\ ctx[file[fd]].m_sysNonBlock
  /\ RoundsDown(ctx[file[fd]].m_recvTimeout, wanted[file[fd]].timeout)
  /\ (\A t \in Threads : ~Pending(t, fd)) =>
       ctx[file[fd]].m_userNonBlock = wanted[file[fd]].nonBlock

\* A call about to change a setting has the FdCtx in the table.
Settings ==
  /\ \A t \in Threads : At(t, "setfl") \/ At(t, "fionbio") =>
       /\ call[t].ctx = m_datas[call[t].fd] /\ call[t].ctx # NoCtx
       /\ call[t].arg = wanted[file[call[t].fd]].nonBlock
  /\ \A fd \in Fds \ orphaned : file[fd] \in managed => Kept(fd)

\* Sockets of the manager are non-blocking in the kernel, and stay so.
KernelFlags ==
  /\ \A fd \in Fds \ orphaned : file[fd] \in managed => nonBlock[file[fd]]
  /\ \A t \in Threads :
       /\ At(t, "fionbio") => call[t].arg
       /\ At(t, "set_f") /\ file[call[t].fd] \in managed /\ call[t].fd \notin orphaned => call[t].arg

IInv == TypeOK /\ Calls /\ Files /\ Table /\ Wanted /\ Settings

-----------------------------------------------------------------------------
LEMMA GetIsEntry == ASSUME TypeOK, Table, NEW fd \in Fds PROVE Get(fd) = m_datas[fd]
BY FdManagerAssumption DEF TypeOK, Table, Get

\* A descriptor in a call refers to a file.
LEMMA BusyFile ==
  ASSUME IInv, NEW t \in Threads, ~Free(t)
  PROVE  call[t].fd \in Fds /\ file[call[t].fd] \in FileIds
<1>1. call[t].fd \in Fds /\ file[call[t].fd] # 0 BY DEF IInv, Calls
<1>2. file \in [Fds -> 0..MaxOpens] BY DEF IInv, TypeOK
<1>3. MaxOpens \in Nat BY FdManagerAssumption
<1>4. file[call[t].fd] \in 0..MaxOpens BY <1>1, <1>2
<1> QED BY <1>1, <1>3, <1>4 DEF FileIds

\* The code's conversion rounds down.
LEMMA Rounding ==
  /\ RoundsDown(Infinite, Infinite)
  /\ \A val \in Timevals : Milliseconds(val) \in Nat /\ RoundsDown(Milliseconds(val), val)
<1>1. RoundsDown(Infinite, Infinite) BY DEF RoundsDown
<1>2. ASSUME NEW val \in Timevals
      PROVE  Milliseconds(val) \in Nat /\ RoundsDown(Milliseconds(val), val)
  <2>1. val.tv_sec \in Nat /\ val.tv_usec \in Nat /\ val \in [tv_sec : Nat, tv_usec : Nat]
    BY FdManagerAssumption DEF Timevals
  <2>2. val # Infinite BY <2>1, FdManagerAssumption
  <2>3. ASSUME NEW sec \in Nat, NEW usec \in Nat, NEW d, d = usec \div 1000
        PROVE  /\ sec * 1000 + d \in Nat
               /\ (sec * 1000 + d) * 1000 <= sec * 1000 * 1000 + usec
               /\ sec * 1000 * 1000 + usec < (sec * 1000 + d + 1) * 1000
    <3>1. d \in Nat /\ d * 1000 <= usec /\ usec < d * 1000 + 1000 BY <2>3
    <3> QED BY <3>1
  <2>4. val.tv_usec \in Nat BY <2>1
  <2> QED BY <2>1, <2>2, <2>3, <2>4 DEF RoundsDown, Milliseconds
<1> QED BY <1>1, <1>2

LEMMA InitInv == Init => IInv /\ KernelFlags
<1> SUFFICES ASSUME Init PROVE IInv /\ KernelFlags OBVIOUS
<1>1. TypeOK BY FdManagerAssumption DEF Init, TypeOK, NoCall, NewCtx, FileIds
<1>2. Calls BY DEF Init, Calls, Free, At, NoCall
<1>3. Files BY DEF Init, Files
<1>4. Table BY FdManagerAssumption DEF Init, Table, At, NoCall
<1>5. Wanted BY FdManagerAssumption DEF Init, Wanted, At, NoCall, NothingWanted
<1>6. Settings /\ KernelFlags BY DEF Init, Settings, KernelFlags, At, NoCall
<1> QED BY <1>1, <1>2, <1>3, <1>4, <1>5, <1>6 DEF IInv

-----------------------------------------------------------------------------
(* Opening.                                                                *)

\* The kernel's step: a number nobody uses gets a file nobody has seen.
LEMMA OpenedAt ==
  ASSUME IInv, NEW fd \in Fds, NEW socket \in BOOLEAN, OpenAt(fd, socket)
  PROVE  /\ opened + 1 \in FileIds /\ opened' = opened + 1
         /\ file' \in [Fds -> 0..MaxOpens] /\ file'[fd] = opened + 1
         /\ \A g \in Fds : g # fd => file'[g] = file[g]
         /\ isSocket' \in [FileIds -> BOOLEAN] /\ isSocket'[opened + 1] = socket
         /\ nonBlock' \in [FileIds -> BOOLEAN]
         /\ \A i \in FileIds : i # opened + 1 => isSocket'[i] = isSocket[i] /\ nonBlock'[i] = nonBlock[i]
         /\ managed' = managed => Files'
         /\ opened + 1 \notin managed
         /\ \A t \in Threads : ~Free(t) => call[t].fd # fd
<1>1. file \in [Fds -> 0..MaxOpens] /\ opened \in 0..MaxOpens /\ MaxOpens \in Nat
  BY FdManagerAssumption DEF IInv, TypeOK
<1>2. /\ opened + 1 \in FileIds /\ opened' = opened + 1
      /\ file' \in [Fds -> 0..MaxOpens] /\ file'[fd] = opened + 1
      /\ \A g \in Fds : g # fd => file'[g] = file[g]
  BY <1>1 DEF OpenAt, FileIds
<1>3. /\ isSocket' \in [FileIds -> BOOLEAN] /\ isSocket'[opened + 1] = socket
      /\ nonBlock' \in [FileIds -> BOOLEAN]
      /\ \A i \in FileIds : i # opened + 1 => isSocket'[i] = isSocket[i] /\ nonBlock'[i] = nonBlock[i]
  BY <1>2 DEF OpenAt, IInv, TypeOK
<1>4. opened + 1 \notin managed BY <1>1 DEF IInv, Files
<1>5. \A t \in Threads : ~Free(t) => call[t].fd # fd BY DEF IInv, Calls, OpenAt
<1>6. ASSUME managed' = managed PROVE Files'
  <2>1. \A g \in Fds : file[g] <= opened /\ file[g] \in Nat BY <1>1 DEF IInv, Files
  <2>2. \A g \in Fds : file'[g] <= opened' BY <1>1, <1>2, <2>1
  <2>3. \A g \in Fds : file[g] # opened + 1 BY <1>1, <2>1
  <2>4. \A g, h \in Fds : file'[g] # 0 /\ file'[g] = file'[h] => g = h
    BY <1>2, <2>3 DEF IInv, Files
  <2>5. \A i \in managed : i \in Nat BY <1>1 DEF IInv, TypeOK, FileIds
  <2>6. \A i \in managed' : i <= opened' BY <1>1, <1>2, <1>6, <2>5 DEF IInv, Files
  <2> QED BY <2>2, <2>4, <2>6 DEF Files
<1> QED BY <1>2, <1>3, <1>4, <1>5, <1>6

\* What a new file leaves of the table and of the settings, whether a call goes on
\* with it or not.
LEMMA NewFile ==
  ASSUME IInv, NEW fd \in Fds, NEW socket \in BOOLEAN, OpenAt(fd, socket),
         UNCHANGED <<m_datas, m_size, ctx, managed, wanted, orphaned>>,
         \A u \in Threads : \/ call'[u] = call[u]
                            \/ Free(u) /\ At(u, "look")' /\ call'[u].fd = fd /\ socket
  PROVE  Table' /\ Wanted' /\ Settings' /\ (KernelFlags => KernelFlags')
<1>1. /\ opened + 1 \in FileIds /\ opened' = opened + 1
      /\ file' \in [Fds -> 0..MaxOpens] /\ file'[fd] = opened + 1
      /\ \A g \in Fds : g # fd => file'[g] = file[g]
      /\ isSocket' \in [FileIds -> BOOLEAN] /\ nonBlock' \in [FileIds -> BOOLEAN]
      /\ isSocket'[opened + 1] = socket
      /\ \A i \in FileIds : i # opened + 1 => isSocket'[i] = isSocket[i] /\ nonBlock'[i] = nonBlock[i]
      /\ opened + 1 \notin managed
      /\ \A u \in Threads : ~Free(u) => call[u].fd # fd
  BY OpenedAt
<1>2. \A u \in Threads : ~Free(u) => /\ call[u].fd \in Fds /\ file'[call[u].fd] = file[call[u].fd]
                                     /\ file[call[u].fd] \in FileIds
  BY <1>1, BusyFile
<1>3. opened \in Nat /\ MaxOpens \in Nat BY FdManagerAssumption DEF IInv, TypeOK
<1>4. file[fd] = 0 /\ 0 \notin managed BY DEF OpenAt, IInv, TypeOK, FileIds
<1>5. \A u \in Threads : ~Free(u) => file[call[u].fd] # opened + 1
  BY <1>2, <1>3 DEF IInv, Files, FileIds
<1>6. \A g \in Fds : file'[g] \in managed => g # fd /\ file'[g] = file[g] BY <1>1
<1>7. \A u \in Threads : ~At(u, "look")' /\ ~Free(u)' => call'[u] = call[u] /\ ~Free(u)
  BY DEF Free, At
<1>8. \A u \in Threads : ~Free(u) => call'[u] = call[u] OBVIOUS
<1>9. Table'
  <2>1. ASSUME NEW g \in Fds, m_datas[g] # NoCtx
        PROVE  /\ m_datas[g] <= opened'
               /\ \A h \in Fds : file'[h] = m_datas[g] \/ m_datas[h] = m_datas[g] => h = g
    <3>1. m_datas[g] \in FileIds /\ m_datas[g] <= opened BY <2>1 DEF IInv, TypeOK, Table
    <3>2. m_datas[g] \in Nat /\ m_datas[g] <= opened + 1 /\ m_datas[g] # opened + 1
      BY <1>3, <3>1 DEF FileIds
    <3> QED BY <1>1, <2>1, <3>2 DEF IInv, Table
  <2>2. ASSUME NEW g \in Fds \ orphaned, NotClosing(g)'
        PROVE  m_datas[g] = IF file'[g] \in managed THEN file'[g] ELSE NoCtx
    <3>1. NotClosing(g) BY <1>8, <2>2, FdManagerAssumption DEF NotClosing, At, Free
    <3>2. m_datas[g] = IF file[g] \in managed THEN file[g] ELSE NoCtx BY <3>1 DEF IInv, Table
    <3> QED BY <1>1, <1>4, <3>2
  <2>3. ASSUME NEW u \in Threads
        PROVE  /\ At(u, "close_f")' /\ u \in Hooked => m_datas[call'[u].fd] = NoCtx
               /\ At(u, "look")' \/ At(u, "create")' => file'[call'[u].fd] \notin managed
    <3>1. CASE call'[u] = call[u] BY <1>2, <3>1 DEF IInv, Table, At, Free
    <3>2. CASE At(u, "look")' /\ call'[u].fd = fd BY <1>1, <3>2 DEF At
    <3> QED BY <3>1, <3>2
  <2>4. m_size >= 2 /\ \A g \in Fds : g >= m_size => m_datas[g] = NoCtx BY DEF IInv, Table
  <2> QED BY <2>1, <2>2, <2>3, <2>4 DEF Table
<1>10. Wanted'
  <2>1. opened + 1 > opened /\ \A i \in FileIds : i > opened' => i > opened
    BY <1>1, <1>3 DEF FileIds
  <2>2. ASSUME NEW u \in Threads, At(u, "look")' \/ At(u, "create")'
        PROVE  wanted[file'[call'[u].fd]] = NothingWanted /\ isSocket'[file'[call'[u].fd]]
    <3>1. CASE call'[u] = call[u]
      <4>1. ~Free(u) /\ (At(u, "look") \/ At(u, "create")) BY <2>2, <3>1 DEF At, Free
      <4>2. /\ wanted[file[call[u].fd]] = NothingWanted /\ isSocket[file[call[u].fd]]
        BY <4>1 DEF IInv, Wanted
      <4> QED BY <1>1, <1>2, <1>5, <3>1, <4>1, <4>2
    <3>2. CASE call'[u].fd = fd /\ socket BY <1>1, <2>1, <3>2 DEF IInv, Wanted
    <3> QED BY <3>1, <3>2
  <2> QED BY <2>1, <2>2 DEF IInv, Wanted
<1>11. Settings'
  <2>1. ASSUME NEW u \in Threads, At(u, "setfl")' \/ At(u, "fionbio")'
        PROVE  /\ call'[u].ctx = m_datas'[call'[u].fd] /\ call'[u].ctx # NoCtx
               /\ call'[u].arg = wanted'[file'[call'[u].fd]].nonBlock
    <3>1. call'[u] = call[u] /\ ~Free(u) BY <1>7, <2>1 DEF At, Free
    <3> QED BY <1>2, <2>1, <3>1 DEF IInv, Settings, At
  <2>2. ASSUME NEW g \in Fds \ orphaned', file'[g] \in managed'
        PROVE  Kept(g)'
    <3>1. file'[g] = file[g] /\ file[g] \in managed /\ Kept(g) BY <1>6, <2>2 DEF IInv, Settings
    <3>2. \A u \in Threads : Pending(u, g) => Pending(u, g)' BY <1>8 DEF Pending, At, Free
    <3> QED BY <3>1, <3>2 DEF Kept
  <2> QED BY <2>1, <2>2 DEF Settings
<1>12. KernelFlags => KernelFlags'
  <2> SUFFICES ASSUME KernelFlags PROVE KernelFlags' OBVIOUS
  <2>1. ASSUME NEW g \in Fds \ orphaned', file'[g] \in managed' PROVE nonBlock'[file'[g]]
    <3>1. file'[g] = file[g] /\ file[g] \in managed /\ file[g] \in FileIds /\ file[g] # opened + 1
      BY <1>1, <1>6, <2>1 DEF IInv, TypeOK
    <3> QED BY <1>1, <3>1 DEF KernelFlags
  <2>2. ASSUME NEW u \in Threads
        PROVE  /\ At(u, "fionbio")' => call'[u].arg
               /\ At(u, "set_f")' /\ file'[call'[u].fd] \in managed' /\ call'[u].fd \notin orphaned' => call'[u].arg
    <3>1. CASE call'[u] = call[u] BY <1>2, <3>1 DEF KernelFlags, At, Free
    <3>2. CASE At(u, "look")' BY <3>2 DEF At
    <3> QED BY <3>1, <3>2
  <2> QED BY <2>1, <2>2 DEF KernelFlags
<1> QED BY <1>9, <1>10, <1>11, <1>12

LEMMA OpenFileInv ==
  ASSUME IInv, NEW fd \in Fds, OpenFile(fd)
  PROVE  IInv' /\ (KernelFlags => KernelFlags')
<1>0. OpenAt(fd, FALSE) /\ UNCHANGED <<m_datas, m_size, ctx, call, managed, wanted, orphaned>>
  BY DEF OpenFile, tableVars
<1>1. /\ opened + 1 \in FileIds /\ opened' = opened + 1
      /\ file' \in [Fds -> 0..MaxOpens] /\ file'[fd] = opened + 1
      /\ \A g \in Fds : g # fd => file'[g] = file[g]
      /\ isSocket' \in [FileIds -> BOOLEAN] /\ nonBlock' \in [FileIds -> BOOLEAN]
      /\ Files'
      /\ \A t \in Threads : ~Free(t) => call[t].fd # fd
  BY <1>0, OpenedAt
<1>2. \A t \in Threads : ~Free(t) => file'[call[t].fd] = file[call[t].fd]
  BY <1>1 DEF IInv, Calls
<1>3. TypeOK' BY <1>0, <1>1 DEF IInv, TypeOK, FileIds
<1>4. Calls' BY <1>0, <1>1, <1>2 DEF IInv, Calls, Free, At
<1>5. Table' /\ Wanted' /\ Settings' /\ (KernelFlags => KernelFlags') BY <1>0, NewFile
<1> QED BY <1>1, <1>3, <1>4, <1>5 DEF IInv

LEMMA SocketInv ==
  ASSUME IInv, NEW t \in Threads, NEW fd \in Fds, Socket(t, fd) \/ Accept(t, fd)
  PROVE  IInv' /\ (KernelFlags => KernelFlags')
<1>0. OpenAt(fd, TRUE) /\ UNCHANGED <<m_datas, m_size, ctx, managed, wanted, orphaned>> /\ Free(t)
  BY DEF Socket, Accept, tableVars
<1>1. /\ opened + 1 \in FileIds /\ opened' = opened + 1
      /\ file' \in [Fds -> 0..MaxOpens] /\ file'[fd] = opened + 1
      /\ \A g \in Fds : g # fd => file'[g] = file[g]
      /\ isSocket' \in [FileIds -> BOOLEAN] /\ nonBlock' \in [FileIds -> BOOLEAN]
      /\ Files'
      /\ \A u \in Threads : ~Free(u) => call[u].fd # fd
  BY <1>0, OpenedAt
<1>a. /\ call' \in [Threads -> [at : {"none", "look", "create", "del", "close_f", "setfl", "fionbio", "set_f"},
                                fd : Fds \cup {0}, arg : BOOLEAN, ctx : FileIds \cup {NoCtx}]]
      /\ \A u \in Threads : u # t => call'[u] = call[u]
      /\ call'[t] = call[t] \/ (At(t, "look")' /\ call'[t].fd = fd)
  <2>1. CASE call' = call BY <2>1 DEF IInv, TypeOK
  <2>2. CASE Register(t, fd) BY <2>2 DEF IInv, TypeOK, At, Register
  <2> QED BY <2>1, <2>2 DEF Socket, Accept
<1>2. \A u \in Threads : ~Free(u) => file'[call[u].fd] = file[call[u].fd]
  BY <1>1 DEF IInv, Calls
<1>3. TypeOK' BY <1>0, <1>1, <1>a DEF IInv, TypeOK, FileIds
<1>4. Calls'
  <2>1. \A u \in Threads : ~Free(u)' => (u # t /\ ~Free(u)) \/ (u = t /\ call'[u].fd = fd)
    BY <1>0, <1>a DEF Free
  <2>2. opened + 1 # 0 BY <1>1 DEF IInv, TypeOK, FileIds
  <2>3. \A u \in Threads : At(u, "del")' => At(u, "del") BY <1>a DEF At
  <2> QED BY <1>0, <1>1, <1>2, <1>a, <2>1, <2>2, <2>3 DEF IInv, Calls
<1>5. Table' /\ Wanted' /\ Settings' /\ (KernelFlags => KernelFlags') BY <1>0, <1>a, NewFile
<1> QED BY <1>1, <1>3, <1>4, <1>5 DEF IInv

\* What a step of thread t's own call changes of the calls.
CallStep(t) ==
  /\ call' \in [Threads -> [at : {"none", "look", "create", "del", "close_f", "setfl", "fionbio", "set_f"},
                            fd : Fds \cup {0}, arg : BOOLEAN, ctx : FileIds \cup {NoCtx}]]
  /\ \A u \in Threads : u # t => call'[u] = call[u]
  /\ ~Free(t)' => call'[t].fd = call[t].fd
  /\ call'[t].at # "del"

\* A call that goes on or returns, on files as they are.
LEMMA CallsKept ==
  ASSUME IInv, NEW t \in Threads, CallStep(t), ~Free(t), UNCHANGED <<file, opened>>
  PROVE  Calls'
<1>1. \A u \in Threads : ~Free(u)' => ~Free(u) /\ call'[u].fd = call[u].fd
  BY DEF CallStep, Free
<1>2. \A u \in Threads : At(u, "del")' => At(u, "del") BY DEF CallStep, At
<1> QED BY <1>1, <1>2 DEF IInv, Calls

\* An entry found under the read lock is an orphan; otherwise the call goes on.
LEMMA LookInv ==
  ASSUME IInv, NEW t \in Threads, Look(t)
  PROVE  IInv' /\ (KernelFlags => KernelFlags')
<1> DEFINE fd == call[t].fd
           f == file[fd]
<1>1. At(t, "look") /\ ~Free(t) BY DEF Look, At, Free
<1>2. fd \in Fds /\ f \in FileIds /\ Get(fd) = m_datas[fd] BY <1>1, BusyFile, GetIsEntry DEF IInv
<1>3. UNCHANGED <<file, isSocket, nonBlock, opened, m_datas, m_size, ctx, wanted, orphaned>>
  BY DEF Look, kernelVars, tableVars
<1>4. /\ CallStep(t)
      /\ \/ call'[t].at = "create" /\ call'[t].fd = fd /\ managed' = managed
         \/ Free(t)' /\ managed' = managed \cup {f} /\ m_datas[fd] # NoCtx
  <2>1. CASE m_datas[fd] = NoCtx
    <3>1. call' = [call EXCEPT ![t].at = "create"] /\ managed' = managed BY <1>2, <2>1 DEF Look, Goto
    <3> QED BY <3>1 DEF IInv, TypeOK, CallStep
  <2>2. CASE m_datas[fd] # NoCtx
    <3>1. call' = [call EXCEPT ![t] = NoCall] /\ managed' = managed \cup {f} BY <1>2, <2>2 DEF Look, Return
    <3> QED BY <2>2, <3>1 DEF IInv, TypeOK, CallStep, NoCall, Free
  <2> QED BY <2>1, <2>2
<1>5. \A u \in Threads : u # t => call'[u] = call[u] BY <1>4 DEF CallStep
<1>6. \A u \in Threads : ~Free(u) => call[u].fd \in Fds /\ (u # t => call[u].fd # fd)
  BY <1>1, BusyFile DEF IInv, Calls
<1>7. \A g \in Fds : file[g] = f => g = fd BY <1>2, <1>1 DEF IInv, Files, Calls
<1>8. \A g \in Fds \ orphaned : file[g] \in managed' <=> file[g] \in managed
  <2>1. ASSUME m_datas[fd] # NoCtx PROVE fd \in orphaned
    <3>1. NotClosing(fd) BY <1>1, <1>6, FdManagerAssumption DEF NotClosing, At, Free
    <3>2. f \notin managed BY <1>1 DEF IInv, Table
    <3> QED BY <1>2, <2>1, <3>1, <3>2 DEF IInv, Table
  <2> QED BY <1>4, <1>7, <2>1
<1>9. TypeOK' BY <1>2, <1>3, <1>4 DEF IInv, TypeOK, CallStep
<1>10. Calls' BY <1>1, <1>3, <1>4, CallsKept
<1>11. Files'
  <2>1. \A i \in managed' : i <= opened BY <1>2, <1>4 DEF IInv, Files
  <2> QED BY <1>3, <2>1 DEF IInv, Files
<1>12. \A u \in Threads :
         /\ At(u, "create")' /\ u = t => call'[u].fd = fd /\ managed' = managed
         /\ \A w \in {"look", "close_f", "setfl", "fionbio", "set_f"} : At(u, w)' => u # t
  BY <1>4 DEF At, Free
<1>13. Table'
  <2>1. ASSUME NEW g \in Fds \ orphaned, NotClosing(g)'
        PROVE  m_datas[g] = IF file[g] \in managed' THEN file[g] ELSE NoCtx
    <3>1. NotClosing(g) BY <1>1, <1>5, <2>1, FdManagerAssumption DEF NotClosing, At
    <3> QED BY <1>8, <3>1 DEF IInv, Table
  <2>2. ASSUME NEW u \in Threads
        PROVE  /\ At(u, "close_f")' /\ u \in Hooked => m_datas[call'[u].fd] = NoCtx
               /\ At(u, "look")' \/ At(u, "create")' => file[call'[u].fd] \notin managed'
    <3>1. CASE u = t BY <1>1, <1>12, <3>1 DEF IInv, Table
    <3>2. CASE u # t
      <4>1. call'[u] = call[u] BY <1>5, <3>2
      <4>2. ~Free(u) => file[call[u].fd] # f BY <1>6, <1>7, <3>2
      <4>3. managed' \subseteq managed \cup {f} BY <1>4
      <4> QED BY <4>1, <4>2, <4>3 DEF IInv, Table, At, Free
    <3> QED BY <3>1, <3>2
  <2> QED BY <1>3, <2>1, <2>2 DEF IInv, Table
<1>14. Wanted'
  <2>1. ASSUME NEW u \in Threads, At(u, "look")' \/ At(u, "create")'
        PROVE  wanted[file[call'[u].fd]] = NothingWanted /\ isSocket[file[call'[u].fd]]
    <3>1. CASE u = t BY <1>1, <1>12, <2>1, <3>1 DEF IInv, Wanted
    <3>2. CASE u # t BY <1>5, <2>1, <3>2 DEF IInv, Wanted, At
    <3> QED BY <3>1, <3>2
  <2> QED BY <1>3, <2>1 DEF IInv, Wanted
<1>15. Settings'
  <2>1. ASSUME NEW u \in Threads, At(u, "setfl")' \/ At(u, "fionbio")'
        PROVE  /\ call'[u].ctx = m_datas'[call'[u].fd] /\ call'[u].ctx # NoCtx
               /\ call'[u].arg = wanted'[file'[call'[u].fd]].nonBlock
    BY <1>3, <1>5, <1>12, <2>1 DEF IInv, Settings, At
  <2>2. ASSUME NEW g \in Fds \ orphaned', file'[g] \in managed' PROVE Kept(g)'
    <3>1. Kept(g) BY <1>3, <1>8, <2>2 DEF IInv, Settings
    <3>2. \A u \in Threads : Pending(u, g) => Pending(u, g)' BY <1>1, <1>5 DEF Pending, At
    <3> QED BY <1>3, <3>1, <3>2 DEF Kept
  <2> QED BY <2>1, <2>2 DEF Settings
<1>16. KernelFlags => KernelFlags'
  <2> SUFFICES ASSUME KernelFlags PROVE KernelFlags' OBVIOUS
  <2>1. \A g \in Fds \ orphaned' : file'[g] \in managed' => nonBlock'[file'[g]]
    BY <1>3, <1>8 DEF KernelFlags
  <2>2. ASSUME NEW u \in Threads
        PROVE  /\ At(u, "fionbio")' => call'[u].arg
               /\ At(u, "set_f")' /\ file'[call'[u].fd] \in managed' /\ call'[u].fd \notin orphaned' => call'[u].arg
    <3>1. CASE u = t BY <1>12, <3>1
    <3>2. CASE u # t BY <1>3, <1>5, <1>6, <1>8, <3>2 DEF KernelFlags, At, Free
    <3> QED BY <3>1, <3>2
  <2> QED BY <2>1, <2>2 DEF KernelFlags
<1> QED BY <1>9, <1>10, <1>11, <1>13, <1>14, <1>15, <1>16 DEF IInv

\* The size a table grows to has room for the descriptor it grows for.
LEMMA Growth ==
  ASSUME NEW fd \in Nat, NEW size \in Nat, size >= 2
  PROVE  LET n == IF fd >= size THEN (fd * 3) \div 2 ELSE size
         IN n \in Nat /\ n >= size /\ fd < n
OBVIOUS

\* The entry is made for the file that is open, which nobody has set anything on,
\* and no other entry is lost.
LEMMA CreateInv ==
  ASSUME IInv, NEW t \in Threads, Create(t)
  PROVE  IInv' /\ (KernelFlags => KernelFlags')
<1> DEFINE fd == call[t].fd
           f == file[fd]
           n == IF fd >= m_size THEN (fd * 3) \div 2 ELSE m_size
<1>1. At(t, "create") /\ ~Free(t) BY DEF Create, At, Free
<1>2. fd \in Fds /\ f \in FileIds /\ f \notin managed /\ isSocket[f] /\ wanted[f] = NothingWanted
  BY <1>1, BusyFile DEF IInv, Table, Wanted
<1>3. n \in Nat /\ n >= m_size /\ fd < n
  BY <1>2, Growth, FdManagerAssumption DEF IInv, TypeOK, Table
<1>4. /\ ctx' = [ctx EXCEPT ![f] = NewCtx(isSocket[f])]
      /\ nonBlock' = [nonBlock EXCEPT ![f] = @ \/ isSocket[f]]
      /\ m_size' = n
      /\ m_datas' = [g \in Fds |-> IF g = fd THEN f ELSE IF g < n THEN m_datas[g] ELSE NoCtx]
      /\ managed' = managed \cup {f}
      /\ call' = [call EXCEPT ![t] = NoCall]
      /\ UNCHANGED <<file, isSocket, opened, wanted, orphaned>>
  BY DEF Create, Store, Return
<1> HIDE DEF n
<1>5. \A g \in Fds : g # fd => m_datas'[g] = m_datas[g]
  BY <1>3, <1>4, FdManagerAssumption DEF IInv, TypeOK, Table
<1>6. m_datas'[fd] = f BY <1>2, <1>4
<1>7. CallStep(t) /\ Free(t)' BY <1>4 DEF IInv, TypeOK, CallStep, NoCall, Free
<1>8. /\ ctx'[f] = NewCtx(TRUE) /\ nonBlock'[f]
      /\ \A i \in FileIds : i # f => ctx'[i] = ctx[i] /\ nonBlock'[i] = nonBlock[i]
      /\ nonBlock' \in [FileIds -> BOOLEAN]
  BY <1>2, <1>4 DEF IInv, TypeOK
<1>9. ctx' \in [FileIds -> [m_isSocket : BOOLEAN, m_sysNonBlock : BOOLEAN,
                            m_userNonBlock : BOOLEAN, m_recvTimeout : Nat \cup {Infinite}]]
  BY <1>2, <1>4 DEF IInv, TypeOK, NewCtx
<1>10. m_datas' \in [Fds -> FileIds \cup {NoCtx}] BY <1>2, <1>4 DEF IInv, TypeOK
<1>11. TypeOK' BY <1>2, <1>3, <1>4, <1>7, <1>8, <1>9, <1>10 DEF IInv, TypeOK, CallStep
<1>12. Calls' BY <1>1, <1>4, <1>7, CallsKept
<1>13. Files' BY <1>2, <1>4 DEF IInv, Files
<1>14. \A u \in Threads : ~Free(u)' => u # t /\ ~Free(u) /\ call'[u] = call[u] /\ call[u].fd # fd
  BY <1>1, <1>7 DEF CallStep, Free, IInv, Calls
<1>15. \A g \in Fds : file[g] = f => g = fd
  BY <1>1, <1>2 DEF IInv, Files, Calls
<1>a. \A g \in Fds : g # fd => (file[g] \in managed' <=> file[g] \in managed) BY <1>4, <1>15
<1>16. Table'
  <2>1. m_size' >= 2 /\ \A g \in Fds : g >= m_size' => m_datas'[g] = NoCtx
    <3>1. m_size \in Nat /\ m_size >= 2 /\ \A g \in Fds : g \in Nat
      BY FdManagerAssumption DEF IInv, TypeOK, Table
    <3> QED BY <1>3, <1>4, <1>5, <3>1 DEF IInv, Table
  <2>2. ASSUME NEW g \in Fds, m_datas'[g] # NoCtx
        PROVE  /\ m_datas'[g] <= opened'
               /\ \A h \in Fds : file'[h] = m_datas'[g] \/ m_datas'[h] = m_datas'[g] => h = g
    <3>1. \A h \in Fds : h # fd => m_datas'[h] # f
      <4>1. \A h \in Fds : m_datas[h] = f => h = fd BY <1>2, FdManagerAssumption DEF IInv, Table, FileIds
      <4> QED BY <1>5, <4>1
    <3>2. CASE g = fd BY <1>2, <1>4, <1>6, <1>15, <3>1, <3>2 DEF IInv, Files
    <3>3. CASE g # fd
      <4>1. m_datas'[g] = m_datas[g] /\ m_datas[g] # f BY <1>5, <3>1, <3>3
      <4>2. \A h \in Fds : file[h] = m_datas[g] \/ m_datas[h] = m_datas[g] => h = g
        BY <2>2, <4>1 DEF IInv, Table
      <4>3. m_datas[g] <= opened BY <2>2, <4>1 DEF IInv, Table
      <4> QED BY <1>4, <1>5, <1>6, <4>1, <4>2, <4>3
    <3> QED BY <3>2, <3>3
  <2>3. ASSUME NEW g \in Fds \ orphaned', NotClosing(g)'
        PROVE  m_datas'[g] = IF file'[g] \in managed' THEN file'[g] ELSE NoCtx
    <3>1. CASE g = fd BY <1>4, <1>6, <3>1
    <3>2. CASE g # fd
      <4>1. NotClosing(g) BY <1>1, <1>7, <2>3, FdManagerAssumption DEF NotClosing, CallStep, At
      <4>2. m_datas[g] = IF file[g] \in managed THEN file[g] ELSE NoCtx BY <1>4, <4>1 DEF IInv, Table
      <4> QED BY <1>4, <1>5, <1>a, <3>2, <4>2
    <3> QED BY <3>1, <3>2
  <2>4. ASSUME NEW u \in Threads
        PROVE  /\ At(u, "close_f")' /\ u \in Hooked => m_datas'[call'[u].fd] = NoCtx
               /\ At(u, "look")' \/ At(u, "create")' => file'[call'[u].fd] \notin managed'
    <3>1. CASE Free(u)' BY <3>1 DEF At, Free
    <3>2. CASE ~Free(u)'
      <4>1. u # t /\ ~Free(u) /\ call'[u] = call[u] /\ call[u].fd # fd /\ call[u].fd \in Fds
        BY <1>14, <3>2, BusyFile
      <4> QED BY <1>4, <1>5, <1>a, <4>1 DEF IInv, Table, At
    <3> QED BY <3>1, <3>2
  <2> QED BY <2>1, <2>2, <2>3, <2>4 DEF Table
<1>17. Wanted'
  <2>1. ASSUME NEW u \in Threads, At(u, "look")' \/ At(u, "create")'
        PROVE  wanted'[file'[call'[u].fd]] = NothingWanted /\ isSocket'[file'[call'[u].fd]]
    BY <1>4, <1>14, <2>1 DEF IInv, Wanted, At, Free
  <2> QED BY <1>4, <2>1 DEF IInv, Wanted
<1>18. Settings'
  <2>1. ASSUME NEW u \in Threads, At(u, "setfl")' \/ At(u, "fionbio")'
        PROVE  /\ call'[u].ctx = m_datas'[call'[u].fd] /\ call'[u].ctx # NoCtx
               /\ call'[u].arg = wanted'[file'[call'[u].fd]].nonBlock
    <3>1. u # t /\ ~Free(u) /\ call'[u] = call[u] /\ call[u].fd # fd /\ call[u].fd \in Fds
      BY <1>14, <2>1, BusyFile DEF At, Free
    <3> QED BY <1>4, <1>5, <2>1, <3>1 DEF IInv, Settings, At
  <2>2. ASSUME NEW g \in Fds \ orphaned', file'[g] \in managed' PROVE Kept(g)'
    <3>1. CASE g = fd
      <4>1. ctx'[f] = NewCtx(TRUE) /\ wanted'[f] = NothingWanted /\ file'[g] = f BY <1>2, <1>4, <1>8, <3>1
      <4>2. /\ NewCtx(TRUE).m_isSocket = TRUE /\ NewCtx(TRUE).m_sysNonBlock = TRUE
            /\ NewCtx(TRUE).m_userNonBlock = FALSE /\ NewCtx(TRUE).m_recvTimeout = Infinite
        BY DEF NewCtx
      <4>3. NothingWanted.nonBlock = FALSE /\ NothingWanted.timeout = Infinite BY DEF NothingWanted
      <4> QED BY <4>1, <4>2, <4>3, Rounding DEF Kept
    <3>2. CASE g # fd
      <4>1. file[g] \in managed /\ Kept(g) BY <1>4, <1>a, <2>2, <3>2 DEF IInv, Settings
      <4>2. \A u \in Threads : Pending(u, g) => Pending(u, g)'
        BY <1>1, <1>7 DEF Pending, At, CallStep
      <4>3. file[g] \in FileIds /\ file[g] # f BY <1>15, <3>2, <4>1 DEF IInv, TypeOK
      <4>4. ctx'[file[g]] = ctx[file[g]] BY <1>8, <4>3
      <4> QED BY <1>4, <4>1, <4>2, <4>4 DEF Kept
    <3> QED BY <3>1, <3>2
  <2> QED BY <2>1, <2>2 DEF Settings
<1>19. KernelFlags => KernelFlags'
  <2> SUFFICES ASSUME KernelFlags PROVE KernelFlags' OBVIOUS
  <2>1. ASSUME NEW g \in Fds \ orphaned', file'[g] \in managed' PROVE nonBlock'[file'[g]]
    <3>1. CASE g = fd BY <1>4, <1>8, <3>1
    <3>2. CASE g # fd
      <4>1. file[g] \in managed /\ file[g] \in FileIds /\ file[g] # f
        BY <1>4, <1>15, <1>a, <2>1, <3>2 DEF IInv, TypeOK
      <4> QED BY <1>4, <1>8, <4>1 DEF KernelFlags
    <3> QED BY <3>1, <3>2
  <2>2. ASSUME NEW u \in Threads
        PROVE  /\ At(u, "fionbio")' => call'[u].arg
               /\ At(u, "set_f")' /\ file'[call'[u].fd] \in managed' /\ call'[u].fd \notin orphaned' => call'[u].arg
    <3>1. CASE Free(u)' BY <3>1 DEF At, Free
    <3>2. CASE ~Free(u)'
      <4>1. u # t /\ ~Free(u) /\ call'[u] = call[u] /\ call[u].fd # fd /\ call[u].fd \in Fds
        BY <1>14, <3>2, BusyFile
      <4> QED BY <1>4, <1>a, <4>1 DEF KernelFlags, At
    <3> QED BY <3>1, <3>2
  <2> QED BY <2>1, <2>2 DEF KernelFlags
<1> QED BY <1>11, <1>12, <1>13, <1>16, <1>17, <1>18, <1>19 DEF IInv

-----------------------------------------------------------------------------
(* close()                                                                 *)

\* A call begins on a descriptor at rest.
CallBegins(t, fd) ==
  /\ call' \in [Threads -> [at : {"none", "look", "create", "del", "close_f", "setfl", "fionbio", "set_f"},
                            fd : Fds \cup {0}, arg : BOOLEAN, ctx : FileIds \cup {NoCtx}]]
  /\ \A u \in Threads : u # t => call'[u] = call[u]
  /\ call'[t].fd = fd
  /\ call'[t].at = "del" => t \in Hooked

LEMMA BeginCalls ==
  ASSUME IInv, NEW t \in Threads, NEW fd \in Fds, Free(t), Usable(fd), CallBegins(t, fd), file' = file
  PROVE  Calls' /\ \A u \in Threads : ~Free(u)' => u = t \/ (~Free(u) /\ call'[u] = call[u] /\ call[u].fd # fd)
<1>1. \A u \in Threads : ~Free(u)' => u = t \/ (~Free(u) /\ call'[u] = call[u] /\ call[u].fd # fd)
  BY DEF CallBegins, Usable, AtRest, Free
<1>2. \A u \in Threads : At(u, "del")' => At(u, "del") \/ u \in Hooked BY DEF CallBegins, At
<1> QED BY <1>1, <1>2 DEF IInv, Calls, CallBegins, Usable

LEMMA RestEntry ==
  ASSUME IInv, NEW fd \in Fds, AtRest(fd)
  PROVE  /\ fd \notin orphaned => m_datas[fd] = IF file[fd] \in managed THEN file[fd] ELSE NoCtx
         /\ Get(fd) = m_datas[fd]
<1>1. NotClosing(fd) BY FdManagerAssumption DEF AtRest, NotClosing, At, Free
<1> QED BY <1>1, GetIsEntry DEF IInv, Table

\* A hooked thread goes to the kernel at once only if there is no entry.
LEMMA CloseInv ==
  ASSUME IInv, NEW t \in Threads, NEW fd \in Fds, Close(t, fd)
  PROVE  IInv' /\ (KernelFlags => KernelFlags')
<1>1. /\ Free(t) /\ Usable(fd)
      /\ UNCHANGED <<file, isSocket, nonBlock, opened, m_datas, m_size, ctx, managed, wanted, orphaned>>
      /\ call'[t].at \in {"del", "close_f"}
      /\ CallBegins(t, fd)
  BY DEF Close, kernelVars, tableVars, CallBegins, IInv, TypeOK, NoCall
<1>2. call'[t].at = "close_f" /\ t \in Hooked => m_datas[fd] = NoCtx
  <2>1. call'[t].at = "close_f" => t \notin Hooked \/ Get(fd) = NoCtx
    BY DEF Close, IInv, TypeOK, NoCall
  <2> QED BY <1>1, <2>1, RestEntry DEF Usable
<1>3. TypeOK' BY <1>1 DEF IInv, TypeOK, CallBegins
<1>4. Calls' BY <1>1, BeginCalls
<1>5. \A u \in Threads : ~Free(u)' => u = t \/ (~Free(u) /\ call'[u] = call[u] /\ call[u].fd # fd)
  BY <1>1, BeginCalls
<1>6. Files' BY <1>1 DEF IInv, Files
<1>7. \A u \in Threads : At(u, "look")' \/ At(u, "create")' \/ At(u, "setfl")' \/ At(u, "fionbio")' \/ At(u, "set_f")'
        => u # t /\ call'[u] = call[u]
  BY <1>1, <1>5 DEF At, Free
<1>8. Table'
  <2>1. ASSUME NEW g \in Fds \ orphaned, NotClosing(g)'
        PROVE  m_datas[g] = IF file[g] \in managed THEN file[g] ELSE NoCtx
    <3>1. NotClosing(g) BY <1>1, <2>1, FdManagerAssumption DEF NotClosing, CallBegins, At, Free
    <3> QED BY <3>1 DEF IInv, Table
  <2>2. ASSUME NEW u \in Threads
        PROVE  /\ At(u, "close_f")' /\ u \in Hooked => m_datas[call'[u].fd] = NoCtx
               /\ At(u, "look")' \/ At(u, "create")' => file[call'[u].fd] \notin managed
    <3>1. CASE u = t BY <1>1, <1>2, <1>7, <3>1 DEF At, CallBegins
    <3>2. CASE u # t BY <1>1, <3>2 DEF IInv, Table, At, CallBegins
    <3> QED BY <3>1, <3>2
  <2> QED BY <1>1, <2>1, <2>2 DEF IInv, Table
<1>9. Wanted' BY <1>1, <1>7 DEF IInv, Wanted, At
<1>10. Settings'
  <2>1. ASSUME NEW g \in Fds \ orphaned', file'[g] \in managed' PROVE Kept(g)'
    <3>1. Kept(g) BY <1>1, <2>1 DEF IInv, Settings
    <3>2. \A u \in Threads : Pending(u, g) => Pending(u, g)'
      BY <1>1 DEF Pending, At, Free, CallBegins
    <3> QED BY <1>1, <3>1, <3>2 DEF Kept
  <2> QED BY <1>1, <1>7, <2>1 DEF IInv, Settings, At
<1>11. KernelFlags => KernelFlags' BY <1>1, <1>7 DEF KernelFlags, At
<1> QED BY <1>3, <1>4, <1>6, <1>8, <1>9, <1>10, <1>11 DEF IInv

LEMMA DelInv ==
  ASSUME IInv, NEW t \in Threads, Del(t)
  PROVE  IInv' /\ (KernelFlags => KernelFlags')
<1> DEFINE fd == call[t].fd
<1>1. At(t, "del") /\ ~Free(t) /\ fd \in Fds /\ t \in Hooked
  BY BusyFile DEF Del, At, Free, IInv, Calls
<1>2. /\ UNCHANGED <<file, isSocket, nonBlock, opened, m_size, ctx, managed, wanted, orphaned>>
      /\ call' = [call EXCEPT ![t].at = "close_f"]
  BY DEF Del, Goto, kernelVars
<1>3. m_datas' = [m_datas EXCEPT ![fd] = NoCtx]
  <2>1. m_size <= fd => m_datas[fd] = NoCtx BY <1>1, FdManagerAssumption DEF IInv, TypeOK, Table
  <2> QED BY <1>1, <2>1 DEF Del, IInv, TypeOK
<1>4. CallStep(t) /\ call'[t].at = "close_f" /\ call'[t].fd = fd BY <1>2 DEF IInv, TypeOK, CallStep
<1>5. TypeOK' BY <1>2, <1>3, <1>4 DEF IInv, TypeOK, CallStep
<1>6. Calls' BY <1>1, <1>2, <1>4, CallsKept
<1>7. Files' BY <1>2 DEF IInv, Files
<1>8. \A u \in Threads : u # t => call'[u] = call[u] /\ (~Free(u) => call[u].fd # fd)
  BY <1>1, <1>4 DEF CallStep, IInv, Calls
<1>9. m_datas'[fd] = NoCtx /\ \A g \in Fds : g # fd => m_datas'[g] = m_datas[g]
  BY <1>1, <1>3 DEF IInv, TypeOK
<1>10. Table'
  <2>1. ASSUME NEW g \in Fds \ orphaned', NotClosing(g)'
        PROVE  m_datas'[g] = IF file'[g] \in managed' THEN file'[g] ELSE NoCtx
    <3>1. g # fd BY <1>1, <1>4, <2>1 DEF NotClosing, At
    <3>2. NotClosing(g) BY <1>1, <1>8, <2>1, FdManagerAssumption DEF NotClosing, At
    <3> QED BY <1>2, <1>9, <3>1, <3>2 DEF IInv, Table
  <2>2. ASSUME NEW u \in Threads
        PROVE  /\ At(u, "close_f")' /\ u \in Hooked => m_datas'[call'[u].fd] = NoCtx
               /\ At(u, "look")' \/ At(u, "create")' => file'[call'[u].fd] \notin managed'
    <3>1. CASE u = t BY <1>4, <1>9, <3>1 DEF At
    <3>2. CASE u # t
      <4>1. ~Free(u) => call[u].fd \in Fds BY BusyFile
      <4> QED BY <1>2, <1>8, <1>9, <3>2, <4>1 DEF IInv, Table, At, Free
    <3> QED BY <3>1, <3>2
  <2>3. ASSUME NEW g \in Fds, m_datas'[g] # NoCtx
        PROVE  /\ m_datas'[g] <= opened'
               /\ \A h \in Fds : file'[h] = m_datas'[g] \/ m_datas'[h] = m_datas'[g] => h = g
    <3>1. g # fd /\ m_datas'[g] = m_datas[g] BY <1>9, <2>3
    <3>2. \A h \in Fds : m_datas'[h] = m_datas[g] => m_datas[h] = m_datas[g] BY <1>9, <2>3, <3>1
    <3> QED BY <1>2, <2>3, <3>1, <3>2 DEF IInv, Table
  <2>4. \A g \in Fds : g >= m_size' => m_datas'[g] = NoCtx BY <1>2, <1>9 DEF IInv, Table
  <2> QED BY <1>2, <2>1, <2>2, <2>3, <2>4 DEF IInv, Table
<1>11. Wanted' BY <1>2, <1>4, <1>8 DEF IInv, Wanted, At
<1>12. Settings'
  <2>1. ASSUME NEW u \in Threads, At(u, "setfl")' \/ At(u, "fionbio")'
        PROVE  /\ call'[u].ctx = m_datas'[call'[u].fd] /\ call'[u].ctx # NoCtx
               /\ call'[u].arg = wanted'[file'[call'[u].fd]].nonBlock
    <3>1. u # t /\ ~Free(u) /\ call'[u] = call[u] BY <1>4, <1>8, <2>1 DEF At, Free
    <3>2. call[u].fd \in Fds /\ call[u].fd # fd BY <1>8, <3>1, BusyFile
    <3> QED BY <1>2, <1>9, <2>1, <3>1, <3>2 DEF IInv, Settings, At
  <2>2. ASSUME NEW g \in Fds \ orphaned', file'[g] \in managed' PROVE Kept(g)'
    <3>1. Kept(g) BY <1>2, <2>2 DEF IInv, Settings
    <3>2. \A u \in Threads : Pending(u, g) => Pending(u, g)' BY <1>1, <1>8 DEF Pending, At
    <3> QED BY <1>2, <3>1, <3>2 DEF Kept
  <2> QED BY <2>1, <2>2 DEF Settings
<1>13. KernelFlags => KernelFlags' BY <1>2, <1>4, <1>8 DEF KernelFlags, At
<1> QED BY <1>5, <1>6, <1>7, <1>10, <1>11, <1>12, <1>13 DEF IInv

\* The number is free again; its entry has gone before, or is an orphan now.
LEMMA CloseFInv ==
  ASSUME IInv, NEW t \in Threads, CloseF(t)
  PROVE  IInv' /\ (KernelFlags => KernelFlags')
<1> DEFINE fd == call[t].fd
<1>1. At(t, "close_f") /\ ~Free(t) /\ fd \in Fds BY BusyFile DEF CloseF, At, Free
<1>2. /\ UNCHANGED <<isSocket, nonBlock, opened, m_datas, m_size, ctx, managed, wanted>>
      /\ file' = [file EXCEPT ![fd] = 0]
      /\ call' = [call EXCEPT ![t] = NoCall]
  BY DEF CloseF, Return, tableVars
<1>a. /\ orphaned' \subseteq Fds
      /\ \A g \in Fds : g # fd => (g \in orphaned' <=> g \in orphaned)
      /\ fd \notin orphaned' => m_datas[fd] = NoCtx
  <2>1. Get(fd) = m_datas[fd] BY <1>1, GetIsEntry DEF IInv
  <2>2. t \in Hooked => m_datas[fd] = NoCtx BY <1>1 DEF IInv, Table
  <2>3. orphaned' = IF t \in Hooked \/ m_datas[fd] = NoCtx THEN orphaned \ {fd} ELSE orphaned \cup {fd}
    BY <2>1 DEF CloseF
  <2> QED BY <1>1, <2>2, <2>3 DEF IInv, TypeOK
<1>3. CallStep(t) /\ Free(t)' BY <1>2 DEF IInv, TypeOK, CallStep, NoCall, Free
<1>4. file'[fd] = 0 /\ \A g \in Fds : g # fd => file'[g] = file[g]
  BY <1>1, <1>2 DEF IInv, TypeOK
<1>5. TypeOK'
  <2>1. file' \in [Fds -> 0..MaxOpens]
    BY <1>1, <1>2, FdManagerAssumption DEF IInv, TypeOK
  <2> QED BY <1>2, <1>3, <1>a, <2>1 DEF IInv, TypeOK, CallStep
<1>6. \A u \in Threads : ~Free(u)' =>
        u # t /\ ~Free(u) /\ call'[u] = call[u] /\ call[u].fd \in Fds /\ call[u].fd # fd
  BY <1>1, <1>3, BusyFile DEF CallStep, Free, IInv, Calls
<1>7. Calls'
  <2>1. \A u \in Threads : At(u, "del")' => At(u, "del") BY <1>3 DEF CallStep, At
  <2> QED BY <1>4, <1>6, <2>1 DEF IInv, Calls
<1>8. Files'
  <2>1. 0 <= opened BY DEF IInv, TypeOK
  <2> QED BY <1>2, <1>4, <2>1 DEF IInv, Files
<1>9. 0 \notin managed /\ \A g \in Fds : m_datas[g] # NoCtx => m_datas[g] # 0
  BY DEF IInv, TypeOK, FileIds
<1>10. Table'
  <2>1. ASSUME NEW g \in Fds \ orphaned', NotClosing(g)'
        PROVE  m_datas'[g] = IF file'[g] \in managed' THEN file'[g] ELSE NoCtx
    <3>1. CASE g = fd BY <1>2, <1>4, <1>9, <1>a, <2>1, <3>1
    <3>2. CASE g # fd
      <4>1. NotClosing(g) BY <1>3, <2>1, <3>2, FdManagerAssumption DEF NotClosing, CallStep, At
      <4> QED BY <1>2, <1>4, <1>a, <3>2, <4>1 DEF IInv, Table
    <3> QED BY <3>1, <3>2
  <2>2. ASSUME NEW g \in Fds, m_datas[g] # NoCtx
        PROVE  /\ m_datas[g] <= opened
               /\ \A h \in Fds : file'[h] = m_datas[g] \/ m_datas[h] = m_datas[g] => h = g
    <3>1. m_datas[g] # 0 BY <1>9, <2>2
    <3> QED BY <1>4, <2>2, <3>1 DEF IInv, Table
  <2>3. ASSUME NEW u \in Threads
        PROVE  /\ At(u, "close_f")' /\ u \in Hooked => m_datas[call'[u].fd] = NoCtx
               /\ At(u, "look")' \/ At(u, "create")' => file'[call'[u].fd] \notin managed
    BY <1>4, <1>6 DEF IInv, Table, At, Free
  <2> QED BY <1>2, <2>1, <2>2, <2>3 DEF IInv, Table
<1>11. Wanted' BY <1>2, <1>4, <1>6 DEF IInv, Wanted, At, Free
<1>12. Settings'
  <2>1. ASSUME NEW u \in Threads, At(u, "setfl")' \/ At(u, "fionbio")'
        PROVE  /\ call'[u].ctx = m_datas'[call'[u].fd] /\ call'[u].ctx # NoCtx
               /\ call'[u].arg = wanted'[file'[call'[u].fd]].nonBlock
    <3>1. ~Free(u)' BY <2>1 DEF At, Free
    <3> QED BY <1>2, <1>4, <1>6, <2>1, <3>1 DEF IInv, Settings, At
  <2>2. ASSUME NEW g \in Fds \ orphaned', file'[g] \in managed' PROVE Kept(g)'
    <3>1. g # fd /\ file'[g] = file[g] BY <1>2, <1>4, <1>9, <2>2
    <3>2. Kept(g) BY <1>2, <1>a, <2>2, <3>1 DEF IInv, Settings
    <3>3. \A u \in Threads : Pending(u, g) => Pending(u, g)'
      BY <1>1, <1>3 DEF Pending, At, CallStep
    <3> QED BY <1>2, <3>1, <3>2, <3>3 DEF Kept
  <2> QED BY <2>1, <2>2 DEF Settings
<1>13. KernelFlags => KernelFlags'
  <2> SUFFICES ASSUME KernelFlags PROVE KernelFlags' OBVIOUS
  <2>1. ASSUME NEW g \in Fds \ orphaned', file'[g] \in managed' PROVE nonBlock'[file'[g]]
    <3>1. g # fd /\ file'[g] = file[g] BY <1>2, <1>4, <1>9, <2>1
    <3> QED BY <1>2, <1>a, <2>1, <3>1 DEF KernelFlags
  <2>2. ASSUME NEW u \in Threads
        PROVE  /\ At(u, "fionbio")' => call'[u].arg
               /\ At(u, "set_f")' /\ file'[call'[u].fd] \in managed' /\ call'[u].fd \notin orphaned' => call'[u].arg
    BY <1>2, <1>4, <1>6, <1>a DEF KernelFlags, At, Free
  <2> QED BY <2>1, <2>2 DEF KernelFlags
<1> QED BY <1>5, <1>7, <1>8, <1>10, <1>11, <1>12, <1>13 DEF IInv

-----------------------------------------------------------------------------
(* fcntl(), ioctl() and setsockopt().                                      *)

\* The descriptor of a file the manager knows has that file's FdCtx.
LEMMA EnterCtx ==
  ASSUME IInv, NEW fd \in Fds, Usable(fd)
  PROVE  /\ file[fd] \in FileIds
         /\ Get(fd) = m_datas[fd] /\ Get(fd) \in FileIds \cup {NoCtx}
         /\ fd \notin orphaned =>
              /\ (Get(fd) # NoCtx /\ ctx[Get(fd)].m_isSocket) <=> file[fd] \in managed
              /\ Get(fd) # NoCtx <=> file[fd] \in managed
              /\ file[fd] \in managed => Get(fd) = file[fd]
<1>1. file[fd] \in 0..MaxOpens /\ file[fd] # 0 /\ MaxOpens \in Nat
  BY FdManagerAssumption DEF Usable, IInv, TypeOK
<1>2. file[fd] \in FileIds BY <1>1 DEF FileIds
<1>3. file[fd] # NoCtx BY <1>2, FdManagerAssumption DEF FileIds
<1>4. /\ Get(fd) = m_datas[fd]
      /\ fd \notin orphaned => Get(fd) = IF file[fd] \in managed THEN file[fd] ELSE NoCtx
  BY RestEntry DEF Usable
<1>5. fd \notin orphaned /\ file[fd] \in managed => ctx[file[fd]].m_isSocket BY DEF IInv, Settings, Kept
<1>6. m_datas[fd] \in FileIds \cup {NoCtx} BY DEF IInv, TypeOK
<1> QED BY <1>2, <1>3, <1>4, <1>5, <1>6

\* Another descriptor's file and entry are not those of a usable one.
LEMMA OthersDiffer ==
  ASSUME IInv, NEW fd \in Fds, Usable(fd), NEW g \in Fds, g # fd
  PROVE  file[g] # file[fd] /\ (Get(fd) # NoCtx => file[g] # Get(fd))
<1>1. Get(fd) = m_datas[fd] BY EnterCtx
<1> QED BY <1>1 DEF IInv, Files, Table, Usable

LEMMA EnterInv ==
  ASSUME IInv, NEW t \in Threads, NEW fd \in Fds, NEW arg \in BOOLEAN, NEW where \in {"setfl", "fionbio"},
         Enter(t, fd, arg, where, "set_f"), WantNonBlock(fd, arg)
  PROVE  IInv' /\ (KernelFlags /\ (where = "fionbio" => arg) => KernelFlags')
<1> DEFINE f == file[fd]
           known == Get(fd) # NoCtx /\ ctx[Get(fd)].m_isSocket
<1>1. /\ Free(t) /\ Usable(fd)
      /\ UNCHANGED <<file, isSocket, nonBlock, opened, m_datas, m_size, ctx, managed, orphaned>>
      /\ wanted' = [wanted EXCEPT ![f].nonBlock = arg]
      /\ call' = [call EXCEPT ![t] = [fd |-> fd, arg |-> arg, ctx |-> Get(fd),
                    at |-> IF known THEN where ELSE "set_f"]]
  BY DEF Enter, WantNonBlock, kernelVars, tableVars
<1>2. /\ f \in FileIds /\ Get(fd) = m_datas[fd] /\ Get(fd) \in FileIds \cup {NoCtx}
      /\ fd \notin orphaned => (known <=> f \in managed)
      /\ known => Get(fd) # NoCtx
  BY <1>1, EnterCtx
<1> HIDE DEF known
<1>3. /\ CallBegins(t, fd)
      /\ call'[t].fd = fd /\ call'[t].arg = arg /\ call'[t].ctx = Get(fd)
      /\ call'[t].at = IF known THEN where ELSE "set_f"
  BY <1>1, <1>2 DEF CallBegins, IInv, TypeOK
<1>4. TypeOK' BY <1>1, <1>3 DEF IInv, TypeOK, CallBegins
<1>5. Calls' BY <1>1, <1>3, BeginCalls
<1>6. \A u \in Threads : ~Free(u)' => u = t \/ (~Free(u) /\ call'[u] = call[u] /\ call[u].fd # fd)
  BY <1>1, <1>3, BeginCalls
<1>7. Files' BY <1>1 DEF IInv, Files
<1>8. /\ wanted' \in [FileIds -> [nonBlock : BOOLEAN, timeout : Timevals \cup {Infinite}]]
      /\ wanted'[f].nonBlock = arg /\ wanted'[f].timeout = wanted[f].timeout
      /\ \A i \in FileIds : i # f => wanted'[i] = wanted[i]
  BY <1>1, <1>2 DEF IInv, Wanted
<1>9. \A u \in Threads : At(u, "look")' \/ At(u, "create")' \/ At(u, "close_f")' =>
        u # t /\ ~Free(u) /\ call'[u] = call[u] /\ call[u].fd # fd
  BY <1>3, <1>6 DEF At, Free
<1>10. Table'
  <2>1. \A u \in Threads : At(u, "close_f") => At(u, "close_f")' /\ call'[u] = call[u]
    BY <1>1, <1>3 DEF At, Free, CallBegins
  <2>2. \A g \in Fds : NotClosing(g)' => NotClosing(g) BY <2>1, FdManagerAssumption DEF NotClosing
  <2> QED BY <1>1, <1>9, <2>2 DEF IInv, Table, At
<1>11. \A u \in Threads : ~Free(u) /\ call[u].fd # fd => file[call[u].fd] \in FileIds /\ file[call[u].fd] # f
  BY <1>1, BusyFile DEF IInv, Files, Usable
<1>12. Wanted'
  <2>1. ASSUME NEW u \in Threads, At(u, "look")' \/ At(u, "create")'
        PROVE  wanted'[file'[call'[u].fd]] = NothingWanted /\ isSocket'[file'[call'[u].fd]]
    BY <1>1, <1>8, <1>9, <1>11, <2>1 DEF IInv, Wanted, At
  <2>2. \A i \in FileIds : i > opened' => wanted'[i] = NothingWanted
    <3>1. f <= opened BY DEF IInv, Files
    <3>2. \A i \in FileIds : i > opened => i # f BY <1>2, <3>1 DEF IInv, TypeOK, FileIds
    <3> QED BY <1>1, <1>8, <3>2 DEF IInv, Wanted
  <2> QED BY <1>8, <2>1, <2>2 DEF Wanted
<1>13. Settings'
  <2>1. ASSUME NEW u \in Threads, At(u, "setfl")' \/ At(u, "fionbio")'
        PROVE  /\ call'[u].ctx = m_datas'[call'[u].fd] /\ call'[u].ctx # NoCtx
               /\ call'[u].arg = wanted'[file'[call'[u].fd]].nonBlock
    <3>1. CASE u = t BY <1>1, <1>2, <1>3, <1>8, <2>1, <3>1 DEF At
    <3>2. CASE u # t
      <4>1. ~Free(u) /\ call'[u] = call[u] /\ call[u].fd # fd BY <1>6, <2>1, <3>2 DEF At, Free
      <4> QED BY <1>1, <1>8, <1>11, <2>1, <4>1 DEF IInv, Settings, At
    <3> QED BY <3>1, <3>2
  <2>2. ASSUME NEW g \in Fds \ orphaned', file'[g] \in managed' PROVE Kept(g)'
    <3>1. file[g] \in FileIds /\ Kept(g) BY <1>1, <2>2 DEF IInv, TypeOK, Settings
    <3>2. CASE g = fd
      <4>1. Pending(t, fd)' BY <1>1, <1>2, <1>3, <2>2, <3>2 DEF Pending, At
      <4>2. RoundsDown(ctx[f].m_recvTimeout, wanted'[f].timeout) BY <1>8, <3>1, <3>2 DEF Kept
      <4> QED BY <1>1, <3>1, <3>2, <4>1, <4>2 DEF Kept
    <3>3. CASE g # fd
      <4>1. file[g] # f BY <1>1, <3>3, OthersDiffer
      <4>2. \A u \in Threads : Pending(u, g) => Pending(u, g)'
        BY <1>1, <1>3 DEF Pending, At, Free, CallBegins
      <4>3. wanted'[file[g]] = wanted[file[g]] BY <1>8, <3>1, <4>1
      <4> QED BY <1>1, <3>1, <4>2, <4>3 DEF Kept
    <3> QED BY <3>2, <3>3
  <2> QED BY <2>1, <2>2 DEF Settings
<1>14. KernelFlags /\ (where = "fionbio" => arg) => KernelFlags'
  <2> SUFFICES ASSUME KernelFlags, where = "fionbio" => arg PROVE KernelFlags' OBVIOUS
  <2>1. ASSUME NEW u \in Threads
        PROVE  /\ At(u, "fionbio")' => call'[u].arg
               /\ At(u, "set_f")' /\ file'[call'[u].fd] \in managed' /\ call'[u].fd \notin orphaned' => call'[u].arg
    <3>1. CASE u = t BY <1>1, <1>2, <1>3, <3>1 DEF At
    <3>2. CASE u # t BY <1>1, <1>3, <3>2 DEF At, CallBegins, KernelFlags
    <3> QED BY <3>1, <3>2
  <2> QED BY <1>1, <2>1 DEF KernelFlags
<1> QED BY <1>4, <1>5, <1>7, <1>10, <1>12, <1>13, <1>14 DEF IInv

\* The wish reaches the FdCtx in the table; for fcntl() the kernel of a managed
\* socket gets what it had.
LEMMA SetUserInv ==
  ASSUME IInv, NEW t \in Threads, SetFl(t) \/ SetUserNonblock(t)
  PROVE  IInv' /\ (KernelFlags => KernelFlags')
<1> DEFINE fd == call[t].fd
           c == call[t].ctx
<1>1. (At(t, "setfl") \/ At(t, "fionbio")) /\ ~Free(t) /\ fd \in Fds /\ file[fd] \in FileIds
  BY BusyFile DEF SetFl, SetUserNonblock, At, Free
<1>2. /\ c = m_datas[fd] /\ c # NoCtx /\ c \in FileIds /\ call[t].arg = wanted[file[fd]].nonBlock
  BY <1>1 DEF IInv, Settings, TypeOK
<1>3. /\ UNCHANGED <<file, isSocket, nonBlock, opened, m_datas, m_size, managed, wanted, orphaned>>
      /\ ctx' = [ctx EXCEPT ![c].m_userNonBlock = call[t].arg]
  BY <1>2 DEF SetFl, SetUserNonblock, kernelVars
<1>a. fd \notin orphaned => c = file[fd] /\ file[fd] \in managed
  <2>1. NotClosing(fd) BY <1>1, FdManagerAssumption DEF NotClosing, IInv, Calls, At, Free
  <2> QED BY <1>1, <1>2, <2>1 DEF IInv, Table
<1>4. fd \notin orphaned => ctx[c].m_sysNonBlock BY <1>1, <1>a DEF IInv, Settings, Kept
<1>5. /\ CallStep(t) /\ call'[t].at = "set_f" /\ call'[t].fd = fd
      /\ SetFl(t) => call'[t].arg = ctx[c].m_sysNonBlock
      /\ SetUserNonblock(t) => call'[t].arg = call[t].arg
  <2>0. /\ call \in [Threads -> [at : {"none", "look", "create", "del", "close_f", "setfl", "fionbio", "set_f"},
                                 fd : Fds \cup {0}, arg : BOOLEAN, ctx : FileIds \cup {NoCtx}]]
        /\ ctx[c].m_sysNonBlock \in BOOLEAN
    BY <1>2 DEF IInv, TypeOK
  <2>1. CASE SetFl(t)
    <3>1. call' = [call EXCEPT ![t].at = "set_f", ![t].arg = ctx[c].m_sysNonBlock] BY <2>1 DEF SetFl
    <3>2. ~SetUserNonblock(t) BY <2>1 DEF SetFl, SetUserNonblock, At
    <3> QED BY <2>0, <3>1, <3>2 DEF CallStep
  <2>2. CASE SetUserNonblock(t)
    <3>1. call' = [call EXCEPT ![t].at = "set_f"] BY <2>2 DEF SetUserNonblock, Goto
    <3>2. ~SetFl(t) BY <2>2 DEF SetFl, SetUserNonblock, At
    <3> QED BY <2>0, <3>1, <3>2 DEF CallStep
  <2> QED BY <2>1, <2>2
<1>6. /\ ctx' \in [FileIds -> [m_isSocket : BOOLEAN, m_sysNonBlock : BOOLEAN,
                               m_userNonBlock : BOOLEAN, m_recvTimeout : Nat \cup {Infinite}]]
      /\ ctx'[c].m_userNonBlock = call[t].arg
      /\ ctx'[c].m_isSocket = ctx[c].m_isSocket /\ ctx'[c].m_sysNonBlock = ctx[c].m_sysNonBlock
      /\ ctx'[c].m_recvTimeout = ctx[c].m_recvTimeout
      /\ \A i \in FileIds : i # c => ctx'[i] = ctx[i]
  BY <1>2, <1>3 DEF IInv, TypeOK
<1>7. TypeOK' BY <1>3, <1>5, <1>6 DEF IInv, TypeOK, CallStep
<1>8. Calls' BY <1>1, <1>3, <1>5, CallsKept
<1>9. Files' BY <1>3 DEF IInv, Files
<1>10. \A u \in Threads : u # t => call'[u] = call[u] BY <1>5 DEF CallStep
<1>11. \A u \in Threads : At(u, "close_f")' <=> At(u, "close_f") BY <1>1, <1>5, <1>10 DEF At
<1>12. \A u \in Threads : At(u, "close_f")' \/ At(u, "look")' \/ At(u, "create")' \/ At(u, "setfl")' \/ At(u, "fionbio")'
         => u # t /\ call'[u] = call[u]
  BY <1>5, <1>10 DEF At
<1>13. Table'
  <2>1. \A u \in Threads : At(u, "close_f") => At(u, "close_f")' /\ call'[u] = call[u] BY <1>11, <1>12
  <2>2. \A g \in Fds : NotClosing(g)' => NotClosing(g) BY <2>1, FdManagerAssumption DEF NotClosing
  <2> QED BY <1>3, <1>12, <2>2 DEF IInv, Table, At
<1>14. Wanted' BY <1>3, <1>12 DEF IInv, Wanted, At
<1>15. Settings'
  <2>1. ASSUME NEW g \in Fds \ orphaned', file'[g] \in managed' PROVE Kept(g)'
    <3>1. file[g] \in FileIds /\ Kept(g) BY <1>3, <2>1 DEF IInv, TypeOK, Settings
    <3>2. CASE g = fd
      <4>1. c = file[g] BY <1>3, <1>a, <2>1, <3>2
      <4> QED BY <1>2, <1>3, <1>6, <3>1, <3>2, <4>1 DEF Kept
    <3>3. CASE g # fd
      <4>1. file[g] # c BY <1>1, <1>2, <3>3 DEF IInv, Table
      <4>2. ctx'[file[g]] = ctx[file[g]] BY <1>6, <3>1, <4>1
      <4>3. \A u \in Threads : Pending(u, g) => Pending(u, g)' BY <1>10, <3>3 DEF Pending, At
      <4> QED BY <1>3, <3>1, <4>2, <4>3 DEF Kept
    <3> QED BY <3>2, <3>3
  <2> QED BY <1>3, <1>12, <2>1 DEF IInv, Settings, At
<1>16. KernelFlags => KernelFlags'
  <2> SUFFICES ASSUME KernelFlags PROVE KernelFlags' OBVIOUS
  <2>1. fd \notin orphaned => call'[t].arg
    <3>1. SetUserNonblock(t) => call[t].arg BY DEF KernelFlags, SetUserNonblock
    <3> QED BY <1>4, <1>5, <3>1
  <2>2. ASSUME NEW u \in Threads
        PROVE  /\ At(u, "fionbio")' => call'[u].arg
               /\ At(u, "set_f")' /\ file'[call'[u].fd] \in managed' /\ call'[u].fd \notin orphaned' => call'[u].arg
    <3>1. CASE u = t BY <1>3, <1>5, <2>1, <3>1 DEF At
    <3>2. CASE u # t BY <1>3, <1>10, <3>2 DEF At, KernelFlags
    <3> QED BY <3>1, <3>2
  <2> QED BY <1>3, <2>2 DEF KernelFlags
<1> QED BY <1>7, <1>8, <1>9, <1>13, <1>14, <1>15, <1>16 DEF IInv

LEMMA SetFInv ==
  ASSUME IInv, NEW t \in Threads, SetF(t)
  PROVE  IInv' /\ (KernelFlags => KernelFlags')
<1> DEFINE fd == call[t].fd
           f == file[fd]
<1>1. At(t, "set_f") /\ ~Free(t) /\ fd \in Fds /\ f \in FileIds BY BusyFile DEF SetF, At, Free
<1>2. /\ UNCHANGED <<file, isSocket, opened, m_datas, m_size, ctx, managed, wanted, orphaned>>
      /\ nonBlock' = [nonBlock EXCEPT ![f] = call[t].arg]
      /\ call' = [call EXCEPT ![t] = NoCall]
  BY DEF SetF, Return, tableVars
<1>3. CallStep(t) /\ Free(t)' BY <1>2 DEF IInv, TypeOK, CallStep, NoCall, Free
<1>4. TypeOK'
  <2>1. call[t].arg \in BOOLEAN BY DEF IInv, TypeOK
  <2>2. nonBlock' \in [FileIds -> BOOLEAN] BY <1>1, <1>2, <2>1 DEF IInv, TypeOK
  <2> QED BY <1>2, <1>3, <2>2 DEF IInv, TypeOK, CallStep
<1>5. Calls' BY <1>1, <1>2, <1>3, CallsKept
<1>6. Files' BY <1>2 DEF IInv, Files
<1>7. \A u \in Threads : ~Free(u)' => u # t /\ call'[u] = call[u] BY <1>3 DEF CallStep
<1>8. \A u \in Threads : u # t => call'[u] = call[u] BY <1>3 DEF CallStep
<1>9. Table'
  <2>1. \A u \in Threads : At(u, "close_f") => At(u, "close_f")' /\ call'[u] = call[u]
    BY <1>1, <1>8 DEF At
  <2>2. \A g \in Fds : NotClosing(g)' => NotClosing(g) BY <2>1, FdManagerAssumption DEF NotClosing
  <2> QED BY <1>2, <1>7, <2>2 DEF IInv, Table, At, Free
<1>10. Wanted' BY <1>2, <1>7 DEF IInv, Wanted, At, Free
<1>11. Settings'
  <2>1. ASSUME NEW g \in Fds \ orphaned', file'[g] \in managed' PROVE Kept(g)'
    <3>1. Kept(g) BY <1>2, <2>1 DEF IInv, Settings
    <3>2. \A u \in Threads : Pending(u, g) => Pending(u, g)' BY <1>1, <1>8 DEF Pending, At
    <3> QED BY <1>2, <3>1, <3>2 DEF Kept
  <2> QED BY <1>2, <1>7, <2>1 DEF IInv, Settings, At, Free
<1>12. KernelFlags => KernelFlags'
  <2> SUFFICES ASSUME KernelFlags PROVE KernelFlags' OBVIOUS
  <2>1. ASSUME NEW g \in Fds \ orphaned', file'[g] \in managed' PROVE nonBlock'[file'[g]]
    <3>1. file[g] \in FileIds /\ nonBlock[file[g]] BY <1>2, <2>1 DEF KernelFlags, IInv, TypeOK
    <3>2. CASE g = fd
      <4>1. call[t].arg BY <1>1, <1>2, <2>1, <3>2 DEF KernelFlags
      <4> QED BY <1>1, <1>2, <3>2, <4>1 DEF IInv, TypeOK
    <3>3. CASE g # fd
      <4>1. file[g] # f BY <1>1, <3>3 DEF IInv, Files, Calls
      <4> QED BY <1>2, <3>1, <4>1 DEF IInv, TypeOK
    <3> QED BY <3>2, <3>3
  <2> QED BY <1>2, <1>7, <2>1 DEF KernelFlags, At, Free
<1> QED BY <1>4, <1>5, <1>6, <1>9, <1>10, <1>11, <1>12 DEF IInv

LEMMA SetSockOptInv ==
  ASSUME IInv, NEW t \in Threads, NEW fd \in Fds, NEW val \in Timevals, SetSockOpt(t, fd, val)
  PROVE  IInv' /\ (KernelFlags => KernelFlags')
<1> DEFINE f == file[fd]
           ms == Milliseconds(val)
<1>0. ms \in Nat /\ RoundsDown(ms, val) BY Rounding
<1> HIDE DEF ms
<1>1. /\ UNCHANGED <<file, isSocket, nonBlock, opened, m_datas, m_size, call, managed, orphaned>>
      /\ Usable(fd)
      /\ ctx' = IF Get(fd) = NoCtx THEN ctx ELSE [ctx EXCEPT ![Get(fd)].m_recvTimeout = ms]
      /\ wanted' = [wanted EXCEPT ![f].timeout = val]
  BY DEF SetSockOpt, kernelVars, ms
<1>2. /\ f \in FileIds /\ Get(fd) \in FileIds \cup {NoCtx}
      /\ fd \notin orphaned /\ f \in managed => Get(fd) = f /\ Get(fd) # NoCtx
  BY <1>1, EnterCtx
<1>3. /\ ctx' \in [FileIds -> [m_isSocket : BOOLEAN, m_sysNonBlock : BOOLEAN,
                               m_userNonBlock : BOOLEAN, m_recvTimeout : Nat \cup {Infinite}]]
      /\ \A i \in FileIds :
           /\ i # Get(fd) => ctx'[i] = ctx[i]
           /\ ctx'[i].m_isSocket = ctx[i].m_isSocket /\ ctx'[i].m_sysNonBlock = ctx[i].m_sysNonBlock
           /\ ctx'[i].m_userNonBlock = ctx[i].m_userNonBlock
      /\ Get(fd) # NoCtx => ctx'[Get(fd)].m_recvTimeout = ms
  <2>1. ctx \in [FileIds -> [m_isSocket : BOOLEAN, m_sysNonBlock : BOOLEAN,
                             m_userNonBlock : BOOLEAN, m_recvTimeout : Nat \cup {Infinite}]]
    BY DEF IInv, TypeOK
  <2>2. CASE Get(fd) # NoCtx
    <3>1. ctx' = [ctx EXCEPT ![Get(fd)].m_recvTimeout = ms] BY <1>1, <2>2
    <3> QED BY <1>0, <1>2, <2>1, <2>2, <3>1
  <2>3. CASE Get(fd) = NoCtx BY <1>1, <2>1, <2>3
  <2> QED BY <2>2, <2>3
<1>4. /\ wanted' \in [FileIds -> [nonBlock : BOOLEAN, timeout : Timevals \cup {Infinite}]]
      /\ \A i \in FileIds : (i # f => wanted'[i] = wanted[i]) /\ wanted'[i].nonBlock = wanted[i].nonBlock
      /\ wanted'[f].timeout = val
  BY <1>1, <1>2 DEF IInv, Wanted
<1>5. TypeOK' BY <1>1, <1>3 DEF IInv, TypeOK
<1>6. Calls' /\ Files' /\ Table' BY <1>1 DEF IInv, Calls, Files, Table, NotClosing, Free, At
<1>7. Wanted'
  <2>1. ASSUME NEW u \in Threads, At(u, "look") \/ At(u, "create")
        PROVE  file[call[u].fd] \in FileIds /\ file[call[u].fd] # f
    <3>1. ~Free(u) BY <2>1 DEF At, Free
    <3>2. call[u].fd # fd BY <1>1, <3>1 DEF Usable, AtRest
    <3> QED BY <1>1, <3>1, <3>2, BusyFile DEF IInv, Files, Usable
  <2>2. \A i \in FileIds : i > opened => i # f
    <3>1. f <= opened BY DEF IInv, Files
    <3> QED BY <1>2, <3>1 DEF IInv, TypeOK, FileIds
  <2>3. \A u \in Threads : (At(u, "look") \/ At(u, "create"))' => At(u, "look") \/ At(u, "create")
    BY <1>1 DEF At
  <2> QED BY <1>1, <1>4, <2>1, <2>2, <2>3 DEF IInv, Wanted, At
<1>8. Settings'
  <2>1. ASSUME NEW u \in Threads, At(u, "setfl")' \/ At(u, "fionbio")'
        PROVE  /\ call'[u].ctx = m_datas'[call'[u].fd] /\ call'[u].ctx # NoCtx
               /\ call'[u].arg = wanted'[file'[call'[u].fd]].nonBlock
    <3>1. ~Free(u) /\ (At(u, "setfl") \/ At(u, "fionbio")) BY <1>1, <2>1 DEF At, Free
    <3>2. file[call[u].fd] \in FileIds BY <3>1, BusyFile
    <3> QED BY <1>1, <1>4, <3>1, <3>2 DEF IInv, Settings
  <2>2. ASSUME NEW g \in Fds \ orphaned', file'[g] \in managed' PROVE Kept(g)'
    <3>1. file[g] \in FileIds /\ Kept(g) BY <1>1, <2>2 DEF IInv, TypeOK, Settings
    <3>2. \A u \in Threads : Pending(u, g) => Pending(u, g)' BY <1>1 DEF Pending, At
    <3>3. RoundsDown(ctx'[file[g]].m_recvTimeout, wanted'[file[g]].timeout)
      <4>1. CASE g = fd BY <1>0, <1>1, <1>2, <1>3, <1>4, <2>2, <4>1
      <4>2. CASE g # fd
        <5>1. file[g] # f /\ (Get(fd) # NoCtx => file[g] # Get(fd)) BY <1>1, <4>2, OthersDiffer
        <5>2. NoCtx \notin FileIds BY FdManagerAssumption DEF FileIds
        <5>3. ctx'[file[g]] = ctx[file[g]] /\ wanted'[file[g]] = wanted[file[g]]
          BY <1>3, <1>4, <3>1, <5>1, <5>2
        <5> QED BY <3>1, <5>3 DEF Kept
      <4> QED BY <4>1, <4>2
    <3> QED BY <1>1, <1>3, <1>4, <3>1, <3>2, <3>3 DEF Kept
  <2> QED BY <2>1, <2>2 DEF Settings
<1>9. KernelFlags => KernelFlags' BY <1>1 DEF KernelFlags, At
<1> QED BY <1>5, <1>6, <1>7, <1>8, <1>9 DEF IInv

-----------------------------------------------------------------------------
LEMMA StutterInv ==
  ASSUME IInv, UNCHANGED vars
  PROVE  IInv' /\ (KernelFlags => KernelFlags')
BY DEF vars, kernelVars, tableVars, IInv, TypeOK, Calls, Files, Table, NotClosing, Wanted, Settings,
       Kept, KernelFlags, Pending, At, Free

LEMMA NextInv ==
  ASSUME IInv, [Next]_vars
  PROVE  IInv' /\ (KernelFlags /\ FALSE \notin IoctlFlags => KernelFlags')
<1>1. CASE \E fd \in Fds : OpenFile(fd) BY <1>1, OpenFileInv
<1>2. CASE \E t \in Threads : Step(t)
  BY <1>2, LookInv, CreateInv, DelInv, CloseFInv, SetUserInv, SetFInv DEF Step
<1>3. CASE \E t \in Threads, fd \in Fds : Socket(t, fd) \/ Accept(t, fd) \/ Close(t, fd)
  BY <1>3, SocketInv, CloseInv
<1>4. ASSUME NEW t \in Threads, NEW fd \in Fds, NEW arg \in BOOLEAN, Fcntl(t, fd, arg)
      PROVE  IInv' /\ (KernelFlags => KernelFlags')
  BY <1>4, EnterInv DEF Fcntl
<1>5. ASSUME NEW t \in Threads, NEW fd \in Fds, NEW arg \in IoctlFlags, Ioctl(t, fd, arg)
      PROVE  IInv' /\ (KernelFlags /\ FALSE \notin IoctlFlags => KernelFlags')
  <2>1. arg \in BOOLEAN BY FdManagerAssumption
  <2>2. IInv' /\ (KernelFlags /\ ("fionbio" = "fionbio" => arg) => KernelFlags')
    BY <1>5, <2>1, EnterInv DEF Ioctl
  <2>3. FALSE \notin IoctlFlags => arg BY <2>1
  <2> QED BY <2>2, <2>3
<1>6. CASE \E t \in Threads, fd \in Fds, val \in Timevals : SetSockOpt(t, fd, val)
  BY <1>6, SetSockOptInv
<1>7. CASE UNCHANGED vars BY <1>7, StutterInv
<1> QED BY <1>1, <1>2, <1>3, <1>4, <1>5, <1>6, <1>7 DEF Next

\* The inductive invariant of the manager's table beside the kernel's.
THEOREM FdInvariant == Spec => []IInv
<1>1. Init => IInv BY InitInv
<1>2. IInv /\ [Next]_vars => IInv' BY NextInv
<1> QED BY <1>1, <1>2, PTL DEF Spec

\* Table, FdCtxs and calls keep their types.
THEOREM FdTypes == Spec => []TypeOK
<1>1. IInv => TypeOK BY DEF IInv
<1> QED BY <1>1, FdInvariant, PTL

\* The manager's table follows the kernel's through reuse of numbers and growth,
\* for every number but those whose FdCtx an unhooked close() left behind.
THEOREM TableFollows == Spec => []TableIsExact
<1>1. IInv => TableIsExact BY RestEntry DEF TableIsExact
<1> QED BY <1>1, FdInvariant, PTL

\* What clients set is what the FdCtx of the open file says.
THEOREM SettingsFollow == Spec => []SettingsKept
<1>1. ASSUME IInv, NEW fd \in Fds \ orphaned, Usable(fd), file[fd] \in managed
      PROVE  /\ ctx[Get(fd)].m_userNonBlock = wanted[file[fd]].nonBlock
             /\ RoundsDown(ctx[Get(fd)].m_recvTimeout, wanted[file[fd]].timeout)
  <2>1. Get(fd) = file[fd] BY <1>1, EnterCtx
  <2>2. \A t \in Threads : ~Pending(t, fd) BY <1>1 DEF Usable, AtRest, Pending, At, Free
  <2>3. Kept(fd) BY <1>1 DEF IInv, Settings
  <2> QED BY <2>1, <2>2, <2>3 DEF Kept
<1>2. IInv => SettingsKept BY <1>1 DEF SettingsKept
<1> QED BY <1>2, FdInvariant, PTL

\* No socket the hooks treat as blocking blocks in the kernel, if nobody uses
\* ioctl() to make it so and the number has no FdCtx an unhooked close() left.
THEOREM SocketsNeverBlock ==
  ASSUME FALSE \notin IoctlFlags
  PROVE  Spec => []NeverBlocks
<1>1. Init => IInv /\ KernelFlags BY InitInv
<1>2. IInv /\ KernelFlags /\ [Next]_vars => (IInv /\ KernelFlags)' BY NextInv
<1>3. ASSUME IInv, KernelFlags PROVE NeverBlocks
  BY <1>3, EnterCtx DEF NeverBlocks, KernelFlags
<1> QED BY <1>1, <1>2, <1>3, PTL DEF Spec
=============================================================================
