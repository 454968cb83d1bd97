---------------------------- MODULE ClientProofs ----------------------------
(***************************************************************************)
(* Proofs about Client for every set of workers and hosts and any bound on *)
(* the connections: its type invariant and the safety of the handles that  *)
(* SSH() and SFTP() return.                                                *)
(***************************************************************************)
EXTENDS Client, TLAPS

(* c.mu is held exactly in the critical sections that span several steps.  *)
Critical == {"setMgr", "dial", "install", "home"}
LockInv == \A w \in Workers : pc[w] \in Critical <=> mu = w

(* Connections are installed in the order in which they are made, the SFTP
   client lags only inside Connect, and a call that has got past
   EnsureConnected has seen a connection, and finds both clients set and no
   older than that.                                                        *)
Connected == {"ecProbe", "home", "readCwd", "readSudo", "readHandle"}
SlotInv ==
    /\ sftpClient <= sshClient /\ sshClient <= dialed
    /\ PairConsistent
    /\ InstallsConfiguredHost
    /\ \A w \in Workers :
          /\ pc[w] = "install" => sshClient # 0 /\ seen[w] = sshClient
          /\ pc[w] # "install" => seen[w] <= sftpClient
          /\ pc[w] \in Connected => seen[w] # 0
          /\ Using(w) => handle[w] # 0 /\ handle[w] >= seen[w]

(* A half-written directory is never what a command starts with.           *)
CallInv == \A w \in Workers :
              /\ call[w].cwd # Raced
              /\ pc[w] = "running" => call[w].cwd # Torn

IInv == TypeOK /\ LockInv /\ SlotInv /\ CallInv

-----------------------------------------------------------------------------
(* Types of the constants of the model.                                    *)
LEMMA ConstantTypes ==
    /\ NoHost \in AnyHost
    /\ {Unset, Torn, Raced} \subseteq Cwds
    /\ NoCall \in Calls
    /\ Unset # Raced /\ Unset # Torn
    /\ NoCall.cwd = Unset
    /\ 0 \in 0 .. MaxConns
<1>1. Unset # Raced /\ Unset # Torn
  BY DEF Unset, Raced, Torn
<1>2. NoHost \in AnyHost /\ {Unset, Torn, Raced} \subseteq Cwds
  BY DEF AnyHost, Cwds
<1> QED
  BY <1>1, <1>2, ClientAssumption DEF NoCall, Calls, OpKinds

(* Arguments and locals of a call stay well typed when one of them changes. *)
LEMMA CallUpdates ==
    ASSUME NEW c \in Calls, NEW d \in Cwds, NEW p \in AnyHost
    PROVE  /\ [c EXCEPT !.first = FALSE] \in Calls
           /\ [c EXCEPT !.cwd = d] \in Calls
           /\ [c EXCEPT !.sudo = p] \in Calls
           /\ [c EXCEPT !.first = FALSE].cwd = c.cwd
           /\ [c EXCEPT !.cwd = d].cwd = d
  BY DEF Calls

(* The calls that can begin are well typed.                                *)
LEMMA NewCalls ==
    ASSUME NEW h \in AnyHost, NEW m \in AnyHost
    PROVE  /\ [NoCall EXCEPT !.op = "connect", !.host = h] \in Calls
           /\ [NoCall EXCEPT !.op = "file", !.host = h] \in Calls
           /\ [NoCall EXCEPT !.op = "forward", !.host = h] \in Calls
           /\ [NoCall EXCEPT !.op = "exec", !.host = h, !.first = TRUE, !.mgr = m] \in Calls
  BY ConstantTypes DEF Calls, OpKinds

LEMMA NewRunCalls ==
    ASSUME NEW h \in AnyHost, NEW d \in Dirs \cup {""}, NEW o \in BOOLEAN,
           NEW v \in BOOLEAN, NEW g \in Cwds
    PROVE  [NoCall EXCEPT !.op = "run", !.host = h, !.first = TRUE, !.cd = d,
                          !.once = o, !.given = v, !.cwd = g] \in Calls
  BY ConstantTypes DEF Calls, OpKinds

LEMMA NewCallsCwd ==
    /\ \A h : [NoCall EXCEPT !.op = "connect", !.host = h].cwd = Unset
    /\ \A h : [NoCall EXCEPT !.op = "file", !.host = h].cwd = Unset
    /\ \A h : [NoCall EXCEPT !.op = "forward", !.host = h].cwd = Unset
    /\ \A h, m : [NoCall EXCEPT !.op = "exec", !.host = h, !.first = TRUE,
                               !.mgr = m].cwd = Unset
    /\ \A h, d, o, v, g : [NoCall EXCEPT !.op = "run", !.host = h, !.first = TRUE,
                                        !.cd = d, !.once = o, !.given = v, !.cwd = g].cwd = g
  BY DEF NoCall

(* The directories that a caller gives, or finds, are never half-marked.   *)
LEMMA CwdsRead ==
    ASSUME TypeOK
    PROVE  /\ GetCwd \subseteq Cwds /\ Raced \notin GetCwd
           /\ GivenCwds \subseteq Cwds /\ Raced \notin GivenCwds
<1>1. GetCwd \subseteq Cwds /\ Raced \notin GetCwd
  BY ConstantTypes DEF GetCwd, TypeOK, Torn, Raced
<1>2. [host |-> cfgHost, dir |-> "work"] \in Cwds
  BY DEF TypeOK, Cwds, Dirs
<1>3. [host |-> cfgHost, dir |-> "work"] # Raced
  BY DEF Raced
<1> QED
  BY <1>1, <1>2, <1>3, ConstantTypes DEF GivenCwds

(* A call that returns leaves its variables well typed.                    *)
LEMMA ReturnTypes ==
    ASSUME TypeOK, NEW w \in Workers, Return(w)
    PROVE  /\ pc' \in [Workers -> Pcs]
           /\ call' \in [Workers -> Calls]
           /\ seen' \in [Workers -> 0 .. MaxConns]
           /\ handle' \in [Workers -> 0 .. MaxConns]
  BY ConstantTypes DEF Return, Goto, TypeOK, Pcs

LEMMA ResumeTypes ==
    ASSUME TypeOK, NEW w \in Workers, Resume(w)
    PROVE  /\ pc' \in [Workers -> Pcs]
           /\ call' \in [Workers -> Calls]
           /\ seen' \in [Workers -> 0 .. MaxConns]
           /\ handle' \in [Workers -> 0 .. MaxConns]
<1>1. CASE call[w].op = "connect"
  BY <1>1, ReturnTypes DEF Resume
<1>2. CASE call[w].op # "connect"
  <2>1. ResumeAt(call[w]) \in Pcs
    BY DEF ResumeAt, Pcs
  <2>2. call' = [call EXCEPT ![w] = [call[w] EXCEPT !.first = FALSE]]
    BY <1>2 DEF Resume, TypeOK
  <2>3. [call[w] EXCEPT !.first = FALSE] \in Calls
    BY CallUpdates, ConstantTypes DEF TypeOK
  <2>4. call' \in [Workers -> Calls]
    BY <2>2, <2>3 DEF TypeOK
  <2> QED
    BY <1>2, <2>1, <2>4 DEF Resume, Goto, TypeOK
<1> QED
  BY <1>1, <1>2

(* Returning and resuming keep CallInv.                                    *)
LEMMA ReturnCallInv ==
    ASSUME TypeOK, CallInv, NEW w \in Workers, Return(w)
    PROVE  CallInv'
  BY ConstantTypes DEF Return, Goto, TypeOK, CallInv

LEMMA ResumeCallInv ==
    ASSUME TypeOK, CallInv, NEW w \in Workers, Resume(w)
    PROVE  CallInv'
<1>1. CASE call[w].op = "connect"
  BY <1>1, ReturnCallInv DEF Resume
<1>2. CASE call[w].op # "connect"
  <2>1. ResumeAt(call[w]) # "running"
    BY DEF ResumeAt
  <2>2. \A v \in Workers : call'[v].cwd = call[v].cwd
    <3>1. call' = [call EXCEPT ![w] = [call[w] EXCEPT !.first = FALSE]]
      BY <1>2 DEF Resume, TypeOK
    <3>2. [call[w] EXCEPT !.first = FALSE].cwd = call[w].cwd
      BY CallUpdates, ConstantTypes DEF TypeOK
    <3> QED
      BY <3>1, <3>2 DEF TypeOK
  <2> QED
    BY <1>2, <2>1, <2>2 DEF Resume, Goto, TypeOK, CallInv
<1> QED
  BY <1>1, <1>2

-----------------------------------------------------------------------------
(* At most the connection that NewClient makes exists initially.           *)
LEMMA InitDialed ==
    ASSUME Init
    PROVE  /\ dialed = 0 \/ dialed = 1
           /\ sshClient = dialed /\ sftpClient = dialed
  BY DEF Init

LEMMA InitSlots ==
    ASSUME Init
    PROVE  /\ dialed \in 0 .. MaxConns
           /\ sftpClient <= sshClient /\ sshClient <= dialed /\ 0 <= sftpClient
<1>1. dialed = 0 \/ dialed = 1
  BY InitDialed
<1>2. sshClient = dialed /\ sftpClient = dialed
  BY InitDialed
<1>3. MaxConns \in Nat \ {0}
  BY ClientAssumption
<1> QED
  BY <1>1, <1>2, <1>3

(* The initial states satisfy the invariant.                               *)
LEMMA InitIInv == Init => IInv
<1> SUFFICES ASSUME Init PROVE IInv
  OBVIOUS
<1> USE ClientAssumption
<1>1. PICK h \in AnyHost, dir \in {"", "work"} :
        /\ cfgHost = h /\ mgr = h /\ sudo = h
        /\ \/ cwd = [host |-> h, dir |-> "work"]
           \/ cwd = [host |-> h, dir |-> "home"]
           \/ cwd = Unset
        /\ conns = [c \in Conns |-> IF c <= dialed
                                    THEN [host |-> h, state |-> "up"]
                                    ELSE [host |-> NoHost, state |-> "unused"]]
  BY DEF Init
<1>7. /\ dialed = 0 \/ dialed = 1
      /\ sshClient = dialed /\ sftpClient = dialed
  BY InitDialed
<1>8. /\ dialed \in 0 .. MaxConns
      /\ sftpClient <= sshClient /\ sshClient <= dialed /\ 0 <= sftpClient
  BY InitSlots
<1>2. /\ mu = Free
      /\ pc = [w \in Workers |-> "idle"]
      /\ call = [w \in Workers |-> NoCall]
      /\ seen = [w \in Workers |-> 0]
      /\ handle = [w \in Workers |-> 0]
  BY DEF Init
<1>3. TypeOK
  <2>1. cwd \in Cwds /\ sudo \in AnyHost
    <3>1. [host |-> h, dir |-> "work"] \in Cwds /\ [host |-> h, dir |-> "home"] \in Cwds
      BY DEF Cwds, Dirs
    <3> QED
      BY <1>1, <3>1, ConstantTypes
  <2>2. dialed \in 0 .. MaxConns
    BY <1>8
  <2>3. conns \in [Conns -> [host : AnyHost, state : {"unused", "up", "nosftp", "dead"}]]
    BY <1>1, ConstantTypes
  <2> QED
    BY <1>1, <1>2, <1>7, <2>1, <2>2, <2>3, ConstantTypes DEF TypeOK, Pcs
<1>4. LockInv
  BY <1>2, ClientAssumption DEF LockInv, Critical
<1>5. SlotInv
  <2>1. sftpClient <= sshClient /\ sshClient <= dialed /\ 0 <= sftpClient
    BY <1>8
  <2> QED
    BY <1>1, <1>2, <1>7, <2>1 DEF SlotInv, PairConsistent,
        InstallsConfiguredHost, Using, Connected
<1>6. CallInv
  BY <1>2, ConstantTypes DEF CallInv
<1> QED
  BY <1>3, <1>4, <1>5, <1>6 DEF IInv

(* Every step preserves it.                                                *)
LEMMA NextIInv == IInv /\ [Next]_vars => IInv'
<1> SUFFICES ASSUME IInv, [Next]_vars PROVE IInv'
  OBVIOUS
<1> USE ClientAssumption DEF IInv
<1>1. ASSUME NEW w \in Workers, ConnectTo(w) PROVE IInv'
  <2>1. TypeOK'
    <3>1. call' \in [Workers -> Calls]
      <4>1. PICK h \in Hosts :
              call' = [call EXCEPT ![w] = [NoCall EXCEPT !.op = "connect", !.host = h]]
        BY <1>1 DEF ConnectTo
      <4>2. [NoCall EXCEPT !.op = "connect", !.host = h] \in Calls
        BY NewCalls, ConstantTypes DEF AnyHost, Dirs
      <4> QED
        BY <4>1, <4>2 DEF TypeOK
    <3>2. conns' \in [Conns -> [host : AnyHost, state : {"unused", "up", "nosftp", "dead"}]]
      BY <1>1 DEF ConnectTo, Closed, TypeOK
    <3> QED
      BY <1>1, <3>1, <3>2 DEF ConnectTo, Goto, shared, TypeOK, Pcs
  <2>2. LockInv'
    BY <1>1 DEF ConnectTo, Goto, Closed, Live, shared, TypeOK, LockInv, Critical
  <2>3. SlotInv'
    BY <1>1 DEF ConnectTo, Goto, Closed, Live, shared, TypeOK, Conns,
        LockInv, Critical, SlotInv, PairConsistent, InstallsConfiguredHost,
        Using, Connected
  <2>4. CallInv'
    <3>1. \E c : c.cwd = Unset /\ call' = [call EXCEPT ![w] = c]
      BY <1>1, NewCallsCwd DEF ConnectTo
    <3> QED
      BY <1>1, <3>1, ConstantTypes DEF ConnectTo, Goto, TypeOK, CallInv
  <2> QED
    BY <2>1, <2>2, <2>3, <2>4
<1>2. ASSUME NEW w \in Workers, Disconnect(w) PROVE IInv'
  <2>1. TypeOK'
    <3>1. conns' \in [Conns -> [host : AnyHost, state : {"unused", "up", "nosftp", "dead"}]]
      BY <1>2 DEF Disconnect, Closed, TypeOK
    <3> QED
      BY <1>2, <3>1 DEF Disconnect, shared, TypeOK
  <2>2. LockInv'
    BY <1>2 DEF Disconnect, Goto, Closed, Live, shared, TypeOK, LockInv,
        Critical
  <2>3. SlotInv'
    BY <1>2 DEF Disconnect, Goto, Closed, Live, shared, TypeOK, Conns,
        LockInv, Critical, SlotInv, PairConsistent, InstallsConfiguredHost,
        Using, Connected
  <2>4. CallInv'
    BY <1>2 DEF Disconnect, Goto, Closed, Live, shared, TypeOK, CallInv,
        NoCall, Unset, Raced, Torn
  <2> QED
    BY <2>1, <2>2, <2>3, <2>4
<1>3. ASSUME NEW w \in Workers, SetSudoTool(w) PROVE IInv'
  <2>1. TypeOK'
    BY <1>3 DEF SetSudoTool, Goto, shared, TypeOK, AnyHost, Conns, Cwds,
        Dirs, Unset, Torn, Raced, Pcs, Calls, NoCall, OpKinds
  <2>2. LockInv'
    BY <1>3 DEF SetSudoTool, Goto, shared, TypeOK, LockInv, Critical
  <2>3. SlotInv'
    BY <1>3 DEF SetSudoTool, Goto, shared, TypeOK, Conns, LockInv,
        Critical, SlotInv, PairConsistent, InstallsConfiguredHost, Using,
        Connected
  <2>4. CallInv'
    BY <1>3 DEF SetSudoTool, Goto, shared, TypeOK, CallInv, NoCall, Unset,
        Raced, Torn
  <2> QED
    BY <2>1, <2>2, <2>3, <2>4
<1>4. ASSUME NEW w \in Workers, RunCommand(w) PROVE IInv'
  <2> DEFINE new(d, o, g) == [NoCall EXCEPT !.op = "run", !.host = cfgHost, !.first = TRUE,
                                            !.cd = d, !.once = o, !.given = (g # Unset),
                                            !.cwd = g]
  <2>1. PICK d \in {"", "work"}, o \in BOOLEAN, g \in GivenCwds :
          call' = [call EXCEPT ![w] = new(d, o, g)]
    BY <1>4 DEF RunCommand
  <2>2. g \in Cwds /\ g # Raced
    BY CwdsRead
  <2>3. new(d, o, g) \in Calls
    <3>1. cfgHost \in AnyHost /\ d \in Dirs \cup {""} /\ (g # Unset) \in BOOLEAN
      BY DEF TypeOK, Dirs
    <3> QED
      BY <2>1, <2>2, <3>1, NewRunCalls
  <2>4. new(d, o, g).cwd = g
    BY DEF NoCall
  <2> HIDE DEF new
  <2>5. TypeOK'
    <3>1. call' \in [Workers -> Calls]
      BY <2>1, <2>3 DEF TypeOK
    <3> QED
      BY <1>4, <3>1 DEF RunCommand, Goto, shared, TypeOK, Pcs
  <2>6. LockInv'
    BY <1>4 DEF RunCommand, Goto, shared, TypeOK, LockInv, Critical
  <2>7. SlotInv'
    BY <1>4 DEF RunCommand, Goto, shared, TypeOK, Conns, LockInv, Critical,
        SlotInv, PairConsistent, InstallsConfiguredHost, Using, Connected
  <2>8. CallInv'
    BY <1>4, <2>1, <2>2, <2>4 DEF RunCommand, Goto, TypeOK, CallInv
  <2> QED
    BY <2>5, <2>6, <2>7, <2>8
<1>5. ASSUME NEW w \in Workers, ExecRaw(w) PROVE IInv'
  <2>1. TypeOK'
    <3>1. call' \in [Workers -> Calls]
      BY <1>5, NewCalls DEF ExecRaw, TypeOK, Dirs
    <3> QED
      BY <1>5, <3>1 DEF ExecRaw, Goto, shared, TypeOK, Pcs
  <2>2. LockInv'
    BY <1>5 DEF ExecRaw, Goto, shared, TypeOK, LockInv, Critical
  <2>3. SlotInv'
    BY <1>5 DEF ExecRaw, Goto, shared, TypeOK, Conns, LockInv, Critical,
        SlotInv, PairConsistent, InstallsConfiguredHost, Using, Connected
  <2>4. CallInv'
    <3>1. \E c : c.cwd = Unset /\ call' = [call EXCEPT ![w] = c]
      BY <1>5, NewCallsCwd DEF ExecRaw
    <3> QED
      BY <1>5, <3>1, ConstantTypes DEF ExecRaw, Goto, TypeOK, CallInv
  <2> QED
    BY <2>1, <2>2, <2>3, <2>4
<1>6. ASSUME NEW w \in Workers, FileOp(w) PROVE IInv'
  <2>1. TypeOK'
    <3>1. call' \in [Workers -> Calls]
      BY <1>6, NewCalls DEF FileOp, TypeOK, Dirs
    <3> QED
      BY <1>6, <3>1 DEF FileOp, Goto, shared, TypeOK, Pcs
  <2>2. LockInv'
    BY <1>6 DEF FileOp, Goto, shared, TypeOK, LockInv, Critical
  <2>3. SlotInv'
    BY <1>6 DEF FileOp, Goto, shared, TypeOK, Conns, LockInv, Critical,
        SlotInv, PairConsistent, InstallsConfiguredHost, Using, Connected
  <2>4. CallInv'
    <3>1. \E c : c.cwd = Unset /\ call' = [call EXCEPT ![w] = c]
      BY <1>6, NewCallsCwd DEF FileOp
    <3> QED
      BY <1>6, <3>1, ConstantTypes DEF FileOp, Goto, TypeOK, CallInv
  <2> QED
    BY <2>1, <2>2, <2>3, <2>4
<1>7. ASSUME NEW w \in Workers, SetCfg(w) PROVE IInv'
  <2>1. TypeOK'
    BY <1>7 DEF SetCfg, Goto, shared, TypeOK, AnyHost, Conns, Cwds, Dirs,
        Unset, Torn, Raced, Pcs, Calls, NoCall, OpKinds
  <2>2. LockInv'
    BY <1>7 DEF SetCfg, Goto, shared, TypeOK, LockInv, Critical
  <2>3. SlotInv'
    BY <1>7 DEF SetCfg, Goto, shared, TypeOK, Conns, LockInv, Critical,
        SlotInv, PairConsistent, InstallsConfiguredHost, Using, Connected
  <2>4. CallInv'
    BY <1>7 DEF SetCfg, Goto, shared, TypeOK, CallInv, NoCall, Unset,
        Raced, Torn
  <2> QED
    BY <2>1, <2>2, <2>3, <2>4
<1>8. ASSUME NEW w \in Workers, SetMgr(w) PROVE IInv'
  <2>1. TypeOK'
    BY <1>8 DEF SetMgr, Goto, shared, TypeOK, AnyHost, Conns, Cwds, Dirs,
        Unset, Torn, Raced, Pcs, Calls, NoCall, OpKinds
  <2>2. LockInv'
    BY <1>8 DEF SetMgr, Goto, shared, TypeOK, LockInv, Critical
  <2>3. SlotInv'
    BY <1>8 DEF SetMgr, Goto, shared, TypeOK, Conns, LockInv, Critical,
        SlotInv, PairConsistent, InstallsConfiguredHost, Using, Connected
  <2>4. CallInv'
    BY <1>8 DEF SetMgr, Goto, shared, TypeOK, CallInv, NoCall, Unset,
        Raced, Torn
  <2> QED
    BY <2>1, <2>2, <2>3, <2>4
<1>9. ASSUME NEW w \in Workers, SetSudo(w) PROVE IInv'
  <2>1. TypeOK'
    BY <1>9 DEF SetSudo, Goto, shared, TypeOK, AnyHost, Conns, Cwds, Dirs,
        Unset, Torn, Raced, Pcs, Calls, NoCall, OpKinds
  <2>2. LockInv'
    BY <1>9 DEF SetSudo, Goto, shared, TypeOK, LockInv, Critical
  <2>3. SlotInv'
    BY <1>9 DEF SetSudo, Goto, shared, TypeOK, Conns, LockInv, Critical,
        SlotInv, PairConsistent, InstallsConfiguredHost, Using, Connected
  <2>4. CallInv'
    BY <1>9 DEF SetSudo, Goto, shared, TypeOK, CallInv, NoCall, Unset,
        Raced, Torn
  <2> QED
    BY <2>1, <2>2, <2>3, <2>4
<1>10. ASSUME NEW w \in Workers, Lock(w) PROVE IInv'
  <2>1. TypeOK'
    BY <1>10 DEF Lock, Goto, shared, TypeOK, AnyHost, Conns, Cwds, Dirs,
        Unset, Torn, Raced, Pcs, Calls, NoCall, OpKinds
  <2>2. LockInv'
    BY <1>10 DEF Lock, Goto, shared, TypeOK, LockInv, Critical
  <2>3. SlotInv'
    BY <1>10 DEF Lock, Goto, shared, TypeOK, Conns, LockInv, Critical,
        SlotInv, PairConsistent, InstallsConfiguredHost, Using, Connected
  <2>4. CallInv'
    BY <1>10 DEF Lock, Goto, shared, TypeOK, CallInv, NoCall, Unset, Raced, Torn
  <2> QED
    BY <2>1, <2>2, <2>3, <2>4
<1>11. ASSUME NEW w \in Workers, DialFails(w) PROVE IInv'
  <2>1. TypeOK'
    BY <1>11, ReturnTypes DEF DialFails, shared, TypeOK
  <2>2. LockInv'
    BY <1>11 DEF DialFails, Goto, Return, shared, TypeOK, LockInv, Critical
  <2>3. SlotInv'
    BY <1>11 DEF DialFails, Goto, Return, shared, TypeOK, Conns, LockInv,
        Critical, SlotInv, PairConsistent, InstallsConfiguredHost, Using,
        Connected
  <2>4. CallInv'
    BY <1>11, ReturnCallInv DEF DialFails
  <2> QED
    BY <2>1, <2>2, <2>3, <2>4
<1>12. ASSUME NEW w \in Workers, Dial(w) PROVE IInv'
  <2>1. TypeOK'
    <3>1. dialed + 1 \in Conns
      BY <1>12 DEF Dial, TypeOK, Conns
    <3> QED
      BY <1>12, <3>1 DEF Dial, Goto, TypeOK, Pcs, Conns, AnyHost
  <2>2. LockInv'
    BY <1>12 DEF Dial, Goto, shared, TypeOK, LockInv, Critical
  <2>3. SlotInv'
    BY <1>12 DEF Dial, Goto, shared, TypeOK, Conns, LockInv, Critical,
        SlotInv, PairConsistent, InstallsConfiguredHost, Using, Connected
  <2>4. CallInv'
    BY <1>12 DEF Dial, Goto, shared, TypeOK, CallInv, NoCall, Unset, Raced, Torn
  <2> QED
    BY <2>1, <2>2, <2>3, <2>4
<1>13. ASSUME NEW w \in Workers, InstallKeepCwd(w) PROVE IInv'
  <2>1. TypeOK'
    BY <1>13, ResumeTypes DEF InstallKeepCwd, shared, TypeOK
  <2>2. LockInv'
    BY <1>13 DEF InstallKeepCwd, Goto, Return, Resume, ResumeAt, shared,
        TypeOK, LockInv, Critical
  <2>3. SlotInv'
    BY <1>13 DEF InstallKeepCwd, Goto, Return, Resume, ResumeAt, shared,
        TypeOK, Conns, LockInv, Critical, SlotInv, PairConsistent,
        InstallsConfiguredHost, Using, Connected
  <2>4. CallInv'
    BY <1>13, ResumeCallInv DEF InstallKeepCwd
  <2> QED
    BY <2>1, <2>2, <2>3, <2>4
<1>14. ASSUME NEW w \in Workers, InstallNoCwd(w) PROVE IInv'
  <2>1. TypeOK'
    BY <1>14 DEF InstallNoCwd, Goto, shared, TypeOK, AnyHost, Conns, Cwds,
        Dirs, Unset, Torn, Raced, Pcs, Calls, NoCall, OpKinds
  <2>2. LockInv'
    BY <1>14 DEF InstallNoCwd, Goto, shared, TypeOK, LockInv, Critical
  <2>3. SlotInv'
    BY <1>14 DEF InstallNoCwd, Goto, shared, TypeOK, Conns, LockInv,
        Critical, SlotInv, PairConsistent, InstallsConfiguredHost, Using,
        Connected
  <2>4. CallInv'
    BY <1>14 DEF InstallNoCwd, Goto, shared, TypeOK, CallInv, NoCall,
        Unset, Raced, Torn
  <2> QED
    BY <2>1, <2>2, <2>3, <2>4
<1>15. ASSUME NEW w \in Workers, SetHome(w) PROVE IInv'
  <2>1. TypeOK'
    <3>1. sftpClient \in Conns
      <4>1. pc[w] = "home"
        BY <1>15 DEF SetHome
      <4>2. seen[w] # 0 /\ seen[w] <= sftpClient
        BY <4>1 DEF SlotInv, Connected
      <4>3. seen[w] \in 0 .. MaxConns /\ sftpClient \in 0 .. MaxConns
        BY DEF TypeOK
      <4> QED
        BY <4>2, <4>3 DEF Conns
    <3>2. conns[sftpClient].host \in AnyHost
      BY <3>1 DEF TypeOK
    <3>3. cwd' \in Cwds
      BY <1>15, <3>2, ConstantTypes DEF SetHome, Cwds, Dirs
    <3> QED
      BY <1>15, <3>3, ResumeTypes DEF SetHome, TypeOK
  <2>2. LockInv'
    BY <1>15 DEF SetHome, Goto, Return, Resume, ResumeAt, shared, TypeOK,
        LockInv, Critical
  <2>3. SlotInv'
    BY <1>15 DEF SetHome, Goto, Return, Resume, ResumeAt, shared, TypeOK,
        Conns, LockInv, Critical, SlotInv, PairConsistent,
        InstallsConfiguredHost, Using, Connected
  <2>4. CallInv'
    BY <1>15, ResumeCallInv DEF SetHome
  <2> QED
    BY <2>1, <2>2, <2>3, <2>4
<1>16. ASSUME NEW w \in Workers, EcNoHost(w) PROVE IInv'
  <2>1. TypeOK'
    BY <1>16, ReturnTypes DEF EcNoHost, shared, TypeOK
  <2>2. LockInv'
    BY <1>16 DEF EcNoHost, Goto, Return, shared, TypeOK, LockInv, Critical
  <2>3. SlotInv'
    BY <1>16 DEF EcNoHost, Goto, Return, shared, TypeOK, Conns, LockInv,
        Critical, SlotInv, PairConsistent, InstallsConfiguredHost, Using,
        Connected
  <2>4. CallInv'
    BY <1>16, ReturnCallInv DEF EcNoHost
  <2> QED
    BY <2>1, <2>2, <2>3, <2>4
<1>17. ASSUME NEW w \in Workers, EcCfg(w) PROVE IInv'
  <2>1. TypeOK'
    BY <1>17 DEF EcCfg, Goto, shared, TypeOK, AnyHost, Conns, Cwds, Dirs,
        Unset, Torn, Raced, Pcs, Calls, NoCall, OpKinds
  <2>2. LockInv'
    BY <1>17 DEF EcCfg, Goto, shared, TypeOK, LockInv, Critical
  <2>3. SlotInv'
    BY <1>17 DEF EcCfg, Goto, shared, TypeOK, Conns, LockInv, Critical,
        SlotInv, PairConsistent, InstallsConfiguredHost, Using, Connected
  <2>4. CallInv'
    BY <1>17 DEF EcCfg, Goto, shared, TypeOK, CallInv, NoCall, Unset,
        Raced, Torn
  <2> QED
    BY <2>1, <2>2, <2>3, <2>4
<1>18. ASSUME NEW w \in Workers, EcSftp(w) PROVE IInv'
  <2>1. TypeOK'
    BY <1>18 DEF EcSftp, Goto, shared, TypeOK, AnyHost, Conns, Cwds, Dirs,
        Unset, Torn, Raced, Pcs, Calls, NoCall, OpKinds
  <2>2. LockInv'
    BY <1>18 DEF EcSftp, Goto, shared, TypeOK, LockInv, Critical
  <2>3. SlotInv'
    BY <1>18 DEF EcSftp, Goto, shared, TypeOK, Conns, LockInv, Critical,
        SlotInv, PairConsistent, InstallsConfiguredHost, Using, Connected
  <2>4. CallInv'
    BY <1>18 DEF EcSftp, Goto, shared, TypeOK, CallInv, NoCall, Unset,
        Raced, Torn
  <2> QED
    BY <2>1, <2>2, <2>3, <2>4
<1>19. ASSUME NEW w \in Workers, EcProbeOk(w) PROVE IInv'
  <2>1. TypeOK'
    BY <1>19, ResumeTypes DEF EcProbeOk, shared, TypeOK
  <2>2. LockInv'
    BY <1>19 DEF EcProbeOk, Goto, Return, Resume, ResumeAt, shared, TypeOK,
        LockInv, Critical
  <2>3. SlotInv'
    <3>1. pc[w] = "ecProbe" /\ seen[w] # 0 /\ seen[w] <= sftpClient
      BY <1>19 DEF EcProbeOk, SlotInv, Connected
    <3>2. \A v \in Workers : v # w => UNCHANGED <<pc[v], seen[v], handle[v]>>
      BY <1>19 DEF EcProbeOk, Resume, Return, Goto, TypeOK
    <3>3. pc'[w] \in {"idle", "readCwd", "readSudo", "ecCfg", "readHandle"}
      BY <1>19 DEF EcProbeOk, Resume, ResumeAt, Return, Goto, TypeOK
    <3>4. seen'[w] = seen[w] \/ (seen'[w] = 0 /\ pc'[w] = "idle")
      BY <1>19 DEF EcProbeOk, Resume, Return, Goto, TypeOK
    <3>5. UNCHANGED <<cfgHost, sshClient, sftpClient, conns, dialed>>
      BY <1>19 DEF EcProbeOk, shared
    <3>6. (PairConsistent /\ InstallsConfiguredHost)'
      BY <3>1, <3>2, <3>3, <3>5 DEF SlotInv, PairConsistent,
          InstallsConfiguredHost
    <3>7. /\ pc'[w] # "install" /\ ~Using(w)'
          /\ seen'[w] <= sftpClient'
          /\ pc'[w] \in Connected => seen'[w] # 0
      BY <3>1, <3>3, <3>4, <3>5 DEF TypeOK, Using, Connected
    <3> QED
      BY <3>2, <3>5, <3>6, <3>7 DEF SlotInv, Using
  <2>4. CallInv'
    BY <1>19, ResumeCallInv DEF EcProbeOk
  <2> QED
    BY <2>1, <2>2, <2>3, <2>4
<1>20. ASSUME NEW w \in Workers, EcProbeFails(w) PROVE IInv'
  <2>1. TypeOK'
    BY <1>20 DEF EcProbeFails, Goto, shared, TypeOK, AnyHost, Conns, Cwds,
        Dirs, Unset, Torn, Raced, Pcs, Calls, NoCall, OpKinds
  <2>2. LockInv'
    BY <1>20 DEF EcProbeFails, Goto, shared, TypeOK, LockInv, Critical
  <2>3. SlotInv'
    BY <1>20 DEF EcProbeFails, Goto, shared, TypeOK, Conns, LockInv,
        Critical, SlotInv, PairConsistent, InstallsConfiguredHost, Using,
        Connected
  <2>4. CallInv'
    BY <1>20 DEF EcProbeFails, Goto, shared, TypeOK, CallInv, NoCall,
        Unset, Raced, Torn
  <2> QED
    BY <2>1, <2>2, <2>3, <2>4
<1>21. ASSUME NEW w \in Workers, ReadCwd(w) PROVE IInv'
  <2>1. TypeOK'
    <3>1. PICK d \in Cwds : call' = [call EXCEPT ![w].cwd = d]
      BY <1>21, CwdsRead DEF ReadCwd
    <3>2. call' \in [Workers -> Calls]
      <4>1. call' = [call EXCEPT ![w] = [call[w] EXCEPT !.cwd = d]]
        BY <3>1 DEF TypeOK
      <4>2. [call[w] EXCEPT !.cwd = d] \in Calls
        BY <3>1, CallUpdates, ConstantTypes DEF TypeOK
      <4> QED
        BY <4>1, <4>2 DEF TypeOK
    <3> QED
      BY <1>21, <3>2 DEF ReadCwd, Goto, shared, TypeOK, Pcs
  <2>2. LockInv'
    BY <1>21 DEF ReadCwd, Goto, shared, TypeOK, LockInv, Critical
  <2>3. SlotInv'
    BY <1>21 DEF ReadCwd, Goto, shared, TypeOK, Conns, LockInv,
        Critical, SlotInv, PairConsistent, InstallsConfiguredHost, Using,
        Connected
  <2>4. CallInv'
    <3>1. PICK d \in GetCwd : call' = [call EXCEPT ![w].cwd = d]
      BY <1>21 DEF ReadCwd
    <3>2. d \in Cwds /\ d # Raced
      BY CwdsRead
    <3>3. call' = [call EXCEPT ![w] = [call[w] EXCEPT !.cwd = d]]
      BY <3>1 DEF TypeOK
    <3>4. [call[w] EXCEPT !.cwd = d].cwd = d
      BY <3>2, CallUpdates, ConstantTypes DEF TypeOK
    <3> QED
      BY <1>21, <3>2, <3>3, <3>4 DEF ReadCwd, Goto, TypeOK, CallInv
  <2> QED
    BY <2>1, <2>2, <2>3, <2>4
<1>22. ASSUME NEW w \in Workers, ReadSudo(w) PROVE IInv'
  <2>1. TypeOK'
    <3>1. sudo' \in AnyHost
      BY <1>22 DEF ReadSudo, TypeOK, Calls
    <3>2. call' \in [Workers -> Calls]
      <4>1. call' = [call EXCEPT ![w] = [call[w] EXCEPT !.sudo = sudo']]
        BY <1>22 DEF ReadSudo, TypeOK
      <4>2. [call[w] EXCEPT !.sudo = sudo'] \in Calls
        BY <3>1, CallUpdates, ConstantTypes DEF TypeOK
      <4> QED
        BY <4>1, <4>2 DEF TypeOK
    <3> QED
      BY <1>22, <3>1, <3>2 DEF ReadSudo, Goto, TypeOK, Pcs
  <2>2. LockInv'
    BY <1>22 DEF ReadSudo, Goto, shared, TypeOK, LockInv, Critical
  <2>3. SlotInv'
    BY <1>22 DEF ReadSudo, Goto, shared, TypeOK, Conns, LockInv, Critical,
        SlotInv, PairConsistent, InstallsConfiguredHost, Using, Connected
  <2>4. CallInv'
    BY <1>22 DEF ReadSudo, Goto, shared, TypeOK, CallInv, NoCall, Unset,
        Raced, Torn
  <2> QED
    BY <2>1, <2>2, <2>3, <2>4
<1>23. ASSUME NEW w \in Workers, ReadHandle(w) PROVE IInv'
  <2>1. TypeOK'
    BY <1>23 DEF ReadHandle, Goto, shared, TypeOK, AnyHost, Conns, Cwds,
        Dirs, Unset, Torn, Raced, Pcs, Calls, NoCall, OpKinds
  <2>2. LockInv'
    BY <1>23 DEF ReadHandle, Goto, shared, TypeOK, LockInv, Critical
  <2>3. SlotInv'
    BY <1>23 DEF ReadHandle, Goto, shared, TypeOK, Conns, LockInv,
        Critical, SlotInv, PairConsistent, InstallsConfiguredHost, Using,
        Connected
  <2>4. CallInv'
    BY <1>23 DEF ReadHandle, Goto, shared, TypeOK, CallInv, NoCall, Unset,
        Raced, Torn
  <2> QED
    BY <2>1, <2>2, <2>3, <2>4
<1>24. ASSUME NEW w \in Workers, SessionFails(w) PROVE IInv'
  <2>1. TypeOK'
    BY <1>24, ReturnTypes DEF SessionFails, shared, TypeOK
  <2>2. LockInv'
    BY <1>24 DEF SessionFails, Goto, Return, shared, TypeOK, LockInv, Critical
  <2>3. SlotInv'
    BY <1>24 DEF SessionFails, Goto, Return, shared, TypeOK, Conns,
        LockInv, Critical, SlotInv, PairConsistent, InstallsConfiguredHost,
        Using, Connected
  <2>4. CallInv'
    BY <1>24, ReturnCallInv DEF SessionFails
  <2> QED
    BY <2>1, <2>2, <2>3, <2>4
<1>25. ASSUME NEW w \in Workers, Session(w) PROVE IInv'
  <2>1. TypeOK'
    BY <1>25 DEF Session, Goto, shared, TypeOK, AnyHost, Conns, Cwds, Dirs,
        Unset, Torn, Raced, Pcs, Calls, NoCall, OpKinds
  <2>2. LockInv'
    BY <1>25 DEF Session, Goto, shared, TypeOK, LockInv, Critical
  <2>3. SlotInv'
    BY <1>25 DEF Session, Goto, shared, TypeOK, Conns, LockInv, Critical,
        SlotInv, PairConsistent, InstallsConfiguredHost, Using, Connected
  <2>4. CallInv'
    BY <1>25 DEF Session, Goto, shared, TypeOK, CallInv, NoCall, Unset,
        Raced, Torn
  <2> QED
    BY <2>1, <2>2, <2>3, <2>4
<1>26. ASSUME NEW w \in Workers, FinishRun(w) PROVE IInv'
  <2>1. TypeOK'
    <3>1. handle[w] \in Conns
      <4>1. handle[w] # 0 /\ handle[w] \in 0 .. MaxConns
        BY <1>26 DEF FinishRun, SlotInv, Using, TypeOK
      <4> QED
        BY <4>1 DEF Conns
    <3>2. conns[handle[w]].host \in AnyHost
      BY <3>1 DEF TypeOK
    <3>3. /\ call[w].cwd \in [host : AnyHost, dir : Dirs] \cup {Unset}
          /\ call[w].cd \in Dirs \cup {""}
      BY <1>26 DEF FinishRun, CallInv, TypeOK, Calls, Cwds
    <3>4. StartDirs(w) \subseteq Dirs
      BY <3>3 DEF StartDirs, Dirs
    <3>5. cwd' \in Cwds
      <4>1. \A h \in AnyHost, d \in Dirs : [host |-> h, dir |-> d] \in Cwds
        BY DEF Cwds
      <4>2. PICK d \in StartDirs(w) :
              cwd' = IF CwdWindow THEN Raced
                     ELSE [host |-> conns[handle[w]].host,
                           dir |-> IF call[w].cd = "" THEN d ELSE call[w].cd]
        BY <1>26 DEF FinishRun
      <4> QED
        BY <3>2, <3>3, <3>4, <4>1, <4>2, ConstantTypes
    <3> QED
      BY <1>26, <3>5, ReturnTypes DEF FinishRun, TypeOK
  <2>2. LockInv'
    BY <1>26 DEF FinishRun, Goto, Return, CwdWindow, shared, TypeOK,
        LockInv, Critical
  <2>3. SlotInv'
    <3>1. Return(w) /\ pc[w] = "running"
      BY <1>26 DEF FinishRun
    <3>2. UNCHANGED <<cfgHost, sshClient, sftpClient, conns, dialed, mu>>
      BY <1>26 DEF FinishRun
    <3> QED
      BY <3>1, <3>2 DEF Return, Goto, TypeOK, SlotInv, PairConsistent,
          InstallsConfiguredHost, Using, Connected
  <2>4. CallInv'
    BY <1>26, ReturnCallInv DEF FinishRun
  <2> QED
    BY <2>1, <2>2, <2>3, <2>4
<1>27. ASSUME NEW w \in Workers, FinishNoCwd(w) PROVE IInv'
  <2>1. TypeOK'
    BY <1>27, ReturnTypes DEF FinishNoCwd, shared, TypeOK
  <2>2. LockInv'
    BY <1>27 DEF FinishNoCwd, Goto, Return, shared, TypeOK, LockInv, Critical
  <2>3. SlotInv'
    BY <1>27 DEF FinishNoCwd, Goto, Return, shared, TypeOK, Conns, LockInv,
        Critical, SlotInv, PairConsistent, InstallsConfiguredHost, Using,
        Connected
  <2>4. CallInv'
    BY <1>27, ReturnCallInv DEF FinishNoCwd
  <2> QED
    BY <2>1, <2>2, <2>3, <2>4
<1>28. ASSUME NEW c \in Conns, DropConn(c) PROVE IInv'
  <2>1. TypeOK'
    BY <1>28 DEF DropConn, shared, TypeOK, Conns
  <2>2. LockInv' /\ CallInv'
    BY <1>28 DEF DropConn, shared, LockInv, CallInv
  <2>3. SlotInv'
    BY <1>28 DEF DropConn, shared, TypeOK, Conns, SlotInv, PairConsistent,
        InstallsConfiguredHost, Using, Connected
  <2> QED
    BY <2>1, <2>2, <2>3
<1>29. ASSUME NEW c \in Conns, SftpEnds(c) PROVE IInv'
  <2>1. TypeOK'
    BY <1>29 DEF SftpEnds, shared, TypeOK, Conns
  <2>2. LockInv' /\ CallInv'
    BY <1>29 DEF SftpEnds, shared, LockInv, CallInv
  <2>3. SlotInv'
    BY <1>29 DEF SftpEnds, shared, TypeOK, Conns, SlotInv, PairConsistent,
        InstallsConfiguredHost, Using, Connected
  <2> QED
    BY <2>1, <2>2, <2>3
<1>31. ASSUME NEW w \in Workers, Forward(w) PROVE IInv'
  <2>1. TypeOK'
    <3>1. call' \in [Workers -> Calls]
      BY <1>31, NewCalls, ConstantTypes DEF Forward, TypeOK, Dirs
    <3> QED
      BY <1>31, <3>1 DEF Forward, Goto, shared, TypeOK, Pcs
  <2>2. LockInv'
    BY <1>31 DEF Forward, Goto, shared, TypeOK, LockInv, Critical
  <2>3. SlotInv'
    BY <1>31 DEF Forward, Goto, shared, TypeOK, Conns, LockInv, Critical,
        SlotInv, PairConsistent, InstallsConfiguredHost, Using, Connected
  <2>4. CallInv'
    <3>1. \E c : c.cwd = Unset /\ call' = [call EXCEPT ![w] = c]
      BY <1>31, NewCallsCwd DEF Forward
    <3> QED
      BY <1>31, <3>1, ConstantTypes DEF Forward, Goto, TypeOK, CallInv
  <2> QED
    BY <2>1, <2>2, <2>3, <2>4
<1>30. CASE UNCHANGED vars
  BY <1>30 DEF vars, shared, TypeOK, LockInv, SlotInv, PairConsistent,
      InstallsConfiguredHost, Using, Connected, CallInv
<1> QED
  BY <1>1, <1>2, <1>3, <1>4, <1>5, <1>6, <1>7, <1>8, <1>9, <1>10, <1>11,
      <1>12, <1>13, <1>14, <1>15, <1>16, <1>17, <1>18, <1>19, <1>20, <1>21,
      <1>22, <1>23, <1>24, <1>25, <1>26, <1>27, <1>28, <1>29, <1>30, <1>31 DEF Next,
      Start, Advance, EnsureConnected, Connect, Environment

(* Every reachable state satisfies the invariant.                          *)
LEMMA Invariance == Spec => []IInv
  BY InitIInv, NextIInv, PTL DEF Spec

-----------------------------------------------------------------------------
(* The state of the client is well typed in every reachable state.         *)
THEOREM TypeCorrect == Spec => []TypeOK
<1>1. IInv => TypeOK
  BY DEF IInv
<1> QED
  BY <1>1, Invariance, PTL

(* SSH() and SFTP() never hand out a nil client without an error, nor one
   older than what EnsureConnected checked, although they read the field
   without c.mu.                                                           *)
THEOREM HandlesSound == Spec => [](HandleNeverNil /\ HandleNotOlder)
<1>1. IInv => HandleNeverNil /\ HandleNotOlder
  BY DEF IInv, SlotInv, HandleNeverNil, HandleNotOlder
<1> QED
  BY <1>1, Invariance, PTL

(* Outside Connect the SSH and the SFTP client share a connection.         *)
THEOREM SlotConsistent == Spec => []PairConsistent
<1>1. IInv => PairConsistent
  BY DEF IInv, SlotInv
<1> QED
  BY <1>1, Invariance, PTL

(* The connection being installed leads to the host that is configured now:
   no call changes the configuration while another one dials.             *)
THEOREM ConfiguredHost == Spec => []InstallsConfiguredHost
<1>1. IInv => InstallsConfiguredHost
  BY DEF IInv, SlotInv
<1> QED
  BY <1>1, Invariance, PTL

-----------------------------------------------------------------------------
(***************************************************************************)
(* One caller at a time.  Next to others, a call may lose its host between *)
(* any two of its steps; alone, it keeps everything it uses on one host.   *)
(***************************************************************************)
Solo == \A v, w \in Workers : v = w

(* Directories of the configured host.                                     *)
Own == [host : {cfgHost}, dir : Dirs]

(* A connection that works is the installed one and leads to the configured
   host.  ConnectTo closes it before the host changes, and Connect dials
   only when EnsureConnected or ConnectTo has found none.                  *)
UpInv == \A c \in Conns :
            conns[c].state = "up" => c = sshClient /\ conns[c].host = cfgHost
NoneUp == \A c \in Conns : conns[c].state # "up"

(* The fields that belong to the host follow it: the manager and the
   directory in SetMgr, the password in SetSudo.  While a connection works,
   the directory is set, except inside Connect.                            *)
FieldsInv ==
    /\ cwd \notin {Torn, Raced}
    /\ \A w \in Workers :
          /\ pc[w] # "setMgr" => mgr = cfgHost /\ cwd \in Own \cup {Unset}
          /\ pc[w] \notin {"setMgr", "setSudo"} => sudo = cfgHost
          /\ pc[w] \in {"setCfg", "setMgr", "setSudo", "lock", "dial"} => NoneUp
          /\ pc[w] \notin {"install", "home"} => NoneUp \/ cwd # Unset
          /\ pc[w] = "home" => cwd = Unset
          /\ pc[w] = "readCwd" => cwd # Unset

(* What a call has found out at each of its stages still holds there.      *)
StageInv ==
    \A w \in Workers :
       /\ pc[w] = "idle" => call[w].op = "none"
       /\ pc[w] \in {"setCfg", "setMgr", "setSudo"} => call[w].op = "connect"
       /\ pc[w] \in {"readCwd", "readSudo"} => call[w].op = "run" /\ ~call[w].first
       /\ pc[w] = "readHandle" \/ Using(w) => (call[w].op = "run" => ~call[w].first)
       /\ pc[w] \notin {"idle", "setCfg"} => call[w].host = cfgHost
       /\ pc[w] = "ecProbe" => seen[w] = sftpClient
       /\ pc[w] = "readHandle" => conns[sshClient].host = cfgHost
       /\ Using(w) => conns[handle[w]].host = cfgHost

(* What a call carries belongs to the configured host from when it is read. *)
ArgsInv ==
    \A w \in Workers :
       /\ call[w].op = "exec" => call[w].mgr = cfgHost
       /\ call[w].op = "run" /\ call[w].given => call[w].cwd \in Own
       /\ call[w].op = "run" /\ ~call[w].first /\ pc[w] # "readCwd" =>
             /\ call[w].cwd \in Own
             /\ ~call[w].given => call[w].cwd = cwd
             /\ pc[w] # "readSudo" => call[w].sudo = cfgHost

SoloInv == UpInv /\ FieldsInv /\ StageInv /\ ArgsInv

(* A directory of the configured host is a set one.                        *)
LEMMA OwnDirs ==
    /\ \A d \in Own : d \notin {Unset, Torn, Raced} /\ d.host = cfgHost /\ d.dir \in Dirs
    /\ \A d \in Dirs : [host |-> cfgHost, dir |-> d] \in Own
<1>1. \A d \in Own : d.host = cfgHost /\ d.dir \in Dirs
  BY DEF Own
<1>2. \A d \in Own : d \notin {Unset, Torn, Raced}
  <2>1. Unset.dir \notin Dirs /\ Torn.dir \notin Dirs /\ Raced.dir \notin Dirs
    BY DEF Dirs, Unset, Torn, Raced
  <2> QED
    BY <1>1, <2>1
<1>3. \A d \in Dirs : [host |-> cfgHost, dir |-> d] \in Own
  BY DEF Own
<1> QED
  BY <1>1, <1>2, <1>3

(* Connections that only lose their state, or their SFTP channel, take
   nothing away from a caller.                                             *)
LEMMA LossSolo ==
    ASSUME SoloInv,
           \A c \in Conns : conns'[c].host = conns[c].host,
           \A c \in Conns : conns'[c].state = "up" => conns[c].state = "up",
           \A w \in Workers : pc[w] = "readHandle" => sshClient \in Conns,
           \A w \in Workers : Using(w) => handle[w] \in Conns,
           UNCHANGED <<shared, pc, call, seen, handle>>
    PROVE  SoloInv'
<1> USE DEF SoloInv, shared
<1>1. UpInv' /\ (NoneUp => NoneUp')
  BY DEF UpInv, NoneUp
<1>2. FieldsInv'
  BY <1>1 DEF FieldsInv, Own, NoneUp
<1>3. StageInv'
  BY DEF StageInv, Using
<1>4. ArgsInv'
  BY DEF ArgsInv, Own
<1> QED
  BY <1>1, <1>2, <1>3, <1>4

(* The handles of a call are connections.                                  *)
LEMMA HandleConns ==
    ASSUME IInv, NEW w \in Workers
    PROVE  /\ pc[w] \in Connected => sshClient \in Conns /\ sftpClient \in Conns
           /\ pc[w] = "install" => sshClient \in Conns
           /\ Using(w) => handle[w] \in Conns
           /\ pc[w] = "ecProbe" => seen[w] \in Conns
<1>1. /\ sshClient \in 0 .. MaxConns /\ sftpClient \in 0 .. MaxConns
      /\ seen[w] \in 0 .. MaxConns /\ handle[w] \in 0 .. MaxConns /\ MaxConns \in Nat
  BY ClientAssumption DEF IInv, TypeOK
<1>2. /\ sftpClient <= sshClient
      /\ pc[w] = "install" => sshClient # 0
      /\ pc[w] # "install" => seen[w] <= sftpClient
      /\ pc[w] \in Connected => seen[w] # 0
      /\ Using(w) => handle[w] # 0
  BY DEF IInv, SlotInv
<1>3. pc[w] \in Connected => pc[w] # "install"
  BY DEF Connected
<1>4. pc[w] = "ecProbe" => pc[w] \in Connected
  BY DEF Connected
<1> QED
  BY <1>1, <1>2, <1>3, <1>4 DEF Conns

(* Alone, the SFTP client lags only while this call is inside Connect, and
   nobody writes the directory at the same time.                           *)
LEMMA AloneFacts ==
    ASSUME Solo, IInv, NEW w \in Workers
    PROVE  /\ pc[w] # "install" => sftpClient = sshClient
           /\ CwdWindow <=> pc[w] \in {"setMgr", "home"}
  BY DEF Solo, IInv, SlotInv, PairConsistent, CwdWindow

(* A call that returns leaves the fields to the next one.                  *)
LEMMA ReturnSolo ==
    ASSUME Solo, IInv, SoloInv, NEW w \in Workers, Return(w),
           UNCHANGED <<cfgHost, mgr, sudo, sshClient, conns>>,
           pc[w] \notin {"setMgr", "setSudo"},
           cwd' \in Own \cup {cwd},
           pc[w] \in {"install", "home"} => cwd' # Unset
    PROVE  SoloInv'
<1> USE DEF SoloInv
<1>1. /\ \A v \in Workers : pc'[v] = "idle" /\ call'[v] = NoCall
      /\ NoCall.op = "none"
  BY DEF Return, Goto, Solo, IInv, TypeOK, NoCall
<1>2. UpInv' /\ (NoneUp => NoneUp')
  BY DEF UpInv, NoneUp
<1>3. Own' = Own
  BY DEF Own
<1>4. FieldsInv'
  <2>1. /\ cwd \notin {Torn, Raced} /\ mgr = cfgHost /\ sudo = cfgHost
        /\ cwd \in Own \cup {Unset}
        /\ NoneUp \/ cwd # Unset \/ pc[w] \in {"install", "home"}
    BY DEF FieldsInv
  <2>2. cwd' \notin {Torn, Raced} /\ cwd' \in Own \cup {Unset} /\ (cwd # Unset => cwd' # Unset)
    BY <2>1, OwnDirs
  <2> QED
    BY <1>1, <1>2, <1>3, <2>1, <2>2 DEF FieldsInv
<1>5. StageInv' /\ ArgsInv'
  BY <1>1 DEF StageInv, ArgsInv, Using
<1> QED
  BY <1>2, <1>4, <1>5

(* A call that finds itself connected goes on, on the configured host.     *)
LEMMA ResumeSolo ==
    ASSUME Solo, IInv, SoloInv, NEW w \in Workers, Resume(w),
           UNCHANGED <<cfgHost, mgr, sudo, sshClient, conns>>,
           pc[w] \in {"install", "home", "ecProbe"},
           conns[sshClient].host = cfgHost,
           cwd' \in Own, cwd # Unset => cwd' = cwd
    PROVE  SoloInv'
<1> USE DEF SoloInv
<1>1. cwd' # Unset
  BY OwnDirs
<1>2. CASE call[w].op = "connect"
  BY <1>1, <1>2, ReturnSolo DEF Resume
<1>3. CASE call[w].op # "connect"
  <2>1. /\ \A v \in Workers : v = w
        /\ pc'[w] = ResumeAt(call[w])
        /\ call'[w].op = call[w].op /\ call'[w].host = call[w].host
        /\ call'[w].mgr = call[w].mgr /\ call'[w].cwd = call[w].cwd
        /\ call'[w].given = call[w].given /\ call'[w].sudo = call[w].sudo
        /\ call'[w].first = FALSE
    <3>1. /\ call[w] \in Calls /\ call'[w] = [call[w] EXCEPT !.first = FALSE]
          /\ \A v \in Workers : v = w
          /\ pc'[w] = ResumeAt(call[w])
      BY <1>3 DEF Resume, Goto, IInv, TypeOK, Solo
    <3> QED
      BY <3>1 DEF Calls
  <2>2. /\ pc'[w] \in {"readSudo", "readCwd", "ecCfg", "readHandle"}
        /\ pc'[w] \in {"readCwd", "readSudo"} => call[w].op = "run" /\ call[w].first
        /\ pc'[w] = "readSudo" => call[w].given
        /\ call[w].op = "run" /\ call[w].first /\ ~call[w].given => pc'[w] = "readCwd"
        /\ call[w].op = "run" /\ call[w].first => pc'[w] \in {"readCwd", "readSudo"}
    <3>1. pc'[w] = ResumeAt(call[w]) /\ call[w].first \in BOOLEAN /\ call[w].given \in BOOLEAN
      BY <2>1 DEF IInv, TypeOK, Calls
    <3> QED
      BY <1>3, <3>1 DEF ResumeAt
  <2>3. UpInv' /\ (NoneUp => NoneUp') /\ Own' = Own
    BY DEF UpInv, NoneUp, Own
  <2>4. FieldsInv'
    BY <1>1, <2>1, <2>2, <2>3, OwnDirs DEF FieldsInv
  <2>5. StageInv'
    BY <2>1, <2>2 DEF StageInv, Using
  <2>6. ArgsInv'
    <3>1. call[w].op = "run" /\ ~call[w].first => cwd # Unset \/ call[w].given
      BY OwnDirs DEF ArgsInv
    <3> QED
      BY <2>1, <2>2, <2>3, <3>1 DEF ArgsInv
  <2> QED
    BY <2>3, <2>4, <2>5, <2>6
<1> QED
  BY <1>2, <1>3

-----------------------------------------------------------------------------
(* The call that begins belongs to the configured host.                    *)
LEMMA StartSolo ==
    ASSUME Solo, IInv, SoloInv, NEW w \in Workers, pc[w] = "idle",
           RunCommand(w) \/ ExecRaw(w) \/ FileOp(w) \/ Forward(w)
    PROVE  SoloInv'
<1> USE DEF SoloInv
<1>1. /\ \A v \in Workers : v = w
      /\ cwd \in Own \cup {Unset} /\ mgr = cfgHost /\ cwd # Raced
      /\ GetCwd = {cwd}
  BY AloneFacts DEF FieldsInv, GetCwd, Solo
<1>2. /\ pc' = [pc EXCEPT ![w] = "ecCfg"]
      /\ UNCHANGED <<shared, conns, seen, handle>>
  BY DEF RunCommand, ExecRaw, FileOp, Forward, Goto
<1>3. /\ call'[w].host = cfgHost
      /\ \/ call'[w].op \in {"file", "forward"}
         \/ call'[w].op = "exec" /\ call'[w].mgr = cfgHost
         \/ call'[w].op = "run" /\ call'[w].first = TRUE
              /\ (call'[w].given => call'[w].cwd \in Own)
  <2>1. \A c : call' = [call EXCEPT ![w] = c] => call'[w] = c
    BY DEF IInv, TypeOK
  <2>2. CASE FileOp(w)
    <3>1. call'[w] = [NoCall EXCEPT !.op = "file", !.host = cfgHost]
      BY <2>1, <2>2 DEF FileOp
    <3> QED
      BY <3>1 DEF NoCall
  <2>3. CASE Forward(w)
    <3>1. call'[w] = [NoCall EXCEPT !.op = "forward", !.host = cfgHost]
      BY <2>1, <2>3 DEF Forward
    <3> QED
      BY <3>1 DEF NoCall
  <2>4. CASE ExecRaw(w)
    <3>1. call'[w] = [NoCall EXCEPT !.op = "exec", !.host = cfgHost, !.first = TRUE,
                                    !.mgr = mgr]
      BY <2>1, <2>4 DEF ExecRaw
    <3> QED
      BY <1>1, <3>1 DEF NoCall
  <2>5. CASE RunCommand(w)
    <3>1. PICK d \in {"", "work"}, o \in BOOLEAN, g \in GivenCwds :
             call' = [call EXCEPT ![w] = [NoCall EXCEPT !.op = "run", !.host = cfgHost,
                                          !.first = TRUE, !.cd = d, !.once = o,
                                          !.given = (g # Unset), !.cwd = g]]
      BY <2>5 DEF RunCommand
    <3>2. g # Unset => g \in Own
      BY <1>1, OwnDirs DEF GivenCwds, Dirs
    <3>3. /\ call'[w].host = cfgHost /\ call'[w].op = "run" /\ call'[w].first = TRUE
          /\ call'[w].given = (g # Unset) /\ call'[w].cwd = g
      <4>1. call'[w] = [NoCall EXCEPT !.op = "run", !.host = cfgHost, !.first = TRUE,
                                      !.cd = d, !.once = o, !.given = (g # Unset),
                                      !.cwd = g]
        BY <2>1, <3>1
      <4> QED
        BY <4>1 DEF NoCall
    <3> QED
      BY <3>2, <3>3
  <2> QED
    BY <2>2, <2>3, <2>4, <2>5
<1>4. pc'[w] = "ecCfg"
  BY <1>2 DEF IInv, TypeOK
<1>5. UpInv' /\ (NoneUp => NoneUp') /\ Own' = Own
  BY <1>2 DEF UpInv, NoneUp, Own, shared
<1>6. FieldsInv'
  BY <1>1, <1>2, <1>4, <1>5 DEF FieldsInv, shared
<1>7. StageInv'
  BY <1>1, <1>2, <1>3, <1>4 DEF StageInv, Using, shared
<1>8. ArgsInv'
  BY <1>1, <1>2, <1>3, <1>4, <1>5 DEF ArgsInv, shared
<1> QED
  BY <1>5, <1>6, <1>7, <1>8

(* ConnectTo closes what works before the configuration changes, and the
   manager, the directory and the password follow it.                      *)
LEMMA SwitchSolo ==
    ASSUME Solo, IInv, SoloInv, NEW w \in Workers,
           ConnectTo(w) \/ SetCfg(w) \/ SetMgr(w) \/ SetSudo(w)
    PROVE  SoloInv'
<1> USE DEF SoloInv
<1>1. \A v \in Workers : v = w
  BY DEF Solo
<1>2. /\ pc'[w] \in {"setCfg", "setMgr", "setSudo", "lock"} /\ call'[w].op = "connect"
      /\ UNCHANGED <<sshClient, sftpClient, handle>>
  <2>1. CASE ConnectTo(w)
    <3>1. PICK h \in Hosts :
             call' = [call EXCEPT ![w] = [NoCall EXCEPT !.op = "connect", !.host = h]]
      BY <2>1 DEF ConnectTo
    <3>2. call'[w].op = "connect"
      BY <3>1 DEF IInv, TypeOK, NoCall
    <3> QED
      BY <2>1, <3>2 DEF ConnectTo, Goto, shared, IInv, TypeOK
  <2>2. CASE SetCfg(w) \/ SetMgr(w) \/ SetSudo(w)
    BY <2>2 DEF SetCfg, SetMgr, SetSudo, Goto, IInv, TypeOK, StageInv
  <2> QED
    BY <2>1, <2>2
<1>3. NoneUp'
  <2>1. CASE ConnectTo(w)
    <3>1. sshClient \in {sshClient, sftpClient} /\ conns' = Closed({sshClient, sftpClient})
      BY <2>1 DEF ConnectTo
    <3>2. ASSUME NEW c \in Conns PROVE conns'[c].state # "up"
      <4>1. CASE conns[c].state = "up"
        <5>1. conns'[c] = [conns[c] EXCEPT !.state = "dead"]
          BY <3>1, <4>1 DEF UpInv, Closed, Live
        <5>2. conns[c] \in [host : AnyHost, state : {"unused", "up", "nosftp", "dead"}]
          BY DEF IInv, TypeOK
        <5> QED
          BY <5>1, <5>2
      <4>2. CASE conns[c].state # "up"
        <5>1. \/ conns'[c] = [conns[c] EXCEPT !.state = "dead"]
              \/ conns'[c] = conns[c]
          BY <3>1 DEF Closed
        <5>2. conns[c] \in [host : AnyHost, state : {"unused", "up", "nosftp", "dead"}]
          BY DEF IInv, TypeOK
        <5> QED
          BY <4>2, <5>1, <5>2
      <4> QED
        BY <4>1, <4>2
    <3> QED
      BY <3>2 DEF NoneUp
  <2>2. CASE SetCfg(w) \/ SetMgr(w) \/ SetSudo(w)
    BY <2>2 DEF SetCfg, SetMgr, SetSudo, FieldsInv, NoneUp
  <2> QED
    BY <2>1, <2>2
<1>4. pc'[w] # "setCfg" => call'[w].host = cfgHost'
  BY DEF ConnectTo, SetCfg, SetMgr, SetSudo, Goto, IInv, TypeOK, StageInv
<1>5. FieldsInv'
  <2>1. CASE ConnectTo(w)
    BY <1>1, <1>3, <2>1 DEF ConnectTo, Goto, shared, IInv, TypeOK, FieldsInv, Own
  <2>2. CASE SetCfg(w)
    BY <1>1, <1>3, <2>2 DEF SetCfg, Goto, IInv, TypeOK, FieldsInv
  <2>3. CASE SetMgr(w)
    <3>1. /\ cwd' = Unset /\ mgr' = cfgHost' /\ pc'[w] = "setSudo"
      BY <2>3 DEF SetMgr, Goto, IInv, TypeOK, FieldsInv
    <3>2. Unset \notin {Torn, Raced}
      BY DEF Unset, Torn, Raced
    <3> QED
      BY <1>1, <1>3, <3>1, <3>2 DEF FieldsInv
  <2>4. CASE SetSudo(w)
    BY <1>1, <1>3, <2>4 DEF SetSudo, Goto, IInv, TypeOK, FieldsInv, StageInv, Own
  <2> QED
    BY <2>1, <2>2, <2>3, <2>4
<1>6. UpInv' /\ StageInv' /\ ArgsInv'
  BY <1>1, <1>2, <1>3, <1>4 DEF UpInv, NoneUp, StageInv, ArgsInv, Using
<1> QED
  BY <1>5, <1>6

(* EnsureConnected and Connect: a connection is replaced only when it does
   not work, and none is used that does not lead to the configured host.   *)
LEMMA ConnectSolo ==
    ASSUME Solo, IInv, SoloInv, NEW w \in Workers, EnsureConnected(w) \/ Connect(w)
    PROVE  SoloInv'
<1> USE DEF SoloInv
<1>1. /\ \A v \in Workers : v = w
      /\ pc[w] # "install" => sftpClient = sshClient
      /\ pc \in [Workers -> Pcs] /\ seen \in [Workers -> 0 .. MaxConns]
  BY AloneFacts DEF Solo, IInv, TypeOK
<1>2. CASE DialFails(w) \/ EcNoHost(w)
  BY <1>2, ReturnSolo DEF DialFails, EcNoHost, shared
<1>3. CASE Lock(w) \/ EcCfg(w) \/ EcSftp(w) \/ EcProbeFails(w)
  <2>1. UNCHANGED <<shared, conns, call, handle>>
    BY <1>3 DEF Lock, EcCfg, EcSftp, EcProbeFails
  <2>2. /\ pc[w] \in {"lock", "ecCfg", "ecSftp", "ecProbe"}
        /\ pc'[w] \in {"lock", "dial", "ecSftp", "ecProbe"}
        /\ pc'[w] = "ecProbe" => seen'[w] = sftpClient
    BY <1>1, <1>3 DEF Lock, EcCfg, EcSftp, EcProbeFails, Goto
  <2>3. pc'[w] \in {"lock", "dial"} => NoneUp
    <3>1. CASE Lock(w)
      BY <3>1 DEF Lock, FieldsInv
    <3>2. CASE EcCfg(w) \/ EcSftp(w)
      <4>1. ASSUME pc'[w] \in {"lock", "dial"} PROVE sshClient = 0
        BY <1>1, <3>2, <4>1 DEF EcCfg, EcSftp, Goto
      <4> QED
        BY <4>1 DEF UpInv, NoneUp, Conns
    <3>3. CASE EcProbeFails(w)
      BY <1>1, <3>3 DEF EcProbeFails, UpInv, NoneUp, StageInv
    <3> QED
      BY <1>3, <3>1, <3>2, <3>3
  <2>4. UpInv' /\ NoneUp' = NoneUp /\ Own' = Own
    BY <2>1 DEF UpInv, NoneUp, Own, shared
  <2>5. FieldsInv'
    BY <1>1, <2>1, <2>2, <2>3, <2>4 DEF FieldsInv, shared
  <2>6. StageInv'
    BY <1>1, <2>1, <2>2 DEF StageInv, Using, shared
  <2>7. ArgsInv'
    BY <1>1, <2>1, <2>2, <2>4 DEF ArgsInv, shared
  <2> QED
    BY <2>4, <2>5, <2>6, <2>7
<1>4. CASE EcProbeOk(w)
  <2>1. /\ pc[w] = "ecProbe" /\ conns[seen[w]].state = "up" /\ Resume(w)
        /\ UNCHANGED <<shared, conns>>
    BY <1>4 DEF EcProbeOk
  <2>2. seen[w] = sshClient /\ sshClient \in Conns
    BY <1>1, <2>1, HandleConns DEF StageInv
  <2>3. conns[sshClient].host = cfgHost /\ cwd # Unset /\ cwd \in Own \cup {Unset}
    BY <2>1, <2>2 DEF UpInv, FieldsInv, NoneUp
  <2> QED
    BY <2>1, <2>3, ResumeSolo DEF shared
<1>5. CASE Dial(w)
  <2>1. /\ pc[w] = "dial" /\ pc'[w] = "install" /\ sshClient' = dialed + 1
        /\ dialed + 1 \in Conns
        /\ conns' = [conns EXCEPT ![dialed + 1] = [host |-> cfgHost, state |-> "up"]]
        /\ UNCHANGED <<cfgHost, cwd, sudo, mgr, sftpClient, call, handle>>
    BY <1>1, <1>5, ClientAssumption DEF Dial, Goto, IInv, TypeOK, Conns
  <2>2. UpInv'
    BY <2>1 DEF UpInv, FieldsInv, NoneUp, IInv, TypeOK
  <2>3. FieldsInv'
    BY <1>1, <2>1 DEF FieldsInv, Own
  <2>4. StageInv'
    BY <1>1, <2>1 DEF StageInv, Using
  <2>5. ArgsInv'
    BY <1>1, <2>1 DEF ArgsInv, Own
  <2> QED
    BY <2>2, <2>3, <2>4, <2>5
<1>6. CASE InstallKeepCwd(w)
  <2>1. /\ pc[w] = "install" /\ cwd # Unset /\ Resume(w)
        /\ UNCHANGED <<cfgHost, cwd, sudo, mgr, sshClient, conns>>
    BY <1>6 DEF InstallKeepCwd
  <2>2. conns[sshClient].host = cfgHost /\ cwd \in Own
    BY <2>1 DEF IInv, SlotInv, InstallsConfiguredHost, FieldsInv
  <2> QED
    BY <2>1, <2>2, ResumeSolo
<1>7. CASE InstallNoCwd(w)
  <2>1. /\ pc[w] = "install" /\ pc'[w] = "home" /\ cwd = Unset
        /\ UNCHANGED <<cfgHost, cwd, sudo, mgr, sshClient, conns, call, seen, handle>>
    BY <1>1, <1>7 DEF InstallNoCwd, Goto
  <2>2. UpInv' /\ Own' = Own
    BY <2>1 DEF UpInv, Own
  <2>3. FieldsInv'
    BY <1>1, <2>1, <2>2 DEF FieldsInv
  <2>4. StageInv'
    BY <1>1, <2>1 DEF StageInv, Using
  <2>5. ArgsInv'
    BY <1>1, <2>1, <2>2 DEF ArgsInv
  <2> QED
    BY <2>2, <2>3, <2>4, <2>5
<1>8. CASE SetHome(w)
  <2>1. /\ pc[w] = "home" /\ Resume(w) /\ cwd = Unset /\ cwd # Raced
        /\ UNCHANGED <<cfgHost, sudo, mgr, sshClient, conns>>
    BY <1>8 DEF SetHome, FieldsInv
  <2>2. conns[sshClient].host = cfgHost /\ sftpClient = sshClient
    BY <1>1, <2>1 DEF IInv, SlotInv, InstallsConfiguredHost
  <2>3. \E d \in {"home", "root"} : cwd' = [host |-> cfgHost, dir |-> d]
    BY <1>8, <2>1, <2>2 DEF SetHome
  <2>4. cwd' \in Own
    BY <2>3, OwnDirs DEF Dirs
  <2> QED
    BY <2>1, <2>2, <2>4, ResumeSolo
<1> QED
  BY <1>2, <1>3, <1>4, <1>5, <1>6, <1>7, <1>8 DEF EnsureConnected, Connect

(* A command that is given no directory starts in the persistent one, which
   belongs to the host that it runs on, or in / when that is gone.         *)
LEMMA StartsInOwnDir ==
    ASSUME IInv, SoloInv, NEW w \in Workers, pc[w] = "running", call[w].op = "run"
    PROVE  /\ call[w].cwd \in Own
           /\ StartDirs(w) = {call[w].cwd.dir, "root"}
           /\ ~call[w].given => call[w].cwd = cwd
<1>1. call[w].first \in BOOLEAN /\ ~call[w].first
  BY DEF SoloInv, StageInv, Using, IInv, TypeOK, Calls
<1>2. call[w].cwd \in Own /\ (~call[w].given => call[w].cwd = cwd)
  BY <1>1 DEF SoloInv, ArgsInv
<1>3. call[w].cwd.host = conns[handle[w]].host /\ call[w].cwd # Unset
  BY <1>2, OwnDirs DEF SoloInv, StageInv, Using
<1> QED
  BY <1>2, <1>3 DEF StartDirs

LEMMA FinishSolo ==
    ASSUME Solo, IInv, SoloInv, NEW w \in Workers, FinishRun(w)
    PROVE  /\ cwd' \in Own
           /\ cwd' # cwd => EndsElsewhere(w)
<1>1. /\ pc[w] = "running" /\ call[w].op = "run" /\ ~CwdWindow
      /\ conns[handle[w]].host = cfgHost /\ pc'[w] = "idle"
  BY AloneFacts DEF FinishRun, SoloInv, StageInv, Using, Return, Goto, IInv, TypeOK
<1>2. /\ call[w].cwd \in Own /\ StartDirs(w) = {call[w].cwd.dir, "root"}
      /\ ~call[w].given => call[w].cwd = cwd
  BY <1>1, StartsInOwnDir
<1>3. PICK d \in {call[w].cwd.dir, "root"} :
        cwd' = [host |-> cfgHost, dir |-> IF call[w].cd = "" THEN d ELSE call[w].cd]
  BY <1>1, <1>2 DEF FinishRun
<1>4. call[w].cd \in Dirs \cup {""}
  BY DEF IInv, TypeOK, Calls
<1>5. cwd' \in Own
  BY <1>2, <1>3, <1>4, OwnDirs DEF Dirs
<1>6. CASE call[w].cd # "" \/ call[w].given
  BY <1>1, <1>5, <1>6 DEF EndsElsewhere
<1>7. CASE call[w].cd = "" /\ ~call[w].given
  <2>1. d = "root" => EndsElsewhere(w)
    BY <1>1, <1>3, <1>7 DEF EndsElsewhere
  <2>2. d = cwd.dir => cwd' = cwd
    BY <1>2, <1>3, <1>7 DEF Own
  <2> QED
    BY <1>2, <1>3, <1>5, <1>7, <2>1, <2>2
<1> QED
  BY <1>5, <1>6, <1>7

(* From the handle to the end of the call.                                 *)
LEMMA UseSolo ==
    ASSUME Solo, IInv, SoloInv, NEW w \in Workers,
           \/ ReadCwd(w) \/ ReadSudo(w) \/ ReadHandle(w) \/ SessionFails(w)
           \/ Session(w) \/ FinishRun(w) \/ FinishNoCwd(w)
    PROVE  SoloInv'
<1> USE DEF SoloInv
<1>1. /\ \A v \in Workers : v = w
      /\ pc[w] # "install" => sftpClient = sshClient
      /\ pc \in [Workers -> Pcs] /\ handle \in [Workers -> 0 .. MaxConns]
      /\ call \in [Workers -> Calls]
  BY AloneFacts DEF Solo, IInv, TypeOK
<1>2. CASE SessionFails(w) \/ FinishNoCwd(w)
  BY <1>2, ReturnSolo DEF SessionFails, FinishNoCwd, shared
<1>3. CASE FinishRun(w)
  <2>1. /\ pc[w] = "running" /\ Return(w)
        /\ UNCHANGED <<cfgHost, mgr, sudo, sshClient, conns>>
    BY <1>3 DEF FinishRun
  <2>2. cwd' \in Own
    BY <1>3, FinishSolo
  <2> QED
    BY <2>1, <2>2, ReturnSolo
<1>4. CASE Session(w)
  <2>1. /\ pc[w] = "session" /\ pc'[w] = "running"
        /\ UNCHANGED <<shared, conns, call, seen, handle>>
    BY <1>1, <1>4 DEF Session, Goto
  <2>2. UpInv' /\ NoneUp' = NoneUp /\ Own' = Own
    BY <2>1 DEF UpInv, NoneUp, Own, shared
  <2>3. FieldsInv'
    BY <1>1, <2>1, <2>2 DEF FieldsInv, shared
  <2>4. StageInv'
    BY <1>1, <2>1 DEF StageInv, Using, shared
  <2>5. ArgsInv'
    BY <1>1, <2>1, <2>2 DEF ArgsInv, shared
  <2> QED
    BY <2>2, <2>3, <2>4, <2>5
<1>5. CASE ReadHandle(w)
  <2>1. /\ pc[w] = "readHandle" /\ pc'[w] = "session" /\ handle'[w] = sshClient
        /\ UNCHANGED <<shared, conns, call, seen>>
    BY <1>1, <1>5 DEF ReadHandle, Goto
  <2>2. UpInv' /\ NoneUp' = NoneUp /\ Own' = Own
    BY <2>1 DEF UpInv, NoneUp, Own, shared
  <2>3. FieldsInv'
    BY <1>1, <2>1, <2>2 DEF FieldsInv, shared
  <2>4. StageInv'
    BY <1>1, <2>1 DEF StageInv, Using, shared
  <2>5. ArgsInv'
    BY <1>1, <2>1, <2>2 DEF ArgsInv, shared
  <2> QED
    BY <2>2, <2>3, <2>4, <2>5
<1>6. CASE ReadCwd(w)
  <2>1. /\ pc[w] = "readCwd" /\ pc'[w] = "readSudo"
        /\ UNCHANGED <<shared, conns, seen, handle>>
    BY <1>1, <1>6 DEF ReadCwd, Goto
  <2>2. /\ call'[w].op = call[w].op /\ call'[w].host = call[w].host
        /\ call'[w].first = call[w].first /\ call'[w].given = call[w].given
        /\ call'[w].mgr = call[w].mgr /\ call'[w].cwd = cwd
    <3>1. GetCwd = {cwd}
      BY <2>1, AloneFacts DEF GetCwd, FieldsInv
    <3>2. call'[w] = [call[w] EXCEPT !.cwd = cwd]
      BY <1>1, <1>6, <3>1 DEF ReadCwd
    <3>3. call[w] \in Calls
      BY <1>1
    <3> QED
      BY <3>2, <3>3 DEF Calls
  <2>3. UpInv' /\ NoneUp' = NoneUp /\ Own' = Own
    BY <2>1 DEF UpInv, NoneUp, Own, shared
  <2>4. cwd \in Own
    BY <2>1 DEF FieldsInv
  <2>5. FieldsInv'
    BY <1>1, <2>1, <2>3 DEF FieldsInv, shared
  <2>6. StageInv'
    BY <1>1, <2>1, <2>2 DEF StageInv, Using, shared
  <2>7. ArgsInv'
    BY <1>1, <2>1, <2>2, <2>3, <2>4 DEF ArgsInv, StageInv, shared
  <2> QED
    BY <2>3, <2>5, <2>6, <2>7
<1>7. CASE ReadSudo(w)
  <2>1. /\ pc[w] = "readSudo" /\ pc'[w] = "ecCfg"
        /\ UNCHANGED <<cfgHost, cwd, mgr, sshClient, sftpClient, conns, seen, handle>>
    BY <1>1, <1>7 DEF ReadSudo, Goto
  <2>2. sudo' = cfgHost
    BY <1>7, <2>1 DEF ReadSudo, FieldsInv, StageInv
  <2>3. /\ call'[w].op = call[w].op /\ call'[w].host = call[w].host
        /\ call'[w].first = call[w].first /\ call'[w].given = call[w].given
        /\ call'[w].mgr = call[w].mgr /\ call'[w].cwd = call[w].cwd
        /\ call'[w].sudo = cfgHost
    <3>1. call'[w] = [call[w] EXCEPT !.sudo = sudo'] /\ call[w] \in Calls
      BY <1>1, <1>7 DEF ReadSudo
    <3> QED
      BY <2>2, <3>1 DEF Calls
  <2>4. UpInv' /\ NoneUp' = NoneUp /\ Own' = Own
    BY <2>1 DEF UpInv, NoneUp, Own
  <2>5. FieldsInv'
    BY <1>1, <2>1, <2>2, <2>4 DEF FieldsInv
  <2>6. StageInv'
    BY <1>1, <2>1, <2>3 DEF StageInv, Using
  <2>7. ArgsInv'
    BY <1>1, <2>1, <2>3, <2>4 DEF ArgsInv, StageInv
  <2> QED
    BY <2>4, <2>5, <2>6, <2>7
<1> QED
  BY <1>2, <1>3, <1>4, <1>5, <1>6, <1>7

-----------------------------------------------------------------------------
(* Alone, every reachable state satisfies SoloInv: the initial states.      *)
LEMMA InitUp == Init => UpInv /\ (sshClient = 0 => NoneUp) /\ sshClient \in {0, 1}
<1> SUFFICES ASSUME Init PROVE UpInv /\ (sshClient = 0 => NoneUp) /\ sshClient \in {0, 1}
  OBVIOUS
<1>1. (dialed = 0 \/ dialed = 1) /\ sshClient = dialed
  BY InitDialed
<1>2. \A c \in Conns : conns[c].state = "up" => c <= dialed /\ conns[c].host = cfgHost
  <2>1. \A c \in Conns : conns[c] = IF c <= dialed THEN [host |-> cfgHost, state |-> "up"]
                                    ELSE [host |-> NoHost, state |-> "unused"]
    BY DEF Init
  <2> QED
    BY <2>1
<1>3. ASSUME NEW c \in Conns, c <= dialed PROVE c = dialed /\ dialed # 0
  <2>1. c \in Nat /\ c >= 1
    BY ClientAssumption DEF Conns
  <2> QED
    BY <1>1, <1>3, <2>1
<1> QED
  BY <1>1, <1>2, <1>3 DEF UpInv, NoneUp

LEMMA InitCwd == Init => cwd \in Own \cup {Unset} /\ (sshClient # 0 => cwd \in Own)
<1> SUFFICES ASSUME Init PROVE cwd \in Own \cup {Unset} /\ (sshClient # 0 => cwd \in Own)
  OBVIOUS
<1>1. \/ cwd = [host |-> cfgHost, dir |-> "work"]
      \/ cwd = [host |-> cfgHost, dir |-> "home"]
      \/ cwd = Unset /\ sshClient = 0
  BY DEF Init
<1>2. \A d \in {"work", "home"} : [host |-> cfgHost, dir |-> d] \in Own
  BY OwnDirs DEF Dirs
<1> QED
  BY <1>1, <1>2

LEMMA InitSolo == Init => SoloInv
<1> SUFFICES ASSUME Init PROVE SoloInv
  OBVIOUS
<1>1. /\ mgr = cfgHost /\ sudo = cfgHost
      /\ pc = [w \in Workers |-> "idle"] /\ call = [w \in Workers |-> NoCall]
      /\ NoCall.op = "none"
  BY DEF Init, NoCall
<1>2. FieldsInv
  <2>1. Unset \notin {Torn, Raced}
    BY DEF Unset, Torn, Raced
  <2>2. /\ cwd \in Own \cup {Unset} /\ cwd \notin {Torn, Raced}
        /\ NoneUp \/ cwd # Unset
    BY <2>1, InitUp, InitCwd, OwnDirs
  <2> QED
    BY <1>1, <2>2 DEF FieldsInv
<1>3. StageInv /\ ArgsInv
  BY <1>1 DEF StageInv, ArgsInv, Using
<1> QED
  BY <1>2, <1>3, InitUp DEF SoloInv

(* Every step.                                                             *)
LEMMA NextSolo == Solo /\ IInv /\ SoloInv /\ [Next]_vars => SoloInv'
<1> SUFFICES ASSUME Solo, IInv, SoloInv, [Next]_vars PROVE SoloInv'
  OBVIOUS
<1>1. ASSUME NEW w \in Workers, SetSudoTool(w) PROVE SoloInv'
  <2>1. /\ pc[w] = "idle" /\ sudo' = cfgHost
        /\ UNCHANGED <<cfgHost, cwd, mgr, sshClient, sftpClient, conns, pc, call, seen, handle>>
    BY <1>1 DEF SetSudoTool
  <2>2. UpInv' /\ NoneUp' = NoneUp /\ Own' = Own
    BY <2>1 DEF SoloInv, UpInv, NoneUp, Own
  <2>3. FieldsInv'
    BY <2>1, <2>2 DEF SoloInv, FieldsInv
  <2>4. StageInv' /\ ArgsInv'
    BY <2>1, <2>2 DEF SoloInv, StageInv, ArgsInv, Using
  <2> QED
    BY <2>2, <2>3, <2>4 DEF SoloInv
<1>2. ASSUME \/ \E w \in Workers : Disconnect(w)
             \/ \E c \in Conns : DropConn(c) \/ SftpEnds(c)
      PROVE  SoloInv'
  <2>1. UNCHANGED <<shared, pc, call, seen, handle>>
    BY <1>2 DEF Disconnect, DropConn, SftpEnds
  <2>2. /\ \A c \in Conns : conns'[c].host = conns[c].host
        /\ \A c \in Conns : conns'[c].state = "up" => conns[c].state = "up"
    <3>1. conns \in [Conns -> [host : AnyHost, state : {"unused", "up", "nosftp", "dead"}]]
      BY DEF IInv, TypeOK
    <3>2. ASSUME NEW c \in Conns
          PROVE  \/ conns'[c] = conns[c]
                 \/ \E s \in {"dead", "nosftp"} : conns'[c] = [conns[c] EXCEPT !.state = s]
      BY <1>2, <3>1 DEF Disconnect, Closed, DropConn, SftpEnds
    <3> QED
      BY <3>1, <3>2
  <2>3. \A w \in Workers : /\ pc[w] = "readHandle" => sshClient \in Conns
                           /\ Using(w) => handle[w] \in Conns
    BY HandleConns DEF Connected
  <2> QED
    BY <2>1, <2>2, <2>3, LossSolo
<1>3. CASE UNCHANGED vars
  BY <1>3 DEF vars, shared, SoloInv, UpInv, FieldsInv, NoneUp, StageInv, ArgsInv, Using, Own
<1>4. ASSUME NEW w \in Workers,
             RunCommand(w) \/ ExecRaw(w) \/ FileOp(w) \/ Forward(w)
      PROVE  SoloInv'
  <2>1. pc[w] = "idle"
    BY <1>4 DEF RunCommand, ExecRaw, FileOp, Forward
  <2> QED
    BY <1>4, <2>1, StartSolo
<1> QED
  BY <1>1, <1>2, <1>3, <1>4, SwitchSolo, ConnectSolo, UseSolo DEF Next, Start, Advance,
      Environment

LEMMA SoloInvariance == ASSUME Solo PROVE Spec => [](IInv /\ SoloInv)
  BY InitIInv, NextIInv, InitSolo, NextSolo, PTL DEF Spec

(* Of one caller at a time: whatever is lost and reconnected between its
   steps, a command, file operation or forwarded connection runs on the host
   that was configured when it was called.                                 *)
THEOREM RunsAtHome == ASSUME Solo PROVE Spec => []RunsOnItsHost
<1>1. SoloInv => RunsOnItsHost
  BY DEF SoloInv, StageInv, RunsOnItsHost, Using
<1> QED
  BY <1>1, SoloInvariance, PTL

(* Of one caller at a time: the directory and the sudo password of a command
   and the manager of a terminal call are those of the host it runs on.    *)
THEOREM StateAtHome == ASSUME Solo PROVE Spec => []StateOfItsHost
<1>1. ASSUME IInv, SoloInv, NEW w \in Workers, Using(w)
      PROVE  /\ conns[handle[w]].host = cfgHost
             /\ call[w].op = "run" => call[w].cwd.host = cfgHost /\ call[w].sudo = cfgHost
             /\ call[w].op = "exec" => call[w].mgr = cfgHost
  BY <1>1, OwnDirs DEF SoloInv, StageInv, ArgsInv, Using
<1>2. IInv /\ SoloInv => StateOfItsHost
  BY <1>1 DEF StateOfItsHost
<1> QED
  BY <1>2, SoloInvariance, PTL

(* Of one caller at a time: EnsureConnected and ConnectTo replace only
   connections that have stopped working.                                  *)
THEOREM NoneAbandoned == ASSUME Solo PROVE Spec => []NoWorkingConnectionAbandoned
<1>1. SoloInv => NoWorkingConnectionAbandoned
  BY DEF SoloInv, UpInv, NoWorkingConnectionAbandoned
<1> QED
  BY <1>1, SoloInvariance, PTL

(* Of one caller at a time: the directory of the session is lost neither by
   a reconnection nor by a command that stays where it starts.             *)
THEOREM CwdKept == ASSUME Solo PROVE Spec => DirectoryKept
<1>1. ASSUME IInv, SoloInv, Next, cwd' # cwd, cwd # Unset
      PROVE  \E w \in Workers : pc[w] = "setMgr" \/ EndsElsewhere(w)
  <2>1. ASSUME NEW w \in Workers, Advance(w)
        PROVE  pc[w] = "setMgr" \/ EndsElsewhere(w)
    <3>1. CASE FinishRun(w)
      BY <1>1, <3>1, FinishSolo
    <3>2. CASE SetHome(w)
      BY <1>1, <3>2 DEF SetHome, SoloInv, FieldsInv
    <3>3. CASE SetMgr(w)
      BY <3>3 DEF SetMgr
    <3>4. CASE UNCHANGED cwd
      BY <1>1, <3>4
    <3>5. FinishRun(w) \/ SetHome(w) \/ SetMgr(w) \/ UNCHANGED cwd
      BY <2>1 DEF Advance, SetCfg, SetSudo, EnsureConnected, EcNoHost, EcCfg, EcSftp,
          EcProbeOk, EcProbeFails, Connect, Lock, DialFails, Dial, InstallKeepCwd,
          InstallNoCwd, ReadCwd, ReadSudo, ReadHandle, SessionFails, Session,
          FinishNoCwd, shared
    <3> QED
      BY <3>1, <3>2, <3>3, <3>4, <3>5
  <2>2. ASSUME NEW w \in Workers, Start(w) PROVE UNCHANGED cwd
    BY <2>2 DEF Start, ConnectTo, Disconnect, SetSudoTool, RunCommand, ExecRaw, FileOp,
        Forward, shared
  <2>3. CASE Environment
    BY <1>1, <2>3 DEF Environment, DropConn, SftpEnds, shared
  <2> QED
    BY <1>1, <2>1, <2>2, <2>3 DEF Next
<1>2. IInv /\ SoloInv /\ [Next]_vars =>
         [cwd' # cwd /\ cwd # Unset =>
             \E w \in Workers : pc[w] = "setMgr" \/ EndsElsewhere(w)]_vars
  BY <1>1
<1> QED
  BY <1>2, SoloInvariance, PTL DEF Spec, DirectoryKept
=============================================================================
