-------------------------- MODULE ClientSlotProofs --------------------------
(***************************************************************************)
(* For every set of workers and hosts and any bound on the connections:    *)
(* the client implements ConnectionSlot.  The invariant of ClientProofs    *)
(* gives what a single step does not show: that the SFTP client EcSftp     *)
(* vouches for is no newer than the slot and no older than what the call   *)
(* has seen, and that a call that reads its handle has seen a connection.  *)
(***************************************************************************)
EXTENDS ClientProofs

(* A call that returns leaves the slot; one that goes on leaves it alone.  *)
LEMMA ReturnLeaves ==
    ASSUME NEW w \in Workers, Return(w), UNCHANGED sshClient
    PROVE  [Slot!Next]_(Slot!slotVars)
  BY DEF Return, Slot!Leave, Slot!Next

LEMMA ResumeLeaves ==
    ASSUME NEW w \in Workers, Resume(w), UNCHANGED sshClient
    PROVE  [Slot!Next]_(Slot!slotVars)
<1>1. CASE call[w].op = "connect"
  BY <1>1, ReturnLeaves DEF Resume
<1>2. CASE call[w].op # "connect"
  BY <1>2 DEF Resume, Slot!slotVars
<1> QED
  BY <1>1, <1>2

(* The initial states of the client are initial states of the slot.        *)
LEMMA InitSlot == Init => Slot!Init
<1> SUFFICES ASSUME Init PROVE Slot!Init
  OBVIOUS
<1>1. sshClient \in {0} \cup 1 .. MaxConns
  BY InitSlots, InitDialed, ClientAssumption
<1>2. seen = [w \in Workers |-> 0] /\ handle = [w \in Workers |-> 0]
  BY DEF Init
<1> QED
  BY <1>1, <1>2 DEF Slot!Init, Slot!Connections

(* Every step of the client is a step of the slot, or leaves it alone.     *)
LEMMA NextSlot == IInv /\ [Next]_vars => [Slot!Next]_(Slot!slotVars)
<1> SUFFICES ASSUME IInv, [Next]_vars PROVE [Slot!Next]_(Slot!slotVars)
  OBVIOUS
<1>1. ASSUME NEW w \in Workers, Dial(w) PROVE Slot!Next
  <2>1. /\ sshClient <= dialed /\ dialed < MaxConns
        /\ dialed \in Nat /\ sshClient \in Nat /\ MaxConns \in Nat
    BY <1>1, ClientAssumption DEF Dial, IInv, SlotInv, TypeOK
  <2>2. sshClient' = dialed + 1 /\ seen' = [seen EXCEPT ![w] = sshClient']
    BY <1>1 DEF Dial
  <2>3. sshClient' \in 1 .. MaxConns /\ sshClient' > sshClient
    BY <2>1, <2>2
  <2>4. UNCHANGED handle
    BY <1>1 DEF Dial
  <2> QED
    BY <2>2, <2>3, <2>4 DEF Slot!Install, Slot!Connections, Slot!Next
<1>2. ASSUME NEW w \in Workers, EcSftp(w) PROVE Slot!Next
  <2>1. pc[w] # "install" /\ seen' = [seen EXCEPT ![w] = sftpClient]
    BY <1>2 DEF EcSftp
  <2>2. sftpClient \in seen[w] .. sshClient
    BY <2>1 DEF IInv, SlotInv, TypeOK
  <2>3. UNCHANGED <<sshClient, handle>>
    BY <1>2 DEF EcSftp, shared
  <2> QED
    BY <2>1, <2>2, <2>3 DEF Slot!Vouch, Slot!Next
<1>3. ASSUME NEW w \in Workers, ReadHandle(w) PROVE Slot!Next
  <2>1. pc[w] = "readHandle" /\ UNCHANGED <<sshClient, seen>>
    BY <1>3 DEF ReadHandle, shared
  <2>2. PICK c \in {sftpClient, sshClient} : handle' = [handle EXCEPT ![w] = c]
    BY <1>3 DEF ReadHandle
  <2>3. seen[w] # 0 /\ seen[w] <= sftpClient /\ sftpClient <= sshClient
    BY <2>1 DEF IInv, SlotInv, Connected
  <2>4. c \in seen[w] .. sshClient
    BY <2>2, <2>3 DEF IInv, TypeOK
  <2> QED
    BY <2>1, <2>2, <2>3, <2>4 DEF Slot!Take, Slot!Next
<1>4. ASSUME NEW w \in Workers,
             InstallKeepCwd(w) \/ SetHome(w) \/ EcProbeOk(w)
      PROVE  [Slot!Next]_(Slot!slotVars)
  BY <1>4, ResumeLeaves DEF InstallKeepCwd, SetHome, EcProbeOk, shared
<1>5. ASSUME NEW w \in Workers,
             DialFails(w) \/ EcNoHost(w) \/ SessionFails(w) \/ FinishRun(w)
               \/ FinishNoCwd(w)
      PROVE  [Slot!Next]_(Slot!slotVars)
  BY <1>5, ReturnLeaves DEF DialFails, EcNoHost, SessionFails, FinishRun,
      FinishNoCwd, shared
<1>6. ASSUME NEW w \in Workers, Start(w) PROVE UNCHANGED Slot!slotVars
  BY <1>6 DEF Start, ConnectTo, Disconnect, SetSudoTool, RunCommand, ExecRaw,
      FileOp, Forward, shared, Slot!slotVars
<1>7. ASSUME NEW w \in Workers,
             SetCfg(w) \/ SetMgr(w) \/ SetSudo(w) \/ Lock(w) \/ InstallNoCwd(w)
               \/ EcCfg(w) \/ EcProbeFails(w) \/ ReadCwd(w) \/ ReadSudo(w)
               \/ Session(w)
      PROVE  UNCHANGED Slot!slotVars
  BY <1>7 DEF SetCfg, SetMgr, SetSudo, Lock, InstallNoCwd, EcCfg,
      EcProbeFails, ReadCwd, ReadSudo, Session, shared, Slot!slotVars
<1>8. CASE Environment \/ UNCHANGED vars
  BY <1>8 DEF Environment, DropConn, SftpEnds, vars, shared, Slot!slotVars
<1> QED
  BY <1>1, <1>2, <1>3, <1>4, <1>5, <1>6, <1>7, <1>8 DEF Next, Advance,
      EnsureConnected, Connect

(* The shared client, with its probes, its reads without the lock and its
   reconnections, gives every call what ConnectionSlot promises: never nil,
   and never an older connection than the call was vouched for.            *)
THEOREM ClientImplementsSlot == Spec => SlotImplemented
<1>1. Init => Slot!Init
  BY InitSlot
<1>2. IInv /\ [Next]_vars => [Slot!Next]_(Slot!slotVars)
  BY NextSlot
<1> QED
  BY <1>1, <1>2, Invariance, PTL DEF Spec, SlotImplemented, Slot!Spec
=============================================================================
