------------------------------- MODULE Client -------------------------------
(***************************************************************************)
(* The SSH client that every tool of the server shares                     *)
(* (internal/sshclient/client.go) and the part of RunCommand and ExecRaw   *)
(* (internal/sshclient/exec.go) that reads and writes its state, and the   *)
(* way in which a forwarded connection (internal/sshclient/tunnel.go) gets *)
(* at the client.                                                          *)
(*                                                                         *)
(* The server runs tool calls on a pool of workers, so calls interleave    *)
(* at every point where Client.mu is not held.  A step of the model is a   *)
(* critical section of c.mu, c.cwdMu or c.sudoMu, an unsynchronised read   *)
(* or write of a shared field, or an exchange with the remote host.        *)
(*                                                                         *)
(* Remote directories are drawn from Dirs, a connection is a number given  *)
(* in the order in which the connections are made, and a sudo password is  *)
(* represented by the host it is meant for.                                *)
(***************************************************************************)
EXTENDS Naturals, FiniteSets

CONSTANTS
    Workers,    \* goroutines: of the server, which run tool calls, and of tunnels
    Hosts,      \* hosts a remote_connect may name
    NoHost,     \* Config.Host = ""
    Free,       \* value of mu when nobody holds it
    Ops,        \* the kinds of call each worker makes
    MaxConns    \* bound: SSH connections made in a behaviour

OpKinds == {"connect", "disconnect", "setSudo", "run", "exec", "file", "forward"}

ASSUME ClientAssumption ==
    /\ NoHost \notin Hosts
    /\ Free \notin Workers
    /\ Ops \in [Workers -> SUBSET OpKinds]
    /\ MaxConns \in Nat \ {0}

VARIABLES
    cfgHost,     \* Client.cfg.Host
    cwd,         \* Client.currentCwd
    sudo,        \* Client.sudoPassword
    mgr,         \* Client.herdrMgr, by the host it was made for
    sshClient,   \* Client.sshClient: a connection, or 0 for nil
    sftpClient,  \* Client.sftpClient, by the connection it runs on, 0 for nil
    conns,       \* the connections and their hosts, as the remote ends see them
    dialed,      \* number of connections made so far
    mu,          \* holder of Client.mu
    pc,          \* where the call of each worker is
    call,        \* arguments and locals of the call of each worker
    seen,        \* the newest connection the call has probed or made
    handle       \* the connection returned by SSH() or SFTP() to the call

shared == <<cfgHost, cwd, sudo, mgr, sshClient, sftpClient>>
vars == <<shared, conns, dialed, mu, pc, call, seen, handle>>

Conns == 1 .. MaxConns
AnyHost == Hosts \cup {NoHost}

(***************************************************************************)
(* currentCwd.  Unset is "".  A Go string is two words; a write that races *)
(* with another access may leave or yield a pointer and a length that do   *)
(* not belong together: Torn.  Raced marks a string that a second writer   *)
(* has touched inside the window of an unsynchronised write; closing the   *)
(* window resolves it.                                                     *)
(***************************************************************************)
Unset == [host |-> NoHost, dir |-> ""]
Torn  == [host |-> NoHost, dir |-> "torn"]
Raced == [host |-> NoHost, dir |-> "raced"]
Dirs == {"root", "home", "work"}
Cwds == [host : AnyHost, dir : Dirs] \cup {Unset, Torn, Raced}

Pcs == {"idle", "setCfg", "setMgr", "setSudo", "lock", "dial", "install",
        "home", "ecCfg", "ecSftp", "ecProbe", "readMgr", "readCwd",
        "readSudo", "readHandle", "session", "running"}

NoCall == [op |-> "none", host |-> NoHost, first |-> FALSE, cd |-> "",
           once |-> FALSE, given |-> FALSE, cwd |-> Unset, sudo |-> NoHost,
           mgr |-> NoHost]

Calls == [op : OpKinds \cup {"none"}, host : AnyHost, first : BOOLEAN,
          cd : Dirs \cup {""}, once : BOOLEAN, given : BOOLEAN, cwd : Cwds,
          sudo : AnyHost, mgr : AnyHost]

TypeOK ==
    /\ cfgHost \in AnyHost
    /\ cwd \in Cwds
    /\ sudo \in AnyHost
    /\ mgr \in AnyHost
    /\ sshClient \in 0 .. MaxConns
    /\ sftpClient \in 0 .. MaxConns
    /\ conns \in [Conns -> [host : AnyHost,
                            state : {"unused", "up", "nosftp", "dead"}]]
    /\ dialed \in 0 .. MaxConns
    /\ mu \in Workers \cup {Free}
    /\ pc \in [Workers -> Pcs]
    /\ call \in [Workers -> Calls]
    /\ seen \in [Workers -> 0 .. MaxConns]
    /\ handle \in [Workers -> 0 .. MaxConns]

-----------------------------------------------------------------------------
(* A connection is live while sessions can be opened on it; "nosftp" is a  *)
(* live connection whose SFTP channel has ended, so that Getwd fails.      *)
Live(c) == conns[c].state \in {"up", "nosftp"}

(* The state Close() leaves: whatever the fields hold is closed, but kept. *)
Closed(C) == [c \in Conns |-> IF c \in C /\ Live(c)
                              THEN [conns[c] EXCEPT !.state = "dead"]
                              ELSE conns[c]]

(* Somebody is writing currentCwd under c.mu, without c.cwdMu.             *)
CwdWindow == \E w \in Workers : pc[w] \in {"setMgr", "home"}

(* What GetCwd may return: it takes c.cwdMu, which does not exclude SetMgr
   and SetHome.                                                            *)
GetCwd == IF cwd = Raced THEN {Torn}
          ELSE IF CwdWindow THEN {cwd, Torn} ELSE {cwd}

Goto(w, l) == pc' = [pc EXCEPT ![w] = l]

Return(w) == /\ Goto(w, "idle")
             /\ call' = [call EXCEPT ![w] = NoCall]
             /\ seen' = [seen EXCEPT ![w] = 0]
             /\ handle' = [handle EXCEPT ![w] = 0]

(* What comes after a nil error from EnsureConnected or, for remote_connect,
   from Connect.  RunCommand and ExecRaw call EnsureConnected themselves
   (first) and again through SSH().                                        *)
ResumeAt(c) == CASE c.op = "connect" -> "idle"
                 [] c.op = "run" /\ c.first -> IF c.given THEN "readSudo" ELSE "readCwd"
                 [] c.op = "exec" /\ c.first -> "ecCfg"
                 [] OTHER -> "readHandle"

Resume(w) == IF call[w].op = "connect"
             THEN Return(w)
             ELSE /\ Goto(w, ResumeAt(call[w]))
                  /\ call' = [call EXCEPT ![w].first = FALSE]
                  /\ UNCHANGED <<seen, handle>>

-----------------------------------------------------------------------------
(* NewClient: a host may be configured, and the connection to it may fail. *)
Init ==
    \E h \in AnyHost, dir \in {"", "work"}, ok \in BOOLEAN :
        LET up == ok /\ h # NoHost IN
        /\ cfgHost = h
        /\ mgr = h
        /\ sudo = h
        /\ cwd = IF dir # "" THEN [host |-> h, dir |-> dir]
                 ELSE IF up THEN [host |-> h, dir |-> "home"] ELSE Unset
        /\ dialed = IF up THEN 1 ELSE 0
        /\ sshClient = dialed
        /\ sftpClient = dialed
        /\ conns = [c \in Conns |-> IF c <= dialed
                                    THEN [host |-> h, state |-> "up"]
                                    ELSE [host |-> NoHost, state |-> "unused"]]
        /\ mu = Free
        /\ pc = [w \in Workers |-> "idle"]
        /\ call = [w \in Workers |-> NoCall]
        /\ seen = [w \in Workers |-> 0]
        /\ handle = [w \in Workers |-> 0]

-----------------------------------------------------------------------------
(* The calls.                                                              *)

(* Mutant: ConnectTo does not begin with Close.                            *)
ConnectToKeepingOld(w) ==
    /\ pc[w] = "idle" /\ mu = Free
    /\ "connect" \in Ops[w]
    /\ \E h \in Hosts :
          call' = [call EXCEPT ![w] = [NoCall EXCEPT !.op = "connect", !.host = h]]
    /\ Goto(w, "setCfg")
    /\ UNCHANGED <<shared, conns, dialed, mu, seen, handle>>

(* ConnectTo begins with Close.                                            *)
ConnectTo(w) ==
    /\ pc[w] = "idle" /\ mu = Free
    /\ "connect" \in Ops[w]
    /\ \E h \in Hosts :
          call' = [call EXCEPT ![w] = [NoCall EXCEPT !.op = "connect", !.host = h]]
    /\ conns' = Closed({sshClient, sftpClient})
    /\ Goto(w, "setCfg")
    /\ UNCHANGED <<shared, dialed, mu, seen, handle>>

(* Mutant: Close also clears the fields.                                   *)
DisconnectClearing(w) ==
    /\ pc[w] = "idle" /\ mu = Free
    /\ "disconnect" \in Ops[w]
    /\ conns' = Closed({sshClient, sftpClient})
    /\ sshClient' = 0 /\ sftpClient' = 0
    /\ UNCHANGED <<cfgHost, cwd, sudo, mgr, dialed, mu, pc, call, seen, handle>>

(* remote_disconnect.                                                      *)
Disconnect(w) ==
    /\ pc[w] = "idle" /\ mu = Free
    /\ "disconnect" \in Ops[w]
    /\ conns' = Closed({sshClient, sftpClient})
    /\ UNCHANGED <<shared, dialed, mu, pc, call, seen, handle>>

(* remote_set_sudo_password, for the host the caller believes it is on.    *)
SetSudoTool(w) ==
    /\ pc[w] = "idle" /\ "setSudo" \in Ops[w]
    /\ sudo' = cfgHost
    /\ UNCHANGED <<cfgHost, cwd, mgr, sshClient, sftpClient, conns, dialed,
                   mu, pc, call, seen, handle>>

(* The directories a caller may pass: none, one of its own, or, as
   remote_connect does for the command that asks who the host is, what
   GetCwd returns before the call.                                         *)
GivenCwds == {Unset, [host |-> cfgHost, dir |-> "work"]} \cup GetCwd

(* RunCommand.  cd is the directory the command changes to ("" when it
   stays where it is); once tells that it brings its own sudo password;
   given that it brings its own directory.                                 *)
RunCommand(w) ==
    /\ pc[w] = "idle" /\ "run" \in Ops[w]
    /\ \E d \in {"", "work"}, o \in BOOLEAN, g \in GivenCwds :
          call' = [call EXCEPT ![w] = [NoCall EXCEPT !.op = "run", !.host = cfgHost,
                                       !.first = TRUE, !.cd = d, !.once = o,
                                       !.given = (g # Unset), !.cwd = g]]
    /\ Goto(w, "ecCfg")
    /\ UNCHANGED <<shared, conns, dialed, mu, seen, handle>>

(* A terminal tool: it takes client.Herdr() and calls ExecRaw through it.  *)
ExecRaw(w) ==
    /\ pc[w] = "idle" /\ mu = Free /\ "exec" \in Ops[w]
    /\ call' = [call EXCEPT ![w] = [NoCall EXCEPT !.op = "exec", !.host = cfgHost,
                                    !.first = TRUE, !.mgr = mgr]]
    /\ Goto(w, "ecCfg")
    /\ UNCHANGED <<shared, conns, dialed, mu, seen, handle>>

(* A file tool: it works on the handle that SFTP() returns.                *)
FileOp(w) ==
    /\ pc[w] = "idle" /\ "file" \in Ops[w]
    /\ call' = [call EXCEPT ![w] = [NoCall EXCEPT !.op = "file", !.host = cfgHost]]
    /\ Goto(w, "ecCfg")
    /\ UNCHANGED <<shared, conns, dialed, mu, seen, handle>>

(* A connection to the port of a tunnel: SSH() and a session to the remote
   end.  It is not a tool call and comes whenever somebody connects.       *)
Forward(w) ==
    /\ pc[w] = "idle" /\ "forward" \in Ops[w]
    /\ call' = [call EXCEPT ![w] = [NoCall EXCEPT !.op = "forward", !.host = cfgHost]]
    /\ Goto(w, "ecCfg")
    /\ UNCHANGED <<shared, conns, dialed, mu, seen, handle>>

-----------------------------------------------------------------------------
(* Mutant: the configuration is changed without c.mu.                      *)
SetCfgUnlocked(w) ==
    /\ pc[w] = "setCfg"
    /\ mu' = w
    /\ cfgHost' = call[w].host
    /\ Goto(w, "setMgr")
    /\ UNCHANGED <<cwd, sudo, mgr, sshClient, sftpClient, conns, dialed, call,
                   seen, handle>>

(* ConnectTo after Close: the new configuration, under c.mu.  The write of
   currentCwd is a step of its own because c.cwdMu is not held.            *)
SetCfg(w) ==
    /\ pc[w] = "setCfg" /\ mu = Free
    /\ mu' = w
    /\ cfgHost' = call[w].host
    /\ Goto(w, "setMgr")
    /\ UNCHANGED <<cwd, sudo, mgr, sshClient, sftpClient, conns, dialed, call,
                   seen, handle>>

(* Mutants: the directory of the previous host is kept; the manager is
   dropped instead of replaced.                                            *)
SetMgrKeepingCwd(w) ==
    /\ pc[w] = "setMgr"
    /\ mgr' = cfgHost
    /\ mu' = Free
    /\ Goto(w, "setSudo")
    /\ UNCHANGED <<cfgHost, cwd, sudo, sshClient, sftpClient, conns, dialed, call,
                   seen, handle>>

SetMgrNil(w) ==
    /\ pc[w] = "setMgr"
    /\ cwd' = Unset
    /\ mgr' = Unset
    /\ mu' = Free
    /\ Goto(w, "setSudo")
    /\ UNCHANGED <<cfgHost, sudo, sshClient, sftpClient, conns, dialed, call,
                   seen, handle>>

SetMgr(w) ==
    /\ pc[w] = "setMgr"
    /\ cwd' \in IF cwd = Raced THEN {Unset, Torn} ELSE {Unset}
    /\ mgr' = cfgHost
    /\ mu' = Free
    /\ Goto(w, "setSudo")
    /\ UNCHANGED <<cfgHost, sudo, sshClient, sftpClient, conns, dialed, call,
                   seen, handle>>

SetSudo(w) ==
    /\ pc[w] = "setSudo"
    /\ sudo' = call[w].host
    /\ Goto(w, "lock")
    /\ UNCHANGED <<cfgHost, cwd, mgr, sshClient, sftpClient, conns, dialed, mu,
                   call, seen, handle>>

-----------------------------------------------------------------------------
(* Connect, which holds c.mu while it talks to the host.                   *)
Lock(w) ==
    /\ pc[w] = "lock" /\ mu = Free
    /\ mu' = w
    /\ Goto(w, "dial")
    /\ UNCHANGED <<shared, conns, dialed, call, seen, handle>>

(* Mutants: the error of the dial is dropped; the lock is not released on
   the way out.                                                            *)
DialFailsUnreported(w) ==
    /\ pc[w] = "dial"
    /\ mu' = Free
    /\ Resume(w)
    /\ UNCHANGED <<shared, conns, dialed>>

DialFailsLocked(w) ==
    /\ pc[w] = "dial"
    /\ Return(w)
    /\ UNCHANGED <<shared, conns, dialed, mu>>

(* No authentication method, ssh.Dial fails, or the SFTP subsystem does not
   start and the new connection is closed again.                           *)
DialFails(w) ==
    /\ pc[w] = "dial"
    /\ mu' = Free
    /\ Return(w)
    /\ UNCHANGED <<shared, conns, dialed>>

(* ssh.Dial and sftp.NewClient succeed; c.sshClient is assigned.           *)
Dial(w) ==
    /\ pc[w] = "dial"
    /\ dialed < MaxConns
    /\ dialed' = dialed + 1
    /\ conns' = [conns EXCEPT ![dialed + 1] = [host |-> cfgHost, state |-> "up"]]
    /\ sshClient' = dialed + 1
    /\ seen' = [seen EXCEPT ![w] = dialed + 1]
    /\ Goto(w, "install")
    /\ UNCHANGED <<cfgHost, cwd, sudo, mgr, sftpClient, mu, call, handle>>

(* Mutant: returns before the SFTP client is assigned.                     *)
InstallSshOnly(w) ==
    /\ pc[w] = "install" /\ cwd # Unset
    /\ mu' = Free
    /\ Resume(w)
    /\ UNCHANGED <<shared, conns, dialed>>

(* c.sftpClient is assigned; a directory that is set is kept.              *)
InstallKeepCwd(w) ==
    /\ pc[w] = "install" /\ cwd # Unset
    /\ sftpClient' = sshClient
    /\ mu' = Free
    /\ Resume(w)
    /\ UNCHANGED <<cfgHost, cwd, sudo, mgr, sshClient, conns, dialed>>

(* Mutant: every new connection begins in the home directory.              *)
InstallNoCwdAlways(w) ==
    /\ pc[w] = "install"
    /\ sftpClient' = sshClient
    /\ Goto(w, "home")
    /\ UNCHANGED <<cfgHost, cwd, sudo, mgr, sshClient, conns, dialed, mu, call,
                   seen, handle>>

InstallNoCwd(w) ==
    /\ pc[w] = "install" /\ cwd = Unset
    /\ sftpClient' = sshClient
    /\ Goto(w, "home")
    /\ UNCHANGED <<cfgHost, cwd, sudo, mgr, sshClient, conns, dialed, mu, call,
                   seen, handle>>

(* Getwd answers with the home directory, or fails and "/" is used.        *)
SetHome(w) ==
    /\ pc[w] = "home"
    /\ LET dir == IF conns[sftpClient].state = "up" THEN "home" ELSE "root"
           home == [host |-> conns[sftpClient].host, dir |-> dir]
       IN cwd' \in IF cwd = Raced THEN {home, Torn} ELSE {home}
    /\ mu' = Free
    /\ Resume(w)
    /\ UNCHANGED <<cfgHost, sudo, mgr, sshClient, sftpClient, conns, dialed>>

-----------------------------------------------------------------------------
(* EnsureConnected.                                                        *)
EcNoHost(w) ==
    /\ pc[w] = "ecCfg" /\ mu = Free /\ cfgHost = NoHost
    /\ Return(w)
    /\ UNCHANGED <<shared, conns, dialed, mu>>

EcCfg(w) ==
    /\ pc[w] = "ecCfg" /\ mu = Free /\ cfgHost # NoHost
    /\ Goto(w, IF sshClient = 0 THEN "lock" ELSE "ecSftp")
    /\ UNCHANGED <<shared, conns, dialed, mu, call, seen, handle>>

EcSftp(w) ==
    /\ pc[w] = "ecSftp" /\ mu = Free
    /\ seen' = [seen EXCEPT ![w] = sftpClient]
    /\ Goto(w, IF sftpClient = 0 THEN "lock" ELSE "ecProbe")
    /\ UNCHANGED <<shared, conns, dialed, mu, call, handle>>

(* Getwd, outside the lock.                                                *)
EcProbeOk(w) ==
    /\ pc[w] = "ecProbe" /\ conns[seen[w]].state = "up"
    /\ Resume(w)
    /\ UNCHANGED <<shared, conns, dialed, mu>>

EcProbeFails(w) ==
    /\ pc[w] = "ecProbe" /\ conns[seen[w]].state # "up"
    /\ Goto(w, "lock")
    /\ UNCHANGED <<shared, conns, dialed, mu, call, seen, handle>>

-----------------------------------------------------------------------------
(* RunCommand and ExecRaw between EnsureConnected and the session.         *)

(* No directory is given: the persistent one.                              *)
ReadCwd(w) ==
    /\ pc[w] = "readCwd"
    /\ \E d \in GetCwd : call' = [call EXCEPT ![w].cwd = d]
    /\ Goto(w, "readSudo")
    /\ UNCHANGED <<shared, conns, dialed, mu, seen, handle>>

(* A password given with the command replaces the stored one.              *)
ReadSudo(w) ==
    /\ pc[w] = "readSudo"
    /\ sudo' = IF call[w].once THEN call[w].host ELSE sudo
    /\ call' = [call EXCEPT ![w].sudo = sudo']
    /\ Goto(w, "ecCfg")
    /\ UNCHANGED <<cfgHost, cwd, mgr, sshClient, sftpClient, conns, dialed, mu,
                   seen, handle>>

(* SSH() and SFTP() read the field without the lock.                       *)
ReadHandle(w) ==
    /\ pc[w] = "readHandle"
    /\ handle' = [handle EXCEPT ![w] = IF call[w].op = "file" THEN sftpClient
                                       ELSE sshClient]
    /\ Goto(w, "session")
    /\ UNCHANGED <<shared, conns, dialed, mu, call, seen>>

(* A torn directory makes WrapCommand panic; the server turns a panic of a
   handler into an error response.                                         *)
SessionFails(w) ==
    /\ pc[w] = "session"
    /\ \/ call[w].op = "file" /\ conns[handle[w]].state # "up"
       \/ call[w].op # "file" /\ ~Live(handle[w])
       \/ call[w].cwd = Torn
    /\ Return(w)
    /\ UNCHANGED <<shared, conns, dialed, mu>>

Session(w) ==
    /\ pc[w] = "session"
    /\ Live(handle[w])
    /\ call[w].op = "file" => conns[handle[w]].state = "up"
    /\ call[w].cwd # Torn
    /\ Goto(w, "running")
    /\ UNCHANGED <<shared, conns, dialed, mu, call, seen, handle>>

(* Where the wrapped command starts: "cd cwd || cd /" on the host of the
   connection.  The directory may have been removed there, be unreadable, or
   never have existed.                                                     *)
StartDirs(w) == IF call[w].cwd = Unset THEN {"home"} ELSE {call[w].cwd.dir, "root"}

(* The markers arrive within the time the caller waits: SetCwd.            *)
FinishRun(w) ==
    /\ pc[w] = "running" /\ call[w].op = "run"
    /\ Live(handle[w])
    /\ \E d \in StartDirs(w) :
          cwd' = IF CwdWindow THEN Raced
                 ELSE [host |-> conns[handle[w]].host,
                       dir |-> IF call[w].cd = "" THEN d ELSE call[w].cd]
    /\ Return(w)
    /\ UNCHANGED <<cfgHost, sudo, mgr, sshClient, sftpClient, conns, dialed, mu>>

(* A daemon, a command that outlives the wait, one that prints no markers,
   or any use of a connection that only returns a result.                  *)
FinishNoCwd(w) ==
    /\ pc[w] = "running"
    /\ Return(w)
    /\ UNCHANGED <<shared, conns, dialed, mu>>

-----------------------------------------------------------------------------
(* The network and the remote host.                                        *)
DropConn(c) ==
    /\ Live(c)
    /\ conns' = [conns EXCEPT ![c].state = "dead"]
    /\ UNCHANGED <<shared, dialed, mu, pc, call, seen, handle>>

SftpEnds(c) ==
    /\ conns[c].state = "up"
    /\ conns' = [conns EXCEPT ![c].state = "nosftp"]
    /\ UNCHANGED <<shared, dialed, mu, pc, call, seen, handle>>

-----------------------------------------------------------------------------
Start(w) == ConnectTo(w) \/ Disconnect(w) \/ SetSudoTool(w) \/ RunCommand(w)
            \/ ExecRaw(w) \/ FileOp(w) \/ Forward(w)

EnsureConnected(w) == EcNoHost(w) \/ EcCfg(w) \/ EcSftp(w) \/ EcProbeOk(w)
                      \/ EcProbeFails(w)

Connect(w) == Lock(w) \/ DialFails(w) \/ Dial(w) \/ InstallKeepCwd(w)
              \/ InstallNoCwd(w) \/ SetHome(w)

Advance(w) == SetCfg(w) \/ SetMgr(w) \/ SetSudo(w) \/ EnsureConnected(w)
              \/ Connect(w) \/ ReadCwd(w) \/ ReadSudo(w) \/ ReadHandle(w)
              \/ SessionFails(w) \/ Session(w) \/ FinishRun(w) \/ FinishNoCwd(w)

Environment == \E c \in Conns : DropConn(c) \/ SftpEnds(c)

Next == (\E w \in Workers : Start(w) \/ Advance(w)) \/ Environment

Spec == Init /\ [][Next]_vars

(* A call that has begun keeps going: the Go scheduler runs it, sync.Mutex
   hands itself to a goroutine that has waited for more than 1ms, and a
   remote exchange ends because the host answers or the transport fails.   *)
Fairness == \A w \in Workers : SF_vars(Advance(w))

LiveSpec == Spec /\ Fairness
-----------------------------------------------------------------------------
(* Properties.                                                             *)

Using(w) == pc[w] \in {"session", "running"}

(* SSH() and SFTP() never return a nil client together with a nil error,
   although they read the field after EnsureConnected has let go of c.mu.  *)
HandleNeverNil == \A w \in Workers : Using(w) => handle[w] # 0

(* The SSH client and the SFTP client are on the same connection, except
   inside Connect between the two assignments: EnsureConnected probes the
   one to vouch for the other.                                             *)
PairConsistent == sshClient # sftpClient => \E w \in Workers : pc[w] = "install"

(* The connection that Connect installs leads to the configured host: no
   call can change the configuration while another one is dialing.         *)
InstallsConfiguredHost ==
    \A w \in Workers : pc[w] \in {"install", "home"} =>
                         conns[sshClient].host = cfgHost

(* The unlocked read never returns a connection older than the one that
   EnsureConnected has just probed or made for this call.                  *)
HandleNotOlder == \A w \in Workers : Using(w) => handle[w] >= seen[w]

(* Every call returns, whatever fails.                                     *)
CallsReturn == \A w \in Workers : pc[w] # "idle" ~> pc[w] = "idle"

(* Of one caller at a time: a command or file operation runs on the host
   that was configured when it was called.                                 *)
RunsOnItsHost == \A w \in Workers : Using(w) =>
                    conns[handle[w]].host = call[w].host

(* Of one caller at a time: the directory, the sudo password and the
   terminal manager a call uses belong to the host it runs on.             *)
StateOfItsHost ==
    \A w \in Workers : Using(w) =>
        LET h == conns[handle[w]].host IN
        /\ call[w].op = "run" => call[w].cwd.host = h /\ call[w].sudo = h
        /\ call[w].op = "exec" => call[w].mgr = h

(* A command ends that goes elsewhere, was given a directory, or has started
   in /, which the wrapper falls back to.                                  *)
EndsElsewhere(w) ==
    /\ pc[w] = "running" /\ pc'[w] = "idle" /\ call[w].op = "run"
    /\ \/ call[w].cd # "" \/ call[w].given
       \/ cwd' = [host |-> conns[handle[w]].host, dir |-> "root"]

(* Of one caller at a time: the directory of the session outlives the loss of
   its connection and the commands that stay where they start.  Once it is
   known it changes only with the host, by a command that goes elsewhere or
   is given a directory, or to / when it can no longer be entered.         *)
DirectoryKept ==
    [][cwd' # cwd /\ cwd # Unset =>
          \E w \in Workers : pc[w] = "setMgr" \/ EndsElsewhere(w)]_vars

(* Of one caller at a time: a connection that Connect has replaced is dead,
   or has lost at least its SFTP channel; working ones are not abandoned.  *)
NoWorkingConnectionAbandoned ==
    \A c \in Conns : conns[c].state = "up" => c = sshClient

(* No connection of the client is live when remote_disconnect returns.     *)
DisconnectTearsDown ==
    [][(\E w \in Workers : Disconnect(w)) => \A c \in Conns : ~Live(c)']_vars

-----------------------------------------------------------------------------
(* The slot that the client is to those who call SSH() and SFTP().         *)
Slot == INSTANCE ConnectionSlot WITH
            Users <- Workers, Last <- MaxConns,
            newest <- sshClient, floor <- seen, taken <- handle

(* Whatever the interleaving, the probes, the reads without the lock and the
   reconnections of all callers amount to a slot in which connections only
   get newer, and from which nobody takes nil or less than he was vouched. *)
SlotImplemented == Slot!Spec
=============================================================================
