------------------------------ MODULE Tunnels -------------------------------
(***************************************************************************)
(* Port forwarding (internal/sshclient/tunnel.go): the table of tunnels,   *)
(* the goroutine that accepts connections for each of them, and the        *)
(* goroutines that forward one connection.                                 *)
(*                                                                         *)
(* Two locks are involved.  Open, Close and CloseAll take tm.mu.           *)
(* Client.Close holds Client.mu while it runs CloseAll, and a forwarded    *)
(* connection takes Client.mu when it asks for the SSH client.  The accept *)
(* loop takes neither: it only reads the flag, the channel and the         *)
(* listener of its tunnel.                                                 *)
(*                                                                         *)
(* A tunnel is known by the number in its ID.  Calls that fail at once (no *)
(* port, unknown ID) and List change nothing and are left out.             *)
(***************************************************************************)
EXTENDS Naturals, FiniteSets

CONSTANTS
    Callers,     \* goroutines of the server that run tool calls
    Free,        \* value of a lock that nobody holds
    Tunnels,     \* bound: tunnels opened in a behaviour
    Conns        \* bound: local connections made in a behaviour

ASSUME TunnelsAssumption == Free \notin Callers

VARIABLES
    table,       \* TunnelManager.tunnels
    listening,   \* tunnels whose listener is open
    closed,      \* tunnels whose flag Tunnel.closed is set
    stopped,     \* tunnels whose Tunnel.stopChan is closed
    loop,        \* where forwardLoop of each tunnel is
    tmMu,        \* holder of TunnelManager.mu
    clientMu,    \* holder of Client.mu, when it is not just a read
    pc,          \* where the call of each caller is
    todo,        \* the tunnels the call is about
    serve,       \* where the goroutine of each connection is
    copier,      \* its two copying goroutines
    sent,        \* values in its channel done, received ones included
    cut          \* connections whose SSH connection has been closed

tunnels == <<table, listening, closed, stopped>>
forwards == <<serve, copier, sent, cut>>
vars == <<tunnels, loop, tmMu, clientMu, pc, todo, forwards>>

Directions == {"out", "in"}     \* lConn to remoteConn, and back

TypeOK ==
    /\ {table, listening, closed, stopped} \subseteq SUBSET Tunnels
    /\ loop \in [Tunnels -> {"none", "accept", "flag", "select", "end"}]
    /\ tmMu \in Callers \cup {Free}
    /\ clientMu \in Callers \cup {Free}
    /\ pc \in [Callers -> {"idle", "insert", "spawn", "closeAll", "next", "stop",
                           "listener", "delete", "closeClients"}]
    /\ todo \in [Callers -> SUBSET Tunnels]
    /\ serve \in [Conns -> {"none", "ssh", "dial", "copy", "end"}]
    /\ copier \in [Conns -> [Directions -> {"none", "copy", "send", "end"}]]
    /\ sent \in [Conns -> 0 .. 2]
    /\ cut \subseteq Conns

Init ==
    /\ table = {} /\ listening = {} /\ closed = {} /\ stopped = {}
    /\ loop = [t \in Tunnels |-> "none"]
    /\ tmMu = Free /\ clientMu = Free
    /\ pc = [w \in Callers |-> "idle"]
    /\ todo = [w \in Callers |-> {}]
    /\ serve = [c \in Conns |-> "none"]
    /\ copier = [c \in Conns |-> [d \in Directions |-> "none"]]
    /\ sent = [c \in Conns |-> 0]
    /\ cut = {}

-----------------------------------------------------------------------------
Goto(w, l) == pc' = [pc EXCEPT ![w] = l]
About(w, S) == todo' = [todo EXCEPT ![w] = S]

(* A tunnel that has been opened by now, if only its listener.             *)
Opened(t) == \/ t \in listening \cup closed
             \/ loop[t] # "none"

-----------------------------------------------------------------------------
(* Open: net.Listen and the next ID; the entry; the goroutine.             *)
Listen(w) ==
    /\ pc[w] = "idle"
    /\ \E t \in Tunnels :
          /\ ~Opened(t)
          /\ listening' = listening \cup {t}
          /\ About(w, {t})
    /\ Goto(w, "insert")
    /\ UNCHANGED <<table, closed, stopped, loop, tmMu, clientMu, forwards>>

(* Mutant: no entry is made.                                               *)
InsertNothing(w) ==
    /\ pc[w] = "insert" /\ tmMu = Free
    /\ Goto(w, "spawn")
    /\ UNCHANGED <<tunnels, loop, tmMu, clientMu, todo, forwards>>

Insert(w) ==
    /\ pc[w] = "insert" /\ tmMu = Free
    /\ table' = table \cup todo[w]
    /\ Goto(w, "spawn")
    /\ UNCHANGED <<listening, closed, stopped, loop, tmMu, clientMu, todo, forwards>>

(* Mutant: forwardLoop is called, not started as a goroutine.              *)
SpawnCalls(w) ==
    /\ pc[w] = "spawn"
    /\ IF \E t \in todo[w] : loop[t] = "none"
       THEN /\ loop' = [t \in Tunnels |-> IF t \in todo[w] THEN "accept" ELSE loop[t]]
            /\ UNCHANGED <<pc, todo>>
       ELSE /\ \A t \in todo[w] : loop[t] = "end"
            /\ About(w, {})
            /\ Goto(w, "idle")
            /\ UNCHANGED loop
    /\ UNCHANGED <<tunnels, tmMu, clientMu, forwards>>

Spawn(w) ==
    /\ pc[w] = "spawn"
    /\ loop' = [t \in Tunnels |-> IF t \in todo[w] THEN "accept" ELSE loop[t]]
    /\ About(w, {})
    /\ Goto(w, "idle")
    /\ UNCHANGED <<tunnels, tmMu, clientMu, forwards>>

-----------------------------------------------------------------------------
(* Close, of one tunnel.                                                   *)
Close(w) ==
    /\ pc[w] = "idle" /\ tmMu = Free
    /\ \E t \in table : About(w, {t})
    /\ tmMu' = w
    /\ Goto(w, "next")
    /\ UNCHANGED <<tunnels, loop, clientMu, forwards>>

(* Client.Close, by remote_disconnect or ConnectTo.                        *)
Disconnect(w) ==
    /\ pc[w] = "idle" /\ clientMu = Free
    /\ clientMu' = w
    /\ Goto(w, "closeAll")
    /\ UNCHANGED <<tunnels, loop, tmMu, todo, forwards>>

(* Mutant: CloseAll does not take tm.mu.                                   *)
CloseAllUnlocked(w) ==
    /\ pc[w] = "closeAll"
    /\ About(w, table)
    /\ Goto(w, "next")
    /\ UNCHANGED <<tunnels, loop, tmMu, clientMu, forwards>>

CloseAll(w) ==
    /\ pc[w] = "closeAll" /\ tmMu = Free
    /\ tmMu' = w
    /\ About(w, table)
    /\ Goto(w, "next")
    /\ UNCHANGED <<tunnels, loop, clientMu, forwards>>

(* The body of both, for one tunnel of todo after the other.  tm.mu keeps
   calls apart, but not the accept loop, which sees each assignment by
   itself.  Under tm.mu the tunnel being closed is the one that has its flag
   set and is still in the table.                                          *)
Closing == table \cap closed

Mark(w) ==
    /\ pc[w] = "next"
    /\ \E t \in todo[w] : closed' = closed \cup {t}
    /\ Goto(w, "stop")
    /\ UNCHANGED <<table, listening, stopped, loop, tmMu, clientMu, todo, forwards>>

Stop(w) ==
    /\ pc[w] = "stop"
    /\ stopped' = stopped \cup Closing
    /\ Goto(w, "listener")
    /\ UNCHANGED <<table, listening, closed, loop, tmMu, clientMu, todo, forwards>>

(* Mutant: the listener stays open.                                        *)
CloseListenerNot(w) ==
    /\ pc[w] = "listener"
    /\ Goto(w, "delete")
    /\ UNCHANGED <<tunnels, loop, tmMu, clientMu, todo, forwards>>

CloseListener(w) ==
    /\ pc[w] = "listener"
    /\ listening' = listening \ Closing
    /\ Goto(w, "delete")
    /\ UNCHANGED <<table, closed, stopped, loop, tmMu, clientMu, todo, forwards>>

Delete(w) ==
    /\ pc[w] = "delete"
    /\ table' = table \ Closing
    /\ About(w, todo[w] \ Closing)
    /\ Goto(w, "next")
    /\ UNCHANGED <<listening, closed, stopped, loop, tmMu, clientMu, forwards>>

Unlock(w) ==
    /\ pc[w] = "next" /\ todo[w] = {}
    /\ tmMu' = Free
    /\ Goto(w, IF clientMu = w THEN "closeClients" ELSE "idle")
    /\ UNCHANGED <<tunnels, loop, clientMu, todo, forwards>>

(* The rest of Client.Close.  It closes the current SSH connection; those
   that a reconnect has replaced, and what runs on them, it leaves alone.  *)
CloseClients(w) ==
    /\ pc[w] = "closeClients"
    /\ \E S \in SUBSET {c \in Conns : serve[c] \in {"dial", "copy"}} :
          cut' = cut \cup S
    /\ clientMu' = Free
    /\ Goto(w, "idle")
    /\ UNCHANGED <<tunnels, loop, tmMu, todo, serve, copier, sent>>

-----------------------------------------------------------------------------
(* forwardLoop.                                                            *)
LoopTo(t, l) == loop' = [loop EXCEPT ![t] = l]

Accept(t) ==
    /\ loop[t] = "accept" /\ t \in listening
    /\ \E c \in Conns : serve[c] = "none" /\ serve' = [serve EXCEPT ![c] = "ssh"]
    /\ UNCHANGED <<tunnels, loop, tmMu, clientMu, pc, todo, copier, sent, cut>>

(* The listener is closed.                                                 *)
AcceptClosed(t) ==
    /\ loop[t] = "accept" /\ t \notin listening
    /\ LoopTo(t, "flag")
    /\ UNCHANGED <<tunnels, tmMu, clientMu, pc, todo, forwards>>

(* Or the process has no descriptor left.                                  *)
AcceptFails(t) ==
    /\ loop[t] = "accept" /\ t \in listening
    /\ LoopTo(t, "flag")
    /\ UNCHANGED <<tunnels, tmMu, clientMu, pc, todo, forwards>>

ReadFlag(t) ==
    /\ loop[t] = "flag"
    /\ LoopTo(t, IF t \in closed THEN "end" ELSE "select")
    /\ listening' = IF t \in closed THEN listening \ {t} ELSE listening
    /\ UNCHANGED <<table, closed, stopped, tmMu, clientMu, pc, todo, forwards>>

(* Mutant: the loop ends with the first error of Accept.                   *)
SelectReturns(t) ==
    /\ loop[t] = "select"
    /\ LoopTo(t, "end")
    /\ listening' = listening \ {t}
    /\ UNCHANGED <<table, closed, stopped, tmMu, clientMu, pc, todo, forwards>>

Select(t) ==
    /\ loop[t] = "select"
    /\ LoopTo(t, IF t \in stopped THEN "end" ELSE "accept")
    /\ listening' = IF t \in stopped THEN listening \ {t} ELSE listening
    /\ UNCHANGED <<table, closed, stopped, tmMu, clientMu, pc, todo, forwards>>

-----------------------------------------------------------------------------
(* The goroutine of a connection; it closes both ends when it ends.        *)
ServeTo(c, l) == serve' = [serve EXCEPT ![c] = l]

(* Client.SSH, which waits for Client.mu, or its error.                    *)
GetSsh(c) ==
    /\ serve[c] = "ssh" /\ clientMu = Free
    /\ ServeTo(c, "dial") \/ ServeTo(c, "end")
    /\ UNCHANGED <<tunnels, loop, tmMu, clientMu, pc, todo, copier, sent, cut>>

Dial(c) ==
    /\ serve[c] = "dial" /\ c \notin cut
    /\ ServeTo(c, "copy")
    /\ copier' = [copier EXCEPT ![c] = [d \in Directions |-> "copy"]]
    /\ UNCHANGED <<tunnels, loop, tmMu, clientMu, pc, todo, sent, cut>>

DialFails(c) ==
    /\ serve[c] = "dial"
    /\ ServeTo(c, "end")
    /\ UNCHANGED <<tunnels, loop, tmMu, clientMu, pc, todo, copier, sent, cut>>

(* <-done; the first of the two is enough.                                 *)
Done(c) ==
    /\ serve[c] = "copy" /\ sent[c] > 0
    /\ ServeTo(c, "end")
    /\ UNCHANGED <<tunnels, loop, tmMu, clientMu, pc, todo, copier, sent, cut>>

CopierTo(c, d, l) == copier' = [copier EXCEPT ![c][d] = l]

(* What this direction reads from ends, or writing to the other side fails. *)
SideEnds(c, d) ==
    /\ copier[c][d] = "copy"
    /\ CopierTo(c, d, "send")
    /\ UNCHANGED <<tunnels, loop, tmMu, clientMu, pc, todo, serve, sent, cut>>

(* Both sides have been closed, or the SSH connection has been, which ends
   the direction that reads from the remote side.                          *)
CopyBreaks(c, d) ==
    /\ copier[c][d] = "copy"
    /\ serve[c] = "end" \/ (c \in cut /\ d = "in")
    /\ CopierTo(c, d, "send")
    /\ UNCHANGED <<tunnels, loop, tmMu, clientMu, pc, todo, serve, sent, cut>>

(* Mutants: a goroutine signals on an error and again when it ends; the
   channel has no room for the second value.                               *)
SendTwice(c, d) ==
    /\ copier[c][d] = "send"
    /\ sent' = [sent EXCEPT ![c] = @ + 2]
    /\ CopierTo(c, d, "end")
    /\ UNCHANGED <<tunnels, loop, tmMu, clientMu, pc, todo, serve, cut>>

SendUnbuffered(c, d) ==
    /\ copier[c][d] = "send" /\ serve[c] = "copy"
    /\ sent' = [sent EXCEPT ![c] = @ + 1]
    /\ CopierTo(c, d, "end")
    /\ UNCHANGED <<tunnels, loop, tmMu, clientMu, pc, todo, serve, cut>>

Send(c, d) ==
    /\ copier[c][d] = "send" /\ sent[c] < 2
    /\ sent' = [sent EXCEPT ![c] = @ + 1]
    /\ CopierTo(c, d, "end")
    /\ UNCHANGED <<tunnels, loop, tmMu, clientMu, pc, todo, serve, cut>>

-----------------------------------------------------------------------------
Begin(w) == Listen(w) \/ Close(w) \/ Disconnect(w)

Advance(w) == Insert(w) \/ Spawn(w) \/ CloseAll(w) \/ Mark(w) \/ Stop(w)
              \/ CloseListener(w) \/ Delete(w) \/ Unlock(w) \/ CloseClients(w)

forwardLoop(t) == AcceptClosed(t) \/ ReadFlag(t) \/ Select(t)

Forward(c) == GetSsh(c) \/ Dial(c) \/ DialFails(c) \/ Done(c)

Copy(c, d) == CopyBreaks(c, d) \/ Send(c, d)

Next == \/ \E w \in Callers : Begin(w) \/ Advance(w)
        \/ \E t \in Tunnels : Accept(t) \/ AcceptFails(t) \/ forwardLoop(t)
        \/ \E c \in Conns : Forward(c) \/ \E d \in Directions : Copy(c, d) \/ SideEnds(c, d)

Spec == Init /\ [][Next]_vars

(* Goroutines that can run do run, and a waiter for a lock gets it in the
   end.  Nobody has to connect, and neither side has to end.               *)
Fairness ==
    /\ \A w \in Callers : SF_vars(Advance(w))
    /\ \A t \in Tunnels : WF_vars(forwardLoop(t))
    /\ \A c \in Conns : /\ SF_vars(Forward(c))
                        /\ \A d \in Directions : WF_vars(Copy(c, d))

LiveSpec == Spec /\ Fairness

-----------------------------------------------------------------------------
(* Properties.                                                             *)

(* The tunnels that remote_tunnel lists and can close are those that accept
   connections, except while Open or Close is at work: a listener that is
   not in the table could never be closed again.                           *)
TableIsListeners ==
    tmMu = Free => /\ table \subseteq listening
                   /\ \A t \in listening \ table :
                         \E w \in Callers : pc[w] = "insert" /\ t \in todo[w]

(* When CloseAll lets go of the lock, the table is empty, also of tunnels
   that were opened after it began; an Open that gets the lock later makes
   an entry that survives the end of the session.                          *)
CloseAllEmptiesTable ==
    [][\A w \in Callers :
          pc[w] = "next" /\ pc'[w] = "closeClients" => table' = {}]_vars

(* A tunnel of the table accepts connections, or will: its loop does not end
   before it is closed, whatever Accept returns.                           *)
LoopOutlivesNoTunnel ==
    \A t \in table \ closed : loop[t] # "end"

(* The loop of a closed tunnel ends, also when it was closed before the loop
   began.                                                                  *)
LoopEnds == \A t \in Tunnels : t \in closed ~> loop[t] = "end"

(* Once one side of a forwarded connection has ended, or its SSH connection
   has been closed, all three goroutines end.                              *)
Quiet(c) == serve[c] = "end" /\ \A d \in Directions : copier[c][d] \in {"none", "end"}

ForwardingEnds ==
    \A c \in Conns : (c \in cut \/ \E d \in Directions : copier[c][d] = "end") ~> Quiet(c)

(* Open, Close and Client.Close return: the two locks are never waited for
   in a circle.                                                            *)
CallsReturn == \A w \in Callers : pc[w] # "idle" ~> pc[w] = "idle"
=============================================================================
