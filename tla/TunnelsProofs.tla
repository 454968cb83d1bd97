---------------------------- MODULE TunnelsProofs ----------------------------
(***************************************************************************)
(* Proofs about Tunnels for any number of callers, tunnels and forwarded   *)
(* connections: the table and the listeners, the accept loops, the end of  *)
(* a session, and the channel between the goroutines of a connection.      *)
(***************************************************************************)
EXTENDS Tunnels, TLAPS

(* Who holds which lock.                                                   *)
InClose == {"next", "stop", "listener", "delete"}
LockInv ==
    \A w \in Callers :
        /\ pc[w] \in InClose <=> tmMu = w
        /\ pc[w] \in {"closeAll", "closeClients"} => clientMu = w
        /\ clientMu = w => pc[w] \in InClose \cup {"closeAll", "closeClients"}

(* A tunnel that has a listener and no entry yet belongs to one Open, and
   nobody has closed it.                                                   *)
OpenInv ==
    \A w \in Callers : pc[w] = "insert" =>
        /\ todo[w] \subseteq listening
        /\ todo[w] \cap (table \cup closed) = {}
        /\ \A v \in Callers \ {w} : pc[v] = "insert" => todo[v] \cap todo[w] = {}

(* Whoever holds tm.mu has the tunnels it still has to close in the table;
   if it closes the session, they are the table.                           *)
CloseInv ==
    \A w \in Callers : pc[w] \in InClose =>
        /\ todo[w] \subseteq table
        /\ pc[w] = "next" => Closing = {}
        /\ pc[w] = "delete" => Closing \cap listening = {}
        /\ clientMu = w => todo[w] = table

(* Listeners, flags and channels of the tunnels, as the loops find them.   *)
LoopInv ==
    /\ stopped \subseteq closed
    /\ table \ closed \subseteq listening
    /\ tmMu = Free => Closing = {}
    /\ \A t \in listening \ table :
          \E w \in Callers : pc[w] = "insert" /\ t \in todo[w]
    /\ \A t \in Tunnels : loop[t] = "end" => t \in closed

(* The channel of a connection holds one value for each copying goroutine
   that has ended.                                                         *)
HasSent(c, d) == IF copier[c][d] = "end" THEN 1 ELSE 0
SentInv ==
    \A c \in Conns :
        /\ sent[c] = HasSent(c, "out") + HasSent(c, "in")
        /\ serve[c] \in {"none", "ssh", "dial"} =>
              \A d \in Directions : copier[c][d] = "none"

IInv == TypeOK /\ LockInv /\ OpenInv /\ CloseInv /\ LoopInv /\ SentInv

-----------------------------------------------------------------------------
LEMMA InitIInv == Init => IInv
<1> SUFFICES ASSUME Init PROVE IInv
  OBVIOUS
<1>1. TypeOK
  BY DEF Init, TypeOK
<1>2. LockInv /\ OpenInv /\ CloseInv
  BY TunnelsAssumption DEF Init, LockInv, InClose, OpenInv, CloseInv
<1>3. LoopInv
  BY DEF Init, LoopInv, Closing
<1>4. SentInv
  BY DEF Init, SentInv, HasSent, Directions
<1> QED
  BY <1>1, <1>2, <1>3, <1>4 DEF IInv

(* Open and Close, as far as the table, the listeners and the locks go.    *)
LEMMA CallStep ==
    ASSUME IInv, NEW w \in Callers, Begin(w) \/ Advance(w)
    PROVE  TypeOK' /\ LockInv' /\ OpenInv' /\ CloseInv' /\ LoopInv'
<1> USE TunnelsAssumption DEF IInv
<1>1. CASE Listen(w)
  <2>1. TypeOK' /\ LockInv'
    BY <1>1 DEF Listen, Goto, About, forwards, TypeOK, LockInv, InClose
  <2>2. OpenInv' /\ CloseInv' /\ LoopInv'
    BY <1>1 DEF Listen, Goto, About, Opened, forwards, TypeOK, LockInv, InClose, OpenInv,
        CloseInv, LoopInv, Closing
  <2> QED
    BY <2>1, <2>2
<1>2. CASE Insert(w)
  <2>1. TypeOK' /\ LockInv'
    BY <1>2 DEF Insert, Goto, forwards, TypeOK, LockInv, InClose
  <2>2. OpenInv' /\ CloseInv' /\ LoopInv'
    BY <1>2 DEF Insert, Goto, forwards, TypeOK, LockInv, InClose, OpenInv, CloseInv,
        LoopInv, Closing
  <2> QED
    BY <2>1, <2>2
<1>3. CASE Spawn(w)
  <2>1. TypeOK' /\ LockInv'
    BY <1>3 DEF Spawn, Goto, About, tunnels, forwards, TypeOK, LockInv, InClose
  <2>2. OpenInv' /\ CloseInv' /\ LoopInv'
    BY <1>3 DEF Spawn, Goto, About, tunnels, forwards, TypeOK, LockInv, InClose, OpenInv,
        CloseInv, LoopInv, Closing
  <2> QED
    BY <2>1, <2>2
<1>4. CASE Close(w) \/ CloseAll(w)
  <2>1. TypeOK' /\ LockInv'
    BY SMTT(20), <1>4 DEF Close, CloseAll, Goto, About, tunnels, forwards, TypeOK, LockInv, InClose
  <2>2. OpenInv' /\ CloseInv' /\ LoopInv'
    BY <1>4 DEF Close, CloseAll, Goto, About, tunnels, forwards, TypeOK, LockInv, InClose,
        OpenInv, CloseInv, LoopInv, Closing
  <2> QED
    BY <2>1, <2>2
<1>5. CASE Disconnect(w) \/ CloseClients(w) \/ Unlock(w)
  <2>1. TypeOK' /\ LockInv'
    BY <1>5 DEF Disconnect, CloseClients, Unlock, Goto, tunnels, forwards, TypeOK,
        LockInv, InClose
  <2>2. OpenInv' /\ CloseInv' /\ LoopInv'
    BY <1>5 DEF Disconnect, CloseClients, Unlock, Goto, tunnels, forwards, TypeOK,
        LockInv, InClose, OpenInv, CloseInv, LoopInv, Closing
  <2> QED
    BY <2>1, <2>2
<1>6. CASE Mark(w)
  <2>1. TypeOK' /\ LockInv'
    BY <1>6 DEF Mark, Goto, forwards, TypeOK, LockInv, InClose, CloseInv
  <2>2. OpenInv' /\ CloseInv' /\ LoopInv'
    BY <1>6 DEF Mark, Goto, forwards, TypeOK, LockInv, InClose, OpenInv, CloseInv,
        LoopInv, Closing
  <2> QED
    BY <2>1, <2>2
<1>7. CASE Stop(w) \/ CloseListener(w)
  <2>1. TypeOK' /\ LockInv'
    BY <1>7 DEF Stop, CloseListener, Closing, Goto, forwards, TypeOK, LockInv, InClose
  <2>2. OpenInv' /\ CloseInv' /\ LoopInv'
    BY <1>7 DEF Stop, CloseListener, Goto, forwards, TypeOK, LockInv, InClose, OpenInv,
        CloseInv, LoopInv, Closing
  <2> QED
    BY <2>1, <2>2
<1>8. CASE Delete(w)
  <2>1. TypeOK' /\ LockInv'
    BY <1>8 DEF Delete, Closing, Goto, About, forwards, TypeOK, LockInv, InClose
  <2>2. OpenInv' /\ CloseInv' /\ LoopInv'
    BY <1>8 DEF Delete, Goto, About, forwards, TypeOK, LockInv, InClose, OpenInv, CloseInv,
        LoopInv, Closing
  <2> QED
    BY <2>1, <2>2
<1> QED
  BY <1>1, <1>2, <1>3, <1>4, <1>5, <1>6, <1>7, <1>8 DEF Begin, Advance

(* The accept loops.                                                       *)
LEMMA LoopStep ==
    ASSUME IInv, NEW t \in Tunnels, Accept(t) \/ AcceptFails(t) \/ forwardLoop(t)
    PROVE  TypeOK' /\ LockInv' /\ OpenInv' /\ CloseInv' /\ LoopInv' /\ SentInv'
<1> USE TunnelsAssumption DEF IInv
<1>1. CASE Accept(t)
  <2>1. TypeOK' /\ SentInv'
    BY <1>1 DEF Accept, tunnels, TypeOK, SentInv, HasSent
  <2>2. LockInv' /\ OpenInv' /\ CloseInv' /\ LoopInv'
    BY <1>1 DEF Accept, tunnels, LockInv, OpenInv, CloseInv, LoopInv, Closing
  <2> QED
    BY <2>1, <2>2
<1>2. CASE AcceptFails(t) \/ AcceptClosed(t)
  <2>1. TypeOK' /\ SentInv'
    BY <1>2 DEF AcceptFails, AcceptClosed, LoopTo, tunnels, forwards, TypeOK, SentInv,
        HasSent
  <2>2. LockInv' /\ OpenInv' /\ CloseInv' /\ LoopInv'
    BY <1>2 DEF AcceptFails, AcceptClosed, LoopTo, tunnels, TypeOK, LockInv, OpenInv,
        CloseInv, LoopInv, Closing
  <2> QED
    BY <2>1, <2>2
<1>3. CASE ReadFlag(t) \/ Select(t)
  <2>0. (\E l \in {"end", "select", "accept"} : loop' = [loop EXCEPT ![t] = l])
        /\ (listening' = listening \/ (listening' = listening \ {t} /\ t \in closed))
        /\ (loop'[t] = "end" => t \in closed)
    BY <1>3 DEF ReadFlag, Select, LoopTo, TypeOK, LoopInv
  <2>1. UNCHANGED <<table, closed, stopped, tmMu, clientMu, pc, todo, forwards>>
    BY <1>3 DEF ReadFlag, Select
  <2>2. TypeOK' /\ SentInv'
    BY <2>0, <2>1 DEF forwards, TypeOK, SentInv, HasSent
  <2>3. LockInv' /\ OpenInv' /\ CloseInv' /\ LoopInv'
    BY <2>0, <2>1 DEF TypeOK, LockInv, OpenInv, CloseInv, LoopInv, Closing
  <2> QED
    BY <2>2, <2>3
<1> QED
  BY <1>1, <1>2, <1>3 DEF forwardLoop

(* The goroutines of a connection.                                         *)
LEMMA ForwardStep ==
    ASSUME IInv, NEW c \in Conns,
           Forward(c) \/ \E d \in Directions : Copy(c, d) \/ SideEnds(c, d)
    PROVE  /\ TypeOK' /\ SentInv'
           /\ UNCHANGED <<tunnels, loop, tmMu, clientMu, pc, todo>>
<1> USE DEF IInv
<1>1. CASE Forward(c)
  <2>0. UNCHANGED <<tunnels, loop, tmMu, clientMu, pc, todo, sent, cut>>
    BY <1>1 DEF Forward, GetSsh, Dial, DialFails, Done
  <2>1. TypeOK'
    <3>1. serve' \in [Conns -> {"none", "ssh", "dial", "copy", "end"}]
      BY <1>1 DEF Forward, GetSsh, Dial, DialFails, Done, ServeTo, TypeOK
    <3>2. copier' \in [Conns -> [Directions -> {"none", "copy", "send", "end"}]]
      BY <1>1 DEF Forward, GetSsh, Dial, DialFails, Done, TypeOK
    <3> QED
      BY <2>0, <3>1, <3>2 DEF tunnels, TypeOK
  <2>2. SentInv'
    BY <1>1 DEF Forward, GetSsh, Dial, DialFails, Done, ServeTo, TypeOK, SentInv, HasSent,
        Directions
  <2> QED
    BY <2>0, <2>1, <2>2
<1>2. ASSUME NEW d \in Directions, Copy(c, d) \/ SideEnds(c, d)
      PROVE  /\ TypeOK' /\ SentInv'
             /\ UNCHANGED <<tunnels, loop, tmMu, clientMu, pc, todo>>
  <2>1. UNCHANGED <<tunnels, loop, tmMu, clientMu, pc, todo, serve, cut>>
    BY <1>2 DEF Copy, CopyBreaks, Send, SideEnds
  <2>2. CASE CopyBreaks(c, d) \/ SideEnds(c, d)
    <3>1. copier' = [copier EXCEPT ![c][d] = "send"] /\ copier[c][d] = "copy" /\ sent' = sent
      BY <2>2 DEF CopyBreaks, SideEnds, CopierTo
    <3>2. TypeOK'
      BY <2>1, <3>1 DEF tunnels, TypeOK
    <3>3. SentInv'
      BY <2>1, <3>1 DEF TypeOK, SentInv, HasSent, Directions
    <3> QED
      BY <2>1, <3>2, <3>3
  <2>3. CASE Send(c, d)
    <3>1. /\ copier' = [copier EXCEPT ![c][d] = "end"] /\ copier[c][d] = "send"
          /\ sent' = [sent EXCEPT ![c] = @ + 1] /\ sent[c] < 2
      BY <2>3 DEF Send, CopierTo
    <3>2. TypeOK'
      BY <2>1, <3>1 DEF tunnels, TypeOK
    <3>3. SentInv'
      BY <2>1, <3>1 DEF TypeOK, SentInv, HasSent, Directions
    <3> QED
      BY <2>1, <3>2, <3>3
  <2> QED
    BY <1>2, <2>2, <2>3 DEF Copy
<1> QED
  BY <1>1, <1>2

LEMMA NextIInv == IInv /\ [Next]_vars => IInv'
<1> SUFFICES ASSUME IInv, [Next]_vars PROVE IInv'
  OBVIOUS
<1>1. ASSUME NEW w \in Callers, Begin(w) \/ Advance(w) PROVE IInv'
  <2>1. TypeOK' /\ LockInv' /\ OpenInv' /\ CloseInv' /\ LoopInv'
    BY <1>1, CallStep
  <2>2. serve' = serve /\ copier' = copier /\ sent' = sent
    BY <1>1 DEF Begin, Advance, Listen, Close, Disconnect, Insert, Spawn, CloseAll, Mark,
        Stop, CloseListener, Delete, Unlock, CloseClients, forwards
  <2>3. SentInv'
    BY <2>2 DEF IInv, SentInv, HasSent
  <2> QED
    BY <2>1, <2>3 DEF IInv
<1>2. ASSUME NEW t \in Tunnels, Accept(t) \/ AcceptFails(t) \/ forwardLoop(t) PROVE IInv'
  BY <1>2, LoopStep DEF IInv
<1>3. ASSUME NEW c \in Conns,
             Forward(c) \/ \E d \in Directions : Copy(c, d) \/ SideEnds(c, d)
      PROVE  IInv'
  BY <1>3, ForwardStep DEF IInv, tunnels, LockInv, OpenInv, CloseInv, LoopInv, Closing
<1>4. CASE UNCHANGED vars
  BY <1>4 DEF vars, tunnels, forwards, IInv, TypeOK, LockInv, OpenInv, CloseInv, LoopInv,
      SentInv, HasSent, Closing
<1> QED
  BY <1>1, <1>2, <1>3, <1>4 DEF Next

LEMMA Invariance == Spec => []IInv
  BY InitIInv, NextIInv, PTL DEF Spec

-----------------------------------------------------------------------------
(* Every variable of Tunnels has its type.                                 *)
THEOREM TypeCorrect == Spec => []TypeOK
<1>1. IInv => TypeOK
  BY DEF IInv
<1> QED
  BY <1>1, Invariance, PTL

(* Outside Open and Close, the tunnels that remote_tunnel lists and can
   close are exactly those whose listeners accept connections.             *)
THEOREM ListedAreListening == Spec => []TableIsListeners
<1>1. IInv => TableIsListeners
  BY DEF IInv, LoopInv, Closing, TableIsListeners
<1> QED
  BY <1>1, Invariance, PTL

(* Whatever Accept returns, the loop of a tunnel ends only after Close has
   set its flag.                                                           *)
THEOREM LoopsOutlive == Spec => []LoopOutlivesNoTunnel
<1>1. IInv => LoopOutlivesNoTunnel
  BY DEF IInv, TypeOK, LoopInv, LoopOutlivesNoTunnel
<1> QED
  BY <1>1, Invariance, PTL

(* Client.Close lets go of the lock of the table only when it is empty.    *)
THEOREM SessionEndsTunnels == Spec => CloseAllEmptiesTable
<1>1. IInv /\ [Next]_vars =>
        [\A w \in Callers : pc[w] = "next" /\ pc'[w] = "closeClients" => table' = {}]_vars
  <2> SUFFICES ASSUME IInv, [Next]_vars, NEW w \in Callers,
                      pc[w] = "next", pc'[w] = "closeClients"
               PROVE  table' = {}
    BY DEF vars
  <2>1. Unlock(w)
    <3>1. PICK v \in Callers : Begin(v) \/ Advance(v)
      BY DEF Next, forwardLoop, Forward, Copy, Accept, AcceptFails, AcceptClosed, ReadFlag,
          Select, GetSsh, Dial, DialFails, Done, CopyBreaks, Send, SideEnds, vars
    <3>2. v = w
      BY <3>1 DEF IInv, TypeOK, Begin, Advance, Listen, Close, Disconnect, Insert, Spawn,
          CloseAll, Mark, Stop, CloseListener, Delete, Unlock, CloseClients, Goto
    <3> QED
      BY <3>1, <3>2 DEF IInv, TypeOK, Begin, Advance, Listen, Close, Disconnect, Insert,
          Spawn, CloseAll, Mark, Stop, CloseListener, Delete, Unlock, CloseClients, Goto
  <2>2. clientMu = w /\ todo[w] = {} /\ table' = table
    BY <2>1 DEF IInv, TypeOK, Unlock, Goto, tunnels
  <2> QED
    BY <2>2 DEF IInv, CloseInv, InClose
<1> QED
  BY <1>1, Invariance, PTL DEF Spec, CloseAllEmptiesTable

(* The channel on which the copying goroutines of a connection announce
   their end always has room for the one that sends: neither waits for a
   receiver that has gone after the first value.                           *)
SendHasRoom == \A c \in Conns, d \in Directions : copier[c][d] = "send" => sent[c] < 2

THEOREM SendNeverBlocks == Spec => []SendHasRoom
<1>1. IInv => SendHasRoom
  BY DEF IInv, TypeOK, SentInv, HasSent, SendHasRoom, Directions
<1> QED
  BY <1>1, Invariance, PTL
=============================================================================
