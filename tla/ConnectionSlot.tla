--------------------------- MODULE ConnectionSlot ---------------------------
(***************************************************************************)
(* What internal/sshclient/client.go promises to the calls that share one  *)
(* Client: a slot that holds the newest connection, into which any call    *)
(* may put a newer one, and from which every call takes a connection that  *)
(* has been vouched for.  How EnsureConnected, Connect, SSH and SFTP keep  *)
(* the promise, with which locks and in how many steps, is left to Client. *)
(*                                                                         *)
(* Connections are numbered in the order in which they are made; 0 stands  *)
(* for none.                                                               *)
(***************************************************************************)
EXTENDS Naturals

CONSTANTS
    Users,   \* the calls that share the slot
    Last     \* the number of the last connection

VARIABLES
    newest,  \* the connection in the slot
    floor,   \* the connection a user has been vouched for
    taken    \* the connection a user works with

slotVars == <<newest, floor, taken>>

Connections == 1 .. Last

Init ==
    /\ newest \in {0} \cup Connections
    /\ floor = [u \in Users |-> 0]
    /\ taken = [u \in Users |-> 0]

(* A user makes a newer connection, which vouches for itself.              *)
Install(u) ==
    /\ newest' \in {c \in Connections : c > newest}
    /\ floor' = [floor EXCEPT ![u] = newest']
    /\ UNCHANGED taken

(* A user learns that a connection works; it never accepts an older one
   than it has accepted before, nor one that has not been in the slot.     *)
Vouch(u) ==
    /\ \E c \in floor[u] .. newest : floor' = [floor EXCEPT ![u] = c]
    /\ UNCHANGED <<newest, taken>>

(* It takes what is in the slot at that moment or was not long ago: never
   an older connection than the one vouched for, and never none.           *)
Take(u) ==
    /\ floor[u] # 0
    /\ \E c \in floor[u] .. newest : taken' = [taken EXCEPT ![u] = c]
    /\ UNCHANGED <<newest, floor>>

Leave(u) ==
    /\ floor' = [floor EXCEPT ![u] = 0]
    /\ taken' = [taken EXCEPT ![u] = 0]
    /\ UNCHANGED newest

Next == \E u \in Users : Install(u) \/ Vouch(u) \/ Take(u) \/ Leave(u)

Spec == Init /\ [][Next]_slotVars
=============================================================================
