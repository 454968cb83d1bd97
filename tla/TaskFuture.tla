----------------------------- MODULE TaskFuture -----------------------------
(***************************************************************************)
(* What RunCommand and the task registry promise about a command           *)
(* (internal/sshclient/exec.go, internal/sshclient/tasks.go): a future.    *)
(* It settles once: it has ended with an exit code, or its result is lost, *)
(* since nothing that shows it has reached the client.  Whoever started it *)
(* is told once: the result, if it has ended, some code, if its result is  *)
(* lost, or that it goes on, if others can find it.  Its end is announced  *)
(* once, after it has settled, either with the result or after its starter *)
(* has been told that it goes on.                                          *)
(***************************************************************************)
EXTENDS Naturals

CONSTANTS
    Futures,    \* the commands
    Codes,      \* exit codes
    NoCode      \* there is none

VARIABLES
    state,      \* of each future
    result,     \* exit code with which it has settled
    listed,     \* the futures others can find
    told,       \* what its starter has been told
    announced   \* how often its end has been announced

futureVars == <<state, result, listed, told, announced>>

Settled(f) == state[f] \in {"ended", "lost"}

Init ==
    /\ state = [f \in Futures |-> "unborn"]
    /\ result = [f \in Futures |-> NoCode]
    /\ listed = {}
    /\ told = [f \in Futures |-> [kind |-> "none", code |-> NoCode]]
    /\ announced = [f \in Futures |-> 0]

Begin(f) ==
    /\ state[f] = "unborn"
    /\ state' = [state EXCEPT ![f] = "pending"]
    /\ UNCHANGED <<result, listed, told, announced>>

List(f) ==
    /\ state[f] # "unborn"
    /\ listed' = listed \cup {f}
    /\ UNCHANGED <<state, result, told, announced>>

Settle(f) ==
    /\ state[f] = "pending"
    /\ \/ /\ state' = [state EXCEPT ![f] = "ended"]
          /\ \E c \in Codes : result' = [result EXCEPT ![f] = c]
       \/ /\ state' = [state EXCEPT ![f] = "lost"]
          /\ \E c \in Codes \cup {NoCode} : result' = [result EXCEPT ![f] = c]
    /\ UNCHANGED <<listed, told, announced>>

(* The starter gets a number by which the future can be found.             *)
Ticket(f) ==
    /\ told[f].kind = "none" /\ f \in listed
    /\ told' = [told EXCEPT ![f] = [kind |-> "async", code |-> NoCode]]
    /\ UNCHANGED <<state, result, listed, announced>>

(* The starter gets the result, which ends the future.                     *)
Answer(f) ==
    /\ told[f].kind = "none" /\ Settled(f) /\ announced[f] = 0
    /\ \E c \in Codes :
          /\ state[f] = "ended" => c = result[f]
          /\ told' = [told EXCEPT ![f] = [kind |-> "done", code |-> c]]
    /\ announced' = [announced EXCEPT ![f] = 1]
    /\ UNCHANGED <<state, result, listed>>

(* The end of a future that went on.                                       *)
Announce(f) ==
    /\ told[f].kind = "async" /\ Settled(f) /\ announced[f] = 0
    /\ announced' = [announced EXCEPT ![f] = 1]
    /\ UNCHANGED <<state, result, listed, told>>

Next == \E f \in Futures : Begin(f) \/ List(f) \/ Settle(f) \/ Ticket(f)
                           \/ Answer(f) \/ Announce(f)

Spec == Init /\ [][Next]_futureVars
=============================================================================
