--------------------------- MODULE AccessRequests ---------------------------
(***************************************************************************)
(* What swfdec_player_allow_or_load promises to whoever asks for access to *)
(* another host: a request that no policy file allows yet waits for every  *)
(* policy file that loads at that time, the requests that wait are         *)
(* answered in the order in which they were made, and the answer is        *)
(* whether a file that has arrived by then allows the request.             *)
(***************************************************************************)
EXTENDS Naturals

CONSTANTS
    Clients,        \* who asks, once each
    Hosts,          \* what they want to access
    Permission      \* what the access matrix says about a host

VARIABLES
    wants,          \* the host that each client asks for
    waiting,        \* the clients without an answer
    needs,          \* the policy files that each client still waits for
    ticket,         \* the order in which the clients had to wait
    running,        \* the policy files that are being loaded
    granted,        \* the hosts that some policy file allows to access
    answer          \* "none", "yes" or "no" for each client

vars == <<wants, waiting, needs, ticket, running, granted, answer>>

Answer(c, allow) ==
    answer' = [answer EXCEPT ![c] = IF allow THEN "yes" ELSE "no"]

Init == /\ wants \in [Clients -> Hosts]
        /\ waiting = {}
        /\ needs = [c \in Clients |-> {}]
        /\ ticket = [c \in Clients |-> 0]
        /\ running = {}
        /\ granted = {}
        /\ answer = [c \in Clients |-> "none"]

\* One more policy file is being loaded.
Starts == \E f \in running' : f \notin running /\ running' = running \union {f}

\* A policy file starts to load without a request.
Load == /\ Starts
        /\ UNCHANGED <<wants, waiting, needs, ticket, granted, answer>>

\* The answer is known without waiting: the matrix decides about the host, or
\* a policy file already allows to access it.
Immediate(c, allow) ==
    /\ c \notin waiting
    /\ answer[c] = "none"
    /\ IF allow THEN \/ Permission[wants[c]] = "yes"
                     \/ Permission[wants[c]] = "policy" /\ wants[c] \in granted
                ELSE Permission[wants[c]] = "no"
    /\ Answer(c, allow)
    /\ UNCHANGED <<wants, waiting, needs, ticket, running, granted>>

\* The client waits for what loads, and for a file of its own.
Wait(c) ==
    /\ c \notin waiting
    /\ answer[c] = "none"
    /\ Permission[wants[c]] = "policy"
    /\ wants[c] \notin granted
    /\ Starts
    /\ waiting' = waiting \union {c}
    /\ needs' = [needs EXCEPT ![c] = running']
    /\ ticket' = [ticket EXCEPT ![c] = ticket'[c]]
    /\ \A d \in waiting : ticket[d] < ticket'[c]
    /\ UNCHANGED <<wants, granted, answer>>

\* A policy file has arrived, or failed.
Finish(f, hosts) ==
    /\ running' = running \ {f}
    /\ granted' = granted \union hosts
    /\ needs' = [c \in Clients |-> needs[c] \ {f}]
    /\ UNCHANGED <<wants, waiting, ticket, answer>>

\* The one that has waited longest gets its answer.
Reply(c) ==
    /\ c \in waiting
    /\ needs[c] = {}
    /\ \A d \in waiting \ {c} : ticket[c] < ticket[d]
    /\ waiting' = waiting \ {c}
    /\ Answer(c, wants[c] \in granted)
    /\ UNCHANGED <<wants, needs, ticket, running, granted>>

Next == \/ Load
        \/ \E c \in Clients : \/ \E allow \in BOOLEAN : Immediate(c, allow)
                              \/ Wait(c)
                              \/ Reply(c)
        \/ \E f \in running, hosts \in SUBSET Hosts : Finish(f, hosts)

Spec == Init /\ [][Next]_vars
=============================================================================
