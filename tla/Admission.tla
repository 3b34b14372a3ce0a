------------------------------ MODULE Admission ------------------------------
(***************************************************************************)
(* What the admission scheduler promises its callers (src/include/osched.h),*)
(* without the waiter list, the mutex, tiers or time: the permits that are *)
(* out never exceed the slots, nobody is admitted past a waiter without    *)
(* queueing, and exclusive requests start on an idle device.  OSched       *)
(* implements this specification; GatewayLanes is built on it.             *)
(***************************************************************************)
EXTENDS Integers, FiniteSets

CONSTANTS Client, Slots

VARIABLES
    permits,  \* the permits each client has been granted and not returned
    alone,    \* the clients whose grant was exclusive
    waiting   \* the clients inside a blocking acquire

adm == <<permits, alone, waiting>>

\* The permits that are out, one element each
Out == {u \in Client \X (1..Slots) : u[2] <= permits[u[1]]}

Fits(n, exclusive) ==
    IF exclusive THEN \A c \in Client : permits[c] = 0
                 ELSE Cardinality(Out) + n <= Slots

Give(c, n, exclusive) ==
    /\ permits' = [permits EXCEPT ![c] = @ + n]
    /\ alone' = IF exclusive THEN alone \cup {c} ELSE alone

AdmissionInit == permits = [c \in Client |-> 0] /\ alone = {} /\ waiting = {}

\* Admission without waiting: nobody waits and the request fits
TryGrant(c, n, exclusive) ==
    /\ waiting = {} /\ Fits(n, exclusive)
    /\ Give(c, n, exclusive)
    /\ UNCHANGED waiting

\* A blocking acquire that is not admitted at once waits ...
Enqueue(c, n, exclusive) ==
    /\ ~(waiting = {} /\ Fits(n, exclusive))
    /\ waiting' = waiting \cup {c}
    /\ UNCHANGED <<permits, alone>>

\* ... until it is granted ...
Grant(c, n, exclusive) ==
    /\ c \in waiting /\ Fits(n, exclusive)
    /\ Give(c, n, exclusive)
    /\ waiting' = waiting \ {c}

\* ... or times out
Expire(c) ==
    /\ c \in waiting
    /\ waiting' = waiting \ {c}
    /\ UNCHANGED <<permits, alone>>

\* Permits come back
Return(c, n) ==
    /\ n <= permits[c]
    /\ permits' = [permits EXCEPT ![c] = @ - n]
    /\ alone' = alone \ {c}
    /\ UNCHANGED waiting

AdmissionNext ==
    \E c \in Client :
      \/ \E n \in 1..Slots, exclusive \in BOOLEAN :
           \/ TryGrant(c, n, exclusive)
           \/ Enqueue(c, n, exclusive)
           \/ Grant(c, n, exclusive)
      \/ Expire(c)
      \/ \E n \in 1..Slots : Return(c, n)

AdmissionSpec == AdmissionInit /\ [][AdmissionNext]_adm
=============================================================================
