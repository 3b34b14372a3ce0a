----------------------------- MODULE MC_Progress -----------------------------
(* What threads of the gateway wait for, for TLC: the scheduler's callers    *)
(* wait for permits, and the HTTP server's reactor and worker for requests   *)
(* and locks.  The two share no state, so a behaviour exercises one of them: *)
(* part, chosen initially, says which, and the variables of the other keep   *)
(* their initial value.                                                      *)
EXTENDS OSched

CONSTANTS Conn, Reactor, Worker, None, Loopback, Fragment, MaxPending, InlineCap,
          MaxBuffer, HeapCap

VARIABLES part, running, joined, state, inbox, eof, buf, cap, own, armed, queue,
          all_lock, heap, idle, http_pc, at, old, todo

httpVars == <<running, joined, state, inbox, eof, buf, cap, own, armed, queue,
              all_lock, heap, idle, http_pc, at, old, todo>>
allVars == <<part, vars, httpVars>>

Http == INSTANCE OHttp WITH pc <- http_pc

ASSUME HttpAssumption == Http!ThreadAssumption /\ Http!BufferAssumption /\ Http!LoopbackAssumption

\* A paid stream against exclusive background
MCStarvation == {[tier |-> TIER_PAID, permits |-> 1, shared |-> FALSE],
                 [tier |-> TIER_BACKGROUND, permits |-> 2, shared |-> FALSE]}

ProgressInit == part \in {"sched", "http"} /\ Init /\ Http!Init

InSched == part = "sched" /\ UNCHANGED <<part, httpVars>>
InHttp  == part = "http"  /\ UNCHANGED <<part, vars>>

ProgressNext == (InSched /\ Next) \/ (InHttp /\ Http!Next)

\* A thread of either part goes on
GoesOn(t) ==
    \/ InSched /\ LoopStep(t)
    \/ InHttp /\ t \in Reactor /\ Http!ReactorStep(t)
    \/ InHttp /\ t \in Worker /\ Http!WorkerStep(t)
\* It gets the mutex for which it contends.  A thread is never at two of these
\* steps, and leaves each of them only by taking it, so that strong fairness of
\* the disjunction is strong fairness of each.
GetsLock(t) ==
    \/ InSched /\ Wake(t)
    \/ InSched /\ Release(t)
    \/ InHttp /\ t \in Reactor /\ Http!SweepLock(t)
    \/ InHttp /\ t \in Reactor \cup Worker /\ Http!Free(t)
\* Time passes, and epoll serves its ready list in turn
Turns ==
    \/ InSched /\ Tick
    \/ InHttp /\ \E r \in Reactor, c \in Conn : Http!EpollTake(r, c)

(* The fairness of OSched and of OHttp.  A behaviour exercises one part, so  *)
(* fairness of a disjunction of an action of each is fairness of both; the   *)
(* cfg gives the reactor and the worker the names of two scheduler threads.  *)
ProgressSpec ==
    /\ ProgressInit /\ [][ProgressNext]_allVars
    /\ \A t \in Thread : WF_allVars(GoesOn(t)) /\ SF_allVars(GetsLock(t))
    /\ SF_allVars(Turns)
    /\ WF_allVars(InHttp /\ Http!Join)

-----------------------------------------------------------------------------
(* Properties, with BackgroundServed of OSched                             *)

\* A request that has arrived reaches a handler, unless its connection is closed
\* or the server stops (ohttp.c 639-743)
RequestServed == Http!RequestServed
=============================================================================
