------------------------------ MODULE MC_Lanes ------------------------------
(* What requests wait for, for TLC: the handlers of the lanes wait for       *)
(* permits, leases and relays, and callers of the memory broker for device   *)
(* memory.  The lanes see the broker only as a lease granted or denied and   *)
(* share no state with it, so a behaviour exercises one of the two: part,    *)
(* chosen initially, says which, and the variables of the other keep their   *)
(* initial value.                                                            *)
EXTENDS GatewayLanes

CONSTANTS Tenant, Pid, PidOf, Reported, Gateway, NLeases, NWaiters, Total, Keep, Ttl,
          JobLease, BlockMax, ForceTiers, Reserver, ReserveMb, WaitCap, Scratch, Idle,
          Renewing, NvmlFails

VARIABLES part, leases, waiters, tier_waiting, procs, reserved, tenant_pc, tenant_req,
          registered, table, dfree, waited, lid, mat, idle, scratch

vramVars == <<leases, waiters, tier_waiting, procs, reserved, tenant_pc, tenant_req,
              registered, table, dfree, waited, lid, mat, idle, scratch>>
allVars == <<part, vars, vramVars>>

Ask(l, n, b, e) == [lane |-> l, need |-> n, background |-> b, exclusive |-> e]

\* One request class per lane on a two-slot device, an exclusive proxy lane, and
\* background text, shared and exclusive
MCRequest ==
    {Ask("proxy", 1, FALSE, FALSE), Ask("proxy", 2, TRUE, TRUE),
     Ask("image", 2, FALSE, FALSE), Ask("llm", 1, FALSE, FALSE),
     Ask("llm", 1, TRUE, FALSE), Ask("llm", 2, TRUE, TRUE)}

\* Callers of the broker of one class with room for one at a time, with more
\* patience than the clock of the instance counts, all in the gateway
MCPatient == {[tier |-> 3, mb |-> 2, min |-> 2, wait |-> 1]}
InGateway == [t \in Tenant |-> Gateway]

Vram == INSTANCE OVram WITH
    Request <- MCPatient, waiting <- tier_waiting, pc <- tenant_pc, req <- tenant_req

LanesInit == part \in {"lanes", "vram"} /\ Init /\ Vram!Init

InLanes == part = "lanes" /\ UNCHANGED <<part, vramVars>>
InVram  == part = "vram"  /\ UNCHANGED <<part, vars>>

LanesNext == (InLanes /\ Next) \/ (InVram /\ Vram!Next)

(* The fairness of GatewayLanes and of OVram; the cfg gives two tenants the  *)
(* names of the lanes' threads, and fairness of the disjunction is fairness  *)
(* of both, because a behaviour exercises one part.                          *)
GoesOn(t) ==
    \/ InLanes /\ t \in Thread /\ Step(t)
    \/ InVram /\ Vram!Step(t)
LanesSpec ==
    /\ LanesInit /\ [][LanesNext]_allVars
    /\ \A t \in Tenant : WF_allVars(GoesOn(t)) /\ WF_allVars(InVram /\ Vram!FreeMemory(t))
    /\ []<><<InVram /\ Vram!Tick>>_allVars \/ []<>(part = "lanes" \/ Vram!Timeless)

-----------------------------------------------------------------------------
(* Properties, with those of GatewayLanes                                  *)

\* Callers of one class, all with patience, get their leases: nobody in the
\* broker's waiter list is passed over for ever (ovram.c)
WaiterServed == Vram!WaiterServed
=============================================================================
