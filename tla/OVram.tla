------------------------------- MODULE OVram -------------------------------
(***************************************************************************)
(* The device-memory broker of src/src/ovram.c: leases with a TTL, tiered  *)
(* floors, credit for memory a holder has already allocated, and a queue   *)
(* of waiting callers.                                                     *)
(*                                                                         *)
(* A locked section is one action.  What a caller reads outside the lock,  *)
(* the NVML process table and the device's free memory, is read in earlier *)
(* actions, so it is as old as the interleaving makes it when it is used.  *)
(* The monotonic clock is a Tick; one pass through the wait loop takes     *)
(* less than a tick, and `now` is read in the step that takes the lock.    *)
(*                                                                         *)
(* leases holds the active slots of v->leases in grant order: a slot's     *)
(* index is never compared, only how many are free.  waiters holds the     *)
(* used slots of v->waiters in the order of `since`.  Lease ids come from  *)
(* a counter and are only compared for equality: an id here is its holder  *)
(* and a number that tells the holder's leases apart.  Statistics and the  *)
(* owners table, which only feeds reports, are left out.                   *)
(*                                                                         *)
(* The tenants' own behaviour is the environment: a holder allocates up to *)
(* its lease while the lease is live and young, frees before it releases,  *)
(* and may crash, be late or renew.  Models that stay resident without a   *)
(* lease are idle memory from the start.  Memory is counted in units.      *)
(***************************************************************************)
EXTENDS Integers, Sequences, FiniteSets, FiniteSetsExt, Collections

CONSTANTS
    Tenant,     \* callers of the broker, each with at most one lease
    Pid,        \* processes that hold device memory
    PidOf,      \* the process a tenant allocates in
    Reported,   \* the tenants that pass their pid; the others pass 0
    Gateway,    \* the process whose idle models the pressure hook evicts
    Request,    \* tier, mb, min, wait of the calls the tenants make
    NLeases,    \* OVRAM_MAX_LEASES
    NWaiters,   \* OVRAM_MAX_WAITERS
    Total,      \* memory of the device
    Keep,       \* v->keep_free_mb
    Ttl,        \* the TTL of a lease, in ticks
    JobLease,   \* v->job_lease_s, in ticks
    BlockMax,   \* v->block_max_s, in ticks; 0 is no limit
    ForceTiers, \* tiers whose callers run without a lease they were refused
    Reserver, ReserveMb,  \* owners of declared growth, and what they declare
    WaitCap,    \* where waited stops counting: a longer wait never times out
    Scratch,    \* the most that unbrokered allocations take
    Idle,       \* memory of idle models the gateway starts with
    Renewing,   \* whether holders renew
    NvmlFails   \* whether the driver can be unreadable

TIER_PAID       == 0
TIER_SUB        == 1
TIER_FREE       == 2
TIER_BACKGROUND == 3
Tier == TIER_PAID..TIER_BACKGROUND

\* ovram_lease_wait returns at once for mb <= 0 and clamps min and tier
ASSUME RequestAssumption ==
    \A r \in Request : /\ r.tier \in Tier /\ r.mb \in Nat \ {0}
                       /\ r.min \in 0..r.mb /\ r.wait \in Nat
\* No comparison of waited changes its answer beyond the cap
ASSUME WaitCapAssumption == BlockMax = 0 \/ BlockMax < WaitCap
ASSUME PidAssumption == PidOf \in [Tenant -> Pid] /\ Reported \subseteq Tenant
ASSUME SizesAssumption ==
    /\ IsFiniteSet(Tenant) /\ IsFiniteSet(Reserver) /\ ReserveMb \subseteq Nat
    /\ {NLeases, NWaiters, Total, Keep, Ttl, JobLease, BlockMax, WaitCap, Scratch} \subseteq Nat
    /\ Idle \in 0..Total

VARIABLES
    leases,     \* v->leases
    waiters,    \* v->waiters, as the callers that own the slots
    waiting,    \* v->waiting, callers queued per tier
    procs,      \* v->procs and v->procs_valid
    reserved,   \* v->reservations
    pc,         \* where each tenant is
    req,        \* the arguments of its call
    registered, \* the callers whose local `registered` is set
    table,      \* a process table read and not yet stored
    dfree,      \* a device_free read and not yet used
    waited,     \* now - started, of a caller in the wait loop
    lid,        \* the lease id a tenant remembers
    mat,        \* what a tenant has allocated
    idle,       \* what the gateway's idle models occupy
    scratch     \* what unbrokered allocations occupy

broker == <<leases, waiters, waiting, procs, reserved, registered>>
device == <<mat, idle, scratch>>
locals == <<pc, req, table, dfree, waited, lid>>
vars == <<broker, device, locals>>

Max0(n) == IF n > 0 THEN n ELSE 0
Least(a, b) == IF a < b THEN a ELSE b

-----------------------------------------------------------------------------
(* The device as the driver sees it                                        *)

\* The entries of the NVML table that the broker ever looks up
Listed == {PidOf[t] : t \in Reported}
Usage == [p \in Listed |-> (IF p = Gateway THEN idle ELSE 0)
            + Sum(mat, {t \in Tenant : PidOf[t] = p})]
Allocated == idle + scratch + Sum(mat, Tenant)
Free == Total - Allocated

NoTable == [p \in Listed |-> 0]

-----------------------------------------------------------------------------
(* The broker's arithmetic, on a sequence ls of active leases              *)

floor_for_tier(tier) ==
    CASE tier = TIER_PAID -> Keep \div 4
      [] tier = TIER_SUB  -> Keep \div 2
      [] tier = TIER_FREE -> (Keep * 3) \div 4
      [] OTHER            -> Keep

\* proc_used_locked: -1 is "unknown"
proc_used_locked(t) ==
    IF t \in Reported /\ procs.valid THEN procs.used[PidOf[t]] ELSE -1

\* The leases of one reported process with a known base share its growth
SharesGrowth(l, m) == l.base >= 0 /\ m.base >= 0 /\ PidOf[l.owner] = PidOf[m.owner]
Growth(ls, l) ==
    LET sharing == {i \in DOMAIN ls : SharesGrowth(l, ls[i])}
    IN  Max0(procs.used[PidOf[l.owner]] - Min({ls[i].base : i \in sharing}))

\* The amounts of the leases
Amounts(ls) == [i \in DOMAIN ls |-> ls[i].mb]

\* charges_locked: earlier grants absorb growth first
Credit(ls, i) ==
    LET l == ls[i]
        earlier == {j \in 1..(i - 1) : SharesGrowth(l, ls[j])}
    IN  IF l.base < 0 THEN 0
        ELSE Least(l.mb, Max0(Growth(ls, l) - Sum(Amounts(ls), earlier)))
charges_locked(ls) == [i \in DOMAIN ls |-> ls[i].mb - Credit(ls, i)]

\* leased_mb_for_tier_locked: lower tiers count while they are young
Young(l) == l.age < JobLease
\* Seeded fault: lower tiers never count
leased_mb_for_tier_locked_OwnOnly(ls, tier) ==
    Sum(charges_locked(ls), {i \in DOMAIN ls : ls[i].tier <= tier})

leased_mb_for_tier_locked(ls, tier) ==
    Sum(charges_locked(ls), {i \in DOMAIN ls : ls[i].tier <= tier \/ Young(ls[i])})

reserved_mb_locked == Sum(reserved, Reserver)

headroom_locked(ls, tier, free) ==
    IF free < 0 THEN 0
    ELSE Max0(free - floor_for_tier(tier) - reserved_mb_locked
                   - leased_mb_for_tier_locked(ls, tier))

\* expire_locked
Live(ls) == SelectAt(ls, {i \in DOMAIN ls : ls[i].ttl > 0})

\* What a waiter needs: its minimum, or all of it when any amount would do
Need(t) == IF req[t].min > 0 THEN req[t].min ELSE req[t].mb

\* waiter_ahead_locked: a waiter of a higher tier, or of the same tier queued
\* earlier, that has not blocked for too long and that the leases could serve
\* Seeded fault: only higher tiers are ahead
QueuedBehind_Never(t, i) == FALSE

QueuedBehind(t, i) == \A j \in 1..i : waiters[j] # t
AheadOf(t, i) ==
    /\ waiters[i] # t
    /\ \/ req[waiters[i]].tier < req[t].tier
       \/ req[waiters[i]].tier = req[t].tier /\ QueuedBehind(t, i)
StillBlocks(ls, u, free) ==
    /\ BlockMax > 0 => waited[u] <= BlockMax
    /\ free >= 0 => Need(u) <= headroom_locked(ls, req[u].tier, free)
                               + Sum(Amounts(ls), DOMAIN ls)
waiter_ahead_locked(ls, t) ==
    \E i \in DOMAIN waiters : AheadOf(t, i) /\ StillBlocks(ls, waiters[i], dfree[t])

\* grant_locked: how much a call gets, 0 when it does not fit or no slot is free
SlotFree(ls) == Len(ls) < NLeases
grant_locked(ls, r, free) ==
    LET granted == Least(r.mb, headroom_locked(ls, r.tier, free))
    IN  IF granted >= r.min /\ SlotFree(ls) THEN granted ELSE 0
Granted(ls, t) == IF waiter_ahead_locked(ls, t) THEN 0 ELSE grant_locked(ls, req[t], dfree[t])

\* v->next_id++
\* Seeded fault: ids are reused as soon as their lease is gone
NewId_Slot(ls, t) ==
    <<CHOOSE u \in Tenant : TRUE,
      CHOOSE n \in 1..(NLeases + 1) : \A k \in DOMAIN ls : ls[k].id[2] # n>>

NewId(ls, t) ==
    <<t, CHOOSE n \in 1..(NLeases + 1) : \A k \in DOMAIN ls : ls[k].id # <<t, n>> >>
NewLease(ls, t, mb) ==
    [id |-> NewId(ls, t), owner |-> t, mb |-> mb, tier |-> req[t].tier,
     base |-> proc_used_locked(t), ttl |-> Ttl, age |-> 0]

-----------------------------------------------------------------------------
(* Where a tenant is:                                                      *)
(*   idle     not in the broker, with no lease and no memory            *)
(*   refresh, store   before and after it reads the NVML process table     *)
(*   measure, locked  before and after it reads the device's free memory   *)
(*   hook, sleep      blocked: in the pressure hook, in the timed wait     *)
(*   refused  ovram_lease_wait returned 0                                  *)
(*   frefresh, fstore, force   in ovram_lease_force                        *)
(*   held, forced     it was granted a lease, it took one                  *)
Looping == {"refresh", "store", "measure", "locked", "hook", "sleep"}
Forcing == {"frefresh", "fstore", "force"}
Holding == {"held", "forced"}
PC == Looping \cup Forcing \cup Holding \cup {"idle", "refused"}

NoId == <<>>
NoRequest == [tier |-> TIER_PAID, mb |-> 1, min |-> 0, wait |-> 0]

Init ==
    /\ leases = <<>> /\ waiters = <<>> /\ registered = {}
    /\ waiting = [k \in Tier |-> 0]
    /\ procs = [valid |-> FALSE, used |-> NoTable]
    /\ reserved = [o \in Reserver |-> 0]
    /\ pc = [t \in Tenant |-> "idle"]
    /\ req = [t \in Tenant |-> NoRequest]
    /\ table = [t \in Tenant |-> NoTable]
    /\ dfree = [t \in Tenant |-> -1]
    /\ waited = [t \in Tenant |-> 0]
    /\ lid = [t \in Tenant |-> NoId]
    /\ mat = [t \in Tenant |-> 0]
    /\ idle = Idle
    /\ scratch = 0

Goto(t, where) == pc' = [pc EXCEPT ![t] = where]

\* The call returns: its locals go
Return(t, where) ==
    /\ Goto(t, where)
    /\ req' = [req EXCEPT ![t] = IF where = "refused" THEN @ ELSE NoRequest]
    /\ dfree' = [dfree EXCEPT ![t] = -1]
    /\ waited' = [waited EXCEPT ![t] = 0]

\* The head of ovram_lease_wait
Ask(t, r) ==
    /\ pc[t] = "idle"
    /\ Goto(t, "refresh")
    /\ req' = [req EXCEPT ![t] = r]
    /\ UNCHANGED <<broker, device, table, dfree, waited, lid>>

\* refresh_procs: ogpu_processes outside the lock, then ovram_set_procs under it
RefreshRead(t) ==
    /\ pc[t] \in {"refresh", "frefresh"}
    /\ Goto(t, IF pc[t] = "refresh" THEN "store" ELSE "fstore")
    /\ table' = [table EXCEPT ![t] = Usage]
    /\ UNCHANGED <<broker, device, req, dfree, waited, lid>>

ovram_set_procs(t) ==
    /\ pc[t] \in {"store", "fstore"}
    /\ Goto(t, IF pc[t] = "store" THEN "measure" ELSE "force")
    /\ procs' = [valid |-> TRUE, used |-> table[t]]
    /\ table' = [table EXCEPT ![t] = NoTable]
    /\ UNCHANGED <<leases, waiters, waiting, reserved, registered, device,
                   req, dfree, waited, lid>>

\* n < 0: the last table that was read stays
RefreshFails(t) ==
    /\ NvmlFails /\ pc[t] \in {"refresh", "frefresh"}
    /\ Goto(t, IF pc[t] = "refresh" THEN "measure" ELSE "force")
    /\ UNCHANGED <<broker, device, req, table, dfree, waited, lid>>

\* device_free_mb_now
device_free_mb_now(t) ==
    /\ pc[t] = "measure"
    /\ \E f \in {Free} \cup (IF NvmlFails THEN {-1} ELSE {}) :
            dfree' = [dfree EXCEPT ![t] = f]
    /\ Goto(t, "locked")
    /\ UNCHANGED <<broker, device, req, table, waited, lid>>

-----------------------------------------------------------------------------
(* The locked section of ovram_lease_wait, by its three outcomes           *)

\* The caller leaves the queue
\* Seeded fault: the slot in the waiter table is kept
Leave_KeepsSlot(t) ==
    /\ registered' = registered \ {t}
    /\ waiting' = [waiting EXCEPT ![req[t].tier] = IF t \in registered THEN @ - 1 ELSE @]
    /\ waiters' = waiters

Leave(t) ==
    /\ registered' = registered \ {t}
    /\ waiting' = [waiting EXCEPT ![req[t].tier] = IF t \in registered THEN @ - 1 ELSE @]
    /\ waiters' = SelectAt(waiters, {i \in DOMAIN waiters : waiters[i] # t})

LeaseGranted(t) ==
    /\ pc[t] = "locked"
    /\ LET ls == Live(leases)
           lease == NewLease(ls, t, Granted(ls, t))
       IN  /\ Granted(ls, t) > 0
           /\ leases' = Append(ls, lease)
           /\ lid' = [lid EXCEPT ![t] = lease.id]
    /\ Leave(t)
    /\ Return(t, "held")
    /\ UNCHANGED <<procs, reserved, device, table>>

LeaseRefused(t) ==
    /\ pc[t] = "locked"
    /\ Granted(Live(leases), t) = 0 /\ waited[t] >= req[t].wait
    /\ leases' = Live(leases)
    /\ Leave(t)
    /\ Return(t, "refused")
    /\ UNCHANGED <<procs, reserved, device, table, lid>>

\* Registration: the counter always, a slot of the waiter table if one is left
Register(t) ==
    /\ registered' = registered \cup {t}
    /\ waiting' = [waiting EXCEPT ![req[t].tier] = IF t \in registered THEN @ ELSE @ + 1]
    /\ waiters' = IF t \notin registered /\ Len(waiters) < NWaiters
                  THEN Append(waiters, t) ELSE waiters
LeaseWaits(t) ==
    /\ pc[t] = "locked"
    /\ LET ls == Live(leases)
           deficit == Need(t) - headroom_locked(ls, req[t].tier, dfree[t])
       IN  /\ Granted(ls, t) = 0 /\ waited[t] < req[t].wait
           /\ leases' = ls
           /\ \/ deficit > 0 /\ Goto(t, "hook")
              \/ Goto(t, "sleep")  \* nothing missing, or next_pressure not reached
    /\ Register(t)
    /\ dfree' = [dfree EXCEPT ![t] = -1]
    /\ UNCHANGED <<procs, reserved, device, req, table, waited, lid>>

\* gpu_pressure evicts an idle model, or finds none it may evict
PressureFrees(t) ==
    /\ pc[t] = "hook" /\ idle > 0
    /\ idle' = 0
    /\ Goto(t, "refresh")
    /\ UNCHANGED <<broker, mat, scratch, req, table, dfree, waited, lid>>
PressureFreesNothing(t) ==
    /\ pc[t] = "hook"
    /\ Goto(t, "sleep")
    /\ UNCHANGED <<broker, device, req, table, dfree, waited, lid>>

\* pthread_cond_timedwait returns: a broadcast, or the poll of 0.2 s
Wake(t) ==
    /\ pc[t] = "sleep"
    /\ Goto(t, "refresh")
    /\ UNCHANGED <<broker, device, req, table, dfree, waited, lid>>

-----------------------------------------------------------------------------
(* The other entry points                                                  *)

\* The caller runs anyway, or gives up
ForceStart(t) ==
    /\ pc[t] = "refused" /\ req[t].tier \in ForceTiers
    /\ Goto(t, "frefresh")
    /\ UNCHANGED <<broker, device, req, table, dfree, waited, lid>>
GiveUp(t) ==
    /\ pc[t] = "refused"
    /\ Return(t, "idle")
    /\ UNCHANGED <<broker, device, table, lid>>

\* ovram_lease_force: no headroom asked for, but a slot is
ovram_lease_force(t) ==
    /\ pc[t] = "force"
    /\ LET ls == Live(leases)
           lease == NewLease(ls, t, req[t].mb)
       IN  IF SlotFree(ls)
           THEN /\ leases' = Append(ls, lease)
                /\ lid' = [lid EXCEPT ![t] = lease.id]
                /\ Return(t, "forced")
           ELSE leases' = ls /\ lid' = lid /\ Return(t, "idle")
    /\ UNCHANGED <<waiters, waiting, procs, reserved, registered, device, table>>

\* ovram_release: by id, found or not; the holder has freed its memory
ovram_release(t) ==
    /\ pc[t] \in Holding /\ mat[t] = 0
    /\ leases' = SelectAt(leases, {i \in DOMAIN leases : leases[i].id # lid[t]})
    /\ lid' = [lid EXCEPT ![t] = NoId]
    /\ Goto(t, "idle")
    /\ UNCHANGED <<waiters, waiting, procs, reserved, registered, device,
                   req, table, dfree, waited>>

\* ovram_renew
ovram_renew(t) ==
    /\ Renewing /\ pc[t] \in Holding
    /\ LET ls == Live(leases)
       IN  leases' = [i \in DOMAIN ls |->
            IF ls[i].id = lid[t] THEN [ls[i] EXCEPT !.ttl = Ttl] ELSE ls[i]]
    /\ UNCHANGED <<waiters, waiting, procs, reserved, registered, device, locals>>

\* ovram_snapshot, ovram_headroom: refresh the table, expire, report
ovram_snapshot ==
    /\ \E u \in {Usage, procs.used} :
            procs' = IF u = procs.used THEN procs ELSE [valid |-> TRUE, used |-> u]
    /\ leases' = Live(leases)
    /\ <<procs, leases>>' # <<procs, leases>>
    /\ UNCHANGED <<waiters, waiting, reserved, registered, device, locals>>

\* ovram_reserve replaces an owner's figure
ovram_reserve(o, mb) ==
    /\ reserved' = [reserved EXCEPT ![o] = mb]
    /\ UNCHANGED <<leases, waiters, waiting, procs, registered, device, locals>>

-----------------------------------------------------------------------------
(* The tenants and the device                                              *)

HoldsLive(t, l) == l.owner = t /\ l.id = lid[t] /\ l.ttl > 0

\* A holder allocates within its lease, while the lease is live and young
Materialise(t) ==
    /\ pc[t] \in Holding /\ Free > 0
    /\ \E i \in DOMAIN leases :
            HoldsLive(t, leases[i]) /\ Young(leases[i]) /\ mat[t] < leases[i].mb
    /\ mat' = [mat EXCEPT ![t] = @ + 1]
    /\ UNCHANGED <<broker, idle, scratch, locals>>
FreeMemory(t) ==
    /\ pc[t] \in Holding /\ mat[t] > 0
    /\ mat' = [mat EXCEPT ![t] = 0]
    /\ UNCHANGED <<broker, idle, scratch, locals>>
\* The process dies with its memory and its ids; the leases stay
Crash(t) ==
    /\ pc[t] \in Holding
    /\ mat' = [mat EXCEPT ![t] = 0]
    /\ lid' = [lid EXCEPT ![t] = NoId]
    /\ Goto(t, "idle")
    /\ UNCHANGED <<broker, idle, scratch, req, table, dfree, waited>>
\* Unbrokered allocations come and go
ScratchChanges ==
    /\ \E s \in 0..Scratch : s # scratch /\ s <= Free + scratch /\ scratch' = s
    /\ UNCHANGED <<broker, mat, idle, locals>>

\* The monotonic clock
Older(l) == [l EXCEPT !.ttl = Max0(@ - 1), !.age = Least(@ + 1, JobLease)]
Tick ==
    /\ \A t \in Tenant : pc[t] \in Holding \cup {"idle", "sleep", "refused"}
    /\ leases' = [i \in DOMAIN leases |-> Older(leases[i])]
    /\ waited' = [t \in Tenant |->
            IF pc[t] = "sleep" THEN Least(waited[t] + 1, WaitCap) ELSE waited[t]]
    /\ <<leases, waited>>' # <<leases, waited>>
    /\ UNCHANGED <<waiters, waiting, procs, reserved, registered, device,
                   pc, req, table, dfree, lid>>

Step(t) ==
    \/ RefreshRead(t) \/ RefreshFails(t) \/ ovram_set_procs(t) \/ device_free_mb_now(t)
    \/ LeaseGranted(t) \/ LeaseRefused(t) \/ LeaseWaits(t)
    \/ PressureFrees(t) \/ PressureFreesNothing(t) \/ Wake(t)
    \/ ForceStart(t) \/ GiveUp(t) \/ ovram_lease_force(t)
HolderStep(t) == ovram_release(t) \/ FreeMemory(t)

Next ==
    \/ \E t \in Tenant : \/ \E r \in Request : Ask(t, r)
                         \/ Step(t) \/ HolderStep(t)
                         \/ ovram_renew(t) \/ Materialise(t) \/ Crash(t)
    \/ \E o \in Reserver, mb \in ReserveMb : ovram_reserve(o, mb)
    \/ ovram_snapshot \/ ScratchChanges \/ Tick

Spec == Init /\ [][Next]_vars

\* Time passes.  Tick waits for passes through the loop to end while every
\* poll starts a new one, so weak fairness of Tick would not say so.
Timeless ==
    /\ \A i \in DOMAIN leases : Older(leases[i]) = leases[i]
    /\ \A t \in Tenant : pc[t] = "sleep" => waited[t] = WaitCap
TimePasses == []<><<Tick>>_vars \/ []<>Timeless

\* A caller in the broker goes on and a holder frees what it allocated; a lease
\* need not be released, its TTL ends it
FairSpec ==
    /\ Spec /\ TimePasses
    /\ \A t \in Tenant : WF_vars(Step(t)) /\ WF_vars(FreeMemory(t))

-----------------------------------------------------------------------------
(* Properties                                                              *)

\* The broker's tables stay within their bounds: no more leases than slots, no
\* more waiters than entries, every id in use once (ovram.c 393-428, 528-541).
Lease == [id : Tenant \X Nat, owner : Tenant, mb : Nat \ {0}, tier : Tier,
          base : Nat \cup {-1}, ttl : 0..Ttl, age : 0..JobLease]
TypeOK ==
    /\ leases \in Seq(Lease) /\ Len(leases) <= NLeases
    /\ \A i, j \in DOMAIN leases : leases[i].id = leases[j].id => i = j
    /\ waiters \in Seq(Tenant) /\ Len(waiters) <= NWaiters
    /\ waiting \in [Tier -> Nat] /\ registered \subseteq Tenant
    /\ procs \in [valid : BOOLEAN, used : [Listed -> Nat]]
    /\ reserved \in [Reserver -> Nat]
    /\ pc \in [Tenant -> PC]
    /\ table \in [Tenant -> [Listed -> Nat]]
    /\ dfree \in [Tenant -> Nat \cup {-1}]
    /\ waited \in [Tenant -> 0..WaitCap]
    /\ lid \in [Tenant -> (Tenant \X Nat) \cup {NoId}] /\ mat \in [Tenant -> Nat]
    /\ idle \in Nat /\ scratch \in Nat

\* A number a tenant may rely on until the lease expires (ovram.h 20-23): what
\* the live leases promise and their holders have not allocated yet is free on
\* the device, or taken by callers that forced their way in.  A standing
\* reservation that a paid caller may squeeze (a lease of a lower tier older
\* than job_lease_s) and a forced lease promise nothing.
Promising == {i \in DOMAIN leases :
    LET l == leases[i]
    IN  /\ HoldsLive(l.owner, l) /\ pc[l.owner] = "held"
        /\ l.tier = TIER_PAID \/ Young(l)}
Overdraft == Sum(mat, {t \in Tenant : pc[t] = "forced"})
NoOvercommit ==
    Sum([i \in Promising |-> leases[i].mb - mat[leases[i].owner]], Promising)
        <= Free + Overdraft

\* The queue counters and the waiter table say who is waiting (ovram.c 502-541):
\* a caller that left, by grant or by timeout, blocks nobody any more.
WaitersMatch ==
    /\ registered \subseteq {t \in Tenant : pc[t] \in Looping}
    /\ \A k \in Tier : waiting[k] = Cardinality({t \in registered : req[t].tier = k})
    /\ \A i \in DOMAIN waiters : waiters[i] \in registered
    /\ \A i, j \in DOMAIN waiters : waiters[i] = waiters[j] => i = j

\* The broker's tables stay within their sizes and say who waits.
TablesSound == TypeOK /\ WaitersMatch

\* A lease ends by its holder's release or by its TTL, never by another
\* tenant's late release of an id it lost to expiry (ovram.c 575-591).
EndsByHolderOrTtl ==
    [][\A i \in DOMAIN leases :
        LET l == leases[i]
        IN  (l.ttl > 0 /\ \A j \in DOMAIN leases' : leases'[j].id # l.id)
                => lid[l.owner] = l.id /\ lid'[l.owner] = NoId]_vars

\* A caller that queues is served, although others of its tier ask again and
\* again, holders crash and idle memory has to be evicted: the same-tier rule
\* of waiter_ahead_locked (ovram.c 354-359).
WaiterServed == \A t \in Tenant : t \in registered ~> pc[t] = "held"
=============================================================================
