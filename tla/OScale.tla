------------------------------- MODULE OScale -------------------------------
(***************************************************************************)
(* Remote capacity: the rent policy of src/src/oscale.c and the controller *)
(* thread of src/src/ocapacity.c that asks it, lane by lane, every Poll.   *)
(* Times are ages: of an instance since it was rented, of its last use, of *)
(* the lane's last action, all counted from one moment per pass (now_s).   *)
(***************************************************************************)
EXTENDS Integers, FiniteSets, FiniteSetsExt

CONSTANTS
    NLanes, NInstances,      \* lanes, OSCALE_MAX_INSTANCES
    TierList,                \* what the operator lists as the lane's tiers, words
    UpDepth,                 \* scale_up_queue_depth
    MaxInstances, MaxSpend,  \* max_instances, max_usd_hr (0: no limit)
    Price, Revenue, Margin,  \* of an instance-hour, of a request, required ratio
    HourCap,                 \* requests an instance serves in an hour
    Cooldown,
    IdleLimit, InstanceTtl,  \* idle_scale_down_s, max_instance_ttl_s (0: no limit)
    Poll, WarmTime,          \* wait between two passes, longest answer of the control plane
    MaxDepth                 \* bound: queued requests of one tier

ScaleAssumption ==
    /\ NLanes \in Nat \ {0} /\ NInstances \in Nat \ {0} /\ {UpDepth, MaxInstances, MaxSpend} \subseteq Nat
    /\ {Price, Revenue, Margin, HourCap, Cooldown, IdleLimit, InstanceTtl, Poll, WarmTime, MaxDepth} \subseteq Nat
    /\ TierList \subseteq STRING

VARIABLES
    insts,    \* instances of each lane: "none", "warming" or "ready", age, time since last use
    acted,    \* time since each lane's last action, LongAgo at most
    waits,    \* some eligible request once waited scale_up_queue_ms (queue_ms_max never falls)
    ctl,      \* the controller: "wait", "lane", "warm", "ended"
    cur,      \* lane of the pass, and the slot it warms
    since,    \* time since the pass began, or since the controller waits
    running   \* capacity->running

scaleVars == <<insts, acted, waits, ctl, cur, since, running>>

SLane == 1..NLanes
SSlot == 1..NInstances
ScaleTier == {"paid", "sub", "free", "background"}
LongAgo == Cooldown + NLanes * WarmTime
NoInst == [is |-> "none", age |-> 0, idle |-> 0]

\* A word that names no tier does not widen the mask, an empty mask is the paid tier
PaidIfNone(mask) == IF mask = {} THEN {"paid"} ELSE mask
parse_tier_mask == PaidIfNone(TierList \cap ScaleTier)
\* oscale_add_lane: background never rents
Eligible == PaidIfNone(parse_tier_mask \ {"background"})

ScaleInit ==
    /\ insts = [l \in SLane |-> [i \in SSlot |-> NoInst]]
    /\ acted = [l \in SLane |-> LongAgo] /\ waits = FALSE
    /\ ctl = "wait" /\ cur = [lane |-> 1, slot |-> 1] /\ since = 0 /\ running = TRUE

Rented(l) == {i \in SSlot : insts[l][i].is # "none"}
\* Every comparison is with the time at which the pass began
Aged(t) == t - since

-----------------------------------------------------------------------------
(* oscale_decide                                                           *)

\* Seeded fault: an instance in use is kept past its lifetime
release_candidate_Busy(l) ==
    {i \in Rented(l) : IdleLimit > 0 /\ Aged(insts[l][i].idle) >= IdleLimit}
\* oscale_release_candidate: the first past its lifetime, else the one idle longest
release_candidate(l) ==
    LET old == {i \in Rented(l) : InstanceTtl > 0 /\ Aged(insts[l][i].age) >= InstanceTtl}
        idle == {i \in Rented(l) : IdleLimit > 0 /\ Aged(insts[l][i].idle) >= IdleLimit}
        longest == {i \in idle : \A k \in idle : insts[l][k].idle <= insts[l][i].idle}
    IN IF old # {} THEN {Min(old)} ELSE IF idle # {} THEN {Min(longest)} ELSE {}

\* oscale_rent_is_justified, of the demand the rented instances leave (backlog may be negative)
Justified(backlog) ==
    /\ Price > 0
    /\ Max({0, Min({backlog, HourCap})}) * Revenue >= Price * Margin
eligible_depth(depth) == MapThenSumSet(LAMBDA t : depth[t], Eligible)
ShouldRent(l, depth, free, rate) ==
    LET d == eligible_depth(depth) n == Cardinality(Rented(l)) IN
    /\ d > 0 /\ free = 0
    /\ d >= UpDepth /\ waits
    /\ n < MaxInstances /\ n < NInstances
    /\ MaxSpend > 0 => (n + 1) * Price <= MaxSpend
    /\ Justified(d + rate - n * HourCap)
    /\ Aged(acted[l]) >= Cooldown

-----------------------------------------------------------------------------
(* controller_main and ocapacity_tick                                      *)

NextLane == IF cur.lane < NLanes THEN ctl' = "lane" /\ cur' = [cur EXCEPT !.lane = @ + 1] /\ UNCHANGED since
            ELSE ctl' = "wait" /\ cur' = [lane |-> 1, slot |-> 1] /\ since' = 0
TickStart ==
    /\ ctl = "wait" /\ running /\ since = Poll
    /\ ctl' = "lane" /\ since' = 0
    /\ UNCHANGED <<insts, acted, waits, cur, running>>

\* oscale_release_instance
Release(l, i) == insts' = [insts EXCEPT ![l][i] = NoInst] /\ acted' = [acted EXCEPT ![l] = since]
TickDown(i) ==
    /\ ctl = "lane" /\ i \in release_candidate(cur.lane)
    /\ Release(cur.lane, i)
    /\ NextLane
    /\ UNCHANGED <<waits, running>>
begin_instance(l, i) ==
    /\ insts' = [insts EXCEPT ![l][i] = [is |-> "warming", age |-> since, idle |-> since]]
    /\ acted' = [acted EXCEPT ![l] = since]
instance_ready(l, i) == insts' = [insts EXCEPT ![l][i] = [@ EXCEPT !.is = "ready", !.idle = since]]
\* The instance begins and the warm request goes out
TickUp(depth, free, rate) ==
    /\ ctl = "lane" /\ release_candidate(cur.lane) = {}
    /\ ShouldRent(cur.lane, depth, free, rate)
    /\ LET i == Min(SSlot \ Rented(cur.lane)) IN
       begin_instance(cur.lane, i) /\ cur' = [cur EXCEPT !.slot = i]
    /\ ctl' = "warm"
    /\ UNCHANGED <<waits, since, running>>
TickHold(depth, free, rate) ==
    /\ ctl = "lane" /\ release_candidate(cur.lane) = {}
    /\ ~ShouldRent(cur.lane, depth, free, rate)
    /\ NextLane
    /\ UNCHANGED <<insts, acted, waits, running>>
\* warm_via_appnz is answered with a prediction id
Warmed ==
    /\ ctl = "warm"
    /\ instance_ready(cur.lane, cur.slot)
    /\ NextLane
    /\ UNCHANGED <<acted, waits, running>>
WarmFails ==
    /\ ctl = "warm"
    /\ Release(cur.lane, cur.slot)
    /\ NextLane
    /\ UNCHANGED <<waits, running>>

-----------------------------------------------------------------------------
(* Around the controller                                                   *)

\* ocapacity_overflow_endpoint, from a request's thread: the first ready instance is used
UseInstance(l, t) ==
    /\ t \in Eligible /\ ctl # "ended"
    /\ LET up == {i \in SSlot : insts[l][i].is = "ready"} IN
       up # {} /\ insts' = [insts EXCEPT ![l][Min(up)].idle = 0]
    /\ UNCHANGED <<acted, waits, ctl, cur, since, running>>
\* The scheduler serves an eligible request that waited long
LongWait ==
    /\ ~waits
    /\ waits' = TRUE
    /\ UNCHANGED <<insts, acted, ctl, cur, since, running>>
\* ocapacity_stop: the controller is joined, then everything is released
StopCapacity ==
    /\ running
    /\ running' = FALSE
    /\ UNCHANGED <<insts, acted, waits, ctl, cur, since>>
EndCapacity ==
    /\ ~running /\ ctl = "wait"
    /\ ctl' = "ended"
    /\ insts' = [l \in SLane |-> [i \in SSlot |-> NoInst]]
    /\ UNCHANGED <<acted, waits, cur, since, running>>
\* One unit of time: the waits of the controller are timed, the rest of a pass is quick
PassTime ==
    /\ \/ ctl = "wait" /\ running /\ since < Poll
       \/ ctl = "warm" /\ since < cur.lane * WarmTime
    /\ since' = since + 1
    /\ insts' = [l \in SLane |-> [i \in SSlot |->
                   IF insts[l][i].is = "none" THEN NoInst
                   ELSE [insts[l][i] EXCEPT !.age = @ + 1, !.idle = @ + 1]]]
    /\ acted' = [l \in SLane |-> Min({acted[l] + 1, LongAgo})]
    /\ UNCHANGED <<waits, ctl, cur, running>>

ScaleNext ==
    \/ TickStart \/ Warmed \/ WarmFails \/ LongWait \/ StopCapacity \/ EndCapacity \/ PassTime
    \/ \E i \in SSlot : TickDown(i)
    \/ \E depth \in [ScaleTier -> 0..MaxDepth], free \in 0..1, rate \in {0, NInstances * HourCap} :
         TickUp(depth, free, rate) \/ TickHold(depth, free, rate)
    \/ \E l \in SLane, t \in ScaleTier : UseInstance(l, t)
ScaleSpec == ScaleInit /\ [][ScaleNext]_scaleVars

-----------------------------------------------------------------------------
(* Properties                                                              *)

\* No instance is billed forever: it goes no later than its lifetime and as many passes
\* as the lane has instances, each delayed by the warm requests of every lane and the
\* last by those of the lanes before it, whatever traffic keeps it in use
\* (oscale_release_candidate, one release per lane and pass).
RentBounded ==
    InstanceTtl > 0 =>
      \A l \in SLane, i \in SSlot :
        insts[l][i].age <= InstanceTtl + NInstances * (Poll + NLanes * WarmTime)
                             + (NLanes - 1) * WarmTime
=============================================================================
