----------------------------- MODULE OResidency -----------------------------
(***************************************************************************)
(* Weight residency: the arbiter of src/src/oresidency.c, which decides    *)
(* from recent demand whose image model stays on the device, and the image *)
(* gateways that report to it (residency_main of src/src/main.c) and       *)
(* switch their context (osd_set_resident of src/src/backend_sd.c).        *)
(*                                                                         *)
(* Times are ages in ticks, capped where the code no longer tells them     *)
(* apart; demand is a small number that halves every tick.                 *)
(***************************************************************************)
EXTENDS Collections, FiniteSets, Functions

CONSTANTS
    Owner,                            \* image gateways, as a set
    Ranked,                           \* the same in the order of their slots
    Total,                            \* memory of the device
    Others,                           \* what the other tenants may hold
    ResidentMb, StreamMb, SavedMs,    \* what each claimant reports
    keep_free_mb, hysteresis_mb,
    min_hold, idle_release, claim_ttl, reserve_idle,   \* in ticks
    MaxBackoff,                       \* how often a cooldown doubles, 5
    MaxClaims,                        \* ORES_MAX_CLAIMS
    Weight,                           \* what a request adds to the demand
    MaxDemand,                        \* bound: demand of one claimant
    MaxTicks, MaxReports              \* bounds: time and the reports made

OwnerAssumption ==
    /\ IsFiniteSet(Owner) /\ Ranked \in Seq(Owner) /\ Range(Ranked) = Owner /\ IsInjective(Ranked)
    /\ ResidentMb \in [Owner -> Nat] /\ StreamMb \in [Owner -> Nat] /\ SavedMs \in [Owner -> Nat]
MemoryAssumption ==
    /\ Total \in Nat /\ Others \subseteq Nat /\ Others # {} /\ IsFiniteSet(Others)
    /\ keep_free_mb \in Nat /\ hysteresis_mb \in Nat
    /\ Weight \in Nat /\ MaxDemand \in Nat
TimeAssumption ==
    min_hold \in Nat \ {0} /\ idle_release \in Nat /\ claim_ttl \in Nat \ {0} /\ reserve_idle \in Nat

VARIABLES
    claims,     \* the ledger
    low_free,   \* readings of device_free in free_window_s: the lowest now and before
    other,      \* memory the other tenants hold
    ctx,        \* g_sd_resident of each gateway
    want,       \* g_sd_want: -1 none, 0 streamed, 1 resident
    busy,       \* who holds g_sd_lock: "no", a generation or the switch
    reqs,       \* g_rs.requests since the last report
    rpc,        \* where residency_main is
    cur,        \* the state it reported
    seen,       \* the requests and the device memory of its report
    told,       \* the arbiter's answer
    ticks, reports

gateway == <<ctx, want, busy, reqs>>
bounds == <<ticks, reports>>
resVars == <<claims, low_free, other, gateway, rpc, cur, seen, told, bounds>>

Never == idle_release + 1
NoClaim == [active |-> FALSE, resident |-> FALSE, admitted |-> FALSE, demand |-> 0,
            req_age |-> Never, seen_age |-> 0, held |-> 0, cool |-> 0, revokes |-> 0]

Mb(S) == Sum(ResidentMb, S)
DeviceFree == Total - other - Mb({o \in Owner : ctx[o]})
Index(o) == CHOOSE i \in DOMAIN Ranked : Ranked[i] = o

ResInit ==
    /\ claims = [o \in Owner |-> NoClaim]
    /\ low_free = <<Total, Total>>
    /\ other = Min(Others)
    /\ ctx = [o \in Owner |-> FALSE] /\ want = [o \in Owner |-> -1]
    /\ busy = [o \in Owner |-> "no"] /\ reqs = [o \in Owner |-> 0]
    /\ rpc = [o \in Owner |-> "tick"] /\ cur = [o \in Owner |-> FALSE]
    /\ seen = [o \in Owner |-> [requests |-> 0, free |-> 0]]
    /\ told = [o \in Owner |-> FALSE]
    /\ ticks = 0 /\ reports = 0

-----------------------------------------------------------------------------
(* The arbiter                                                             *)

Active(cl) == {o \in Owner : cl[o].active}
eligible(c, o) ==
    c.demand > 0 /\ SavedMs[o] > 0 /\ ResidentMb[o] > 0 /\ c.req_age <= idle_release /\ c.cool = 0
Locked(c) == c.admitted /\ c.held < min_hold

\* Headroom for one streamed render of the largest recent claimant outside S
stream_reserve(cl, S) ==
    Max({0} \cup {StreamMb[o] : o \in {x \in Active(cl) \ S : cl[x].req_age <= reserve_idle}})

\* find_claim: old claims lapse, o keeps its slot or takes a free one
Expired(cl) == [o \in Owner |-> IF cl[o].seen_age > claim_ttl THEN [cl[o] EXCEPT !.active = FALSE] ELSE cl[o]]
NoSlot(cl, o) == ~cl[o].active /\ Cardinality(Active(cl)) >= MaxClaims
Recorded(cl, o, requests, resident) ==
    LET c == IF cl[o].active THEN cl[o] ELSE [NoClaim EXCEPT !.active = TRUE]
        more == requests > 0
    IN [cl EXCEPT ![o] = [c EXCEPT !.resident = resident, !.seen_age = 0,
                            !.demand = Min({MaxDemand, @ + Weight * requests}),
                            !.req_age = IF more THEN 0 ELSE @]]

\* Seeded fault: a holder is not locked
Score_NoLock(cl, o) == <<0, cl[o].demand * SavedMs[o] * (IF cl[o].admitted THEN 3 ELSE 2)>>
\* Rank: the benefit, half as much again for a holder, above all while locked
Score(cl, o) == <<IF Locked(cl[o]) THEN 1 ELSE 0,
                  cl[o].demand * SavedMs[o] * (IF cl[o].admitted THEN 3 ELSE 2)>>
Before(cl, a, b) ==
    LET x == Score(cl, a) y == Score(cl, b) IN
    \/ x[1] > y[1] \/ (x[1] = y[1] /\ x[2] > y[2]) \/ (x = y /\ Index(a) < Index(b))

Capacity(cl, free) == free + Mb({o \in Active(cl) : cl[o].resident})
\* o may join the winners S ranked before it: it fits beside them, a newcomer also in the
\* lowest recent reading, with hysteresis
Joins(cl, free, low, S, o) ==
    /\ free >= 0 /\ eligible(cl[o], o)
    /\ Mb(S \cup {o}) + keep_free_mb + stream_reserve(cl, S \cup {o})
         <= Capacity(cl, IF cl[o].admitted THEN free ELSE Min({free, low}) - hysteresis_mb)
\* Greedy admission in rank order
Winners(cl, free, low) ==
    CHOOSE W \in SUBSET Active(cl) :
      \A o \in Active(cl) : o \in W <=> Joins(cl, free, low, {x \in W : Before(cl, x, o)}, o)

\* admit_all: who loses a grant waits, longer after each short one
Admitted(cl, W) ==
    LET Revoked(c) ==
          LET r == IF c.held >= 4 * min_hold THEN 0 ELSE c.revokes
          IN [c EXCEPT !.admitted = FALSE, !.cool = min_hold * 2 ^ Min({r, MaxBackoff}),
                       !.revokes = Min({r + 1, MaxBackoff + 1})]
    IN [o \in Owner |->
          IF ~cl[o].active THEN cl[o]
          ELSE IF o \in W THEN [cl[o] EXCEPT !.admitted = TRUE, !.held = IF cl[o].admitted THEN @ ELSE 0]
          ELSE IF cl[o].admitted THEN Revoked(cl[o]) ELSE cl[o]]

\* ores_report_at: a winner is told to promote once the memory is free
Promotes(cl, o, free) ==
    /\ free >= 0 /\ cl[o].admitted
    /\ cl[o].resident
       \/ free - keep_free_mb - stream_reserve(cl, {x \in Owner : cl[x].admitted}) >= ResidentMb[o]
Low(free) == Min({low_free[1], low_free[2]} \cup (IF free < 0 THEN {} ELSE {free}))
\* The ledger after the report, before the answer
Ledger(o) ==
    LET base == Recorded(Expired(claims), o, seen[o].requests, cur[o])
    IN Admitted(base, Winners(base, seen[o].free, Low(seen[o].free)))
Answer(o) == ~NoSlot(Expired(claims), o) /\ Promotes(Ledger(o), o, seen[o].free)
ores_report(o) ==
    IF NoSlot(Expired(claims), o)
    THEN claims' = Expired(claims) /\ UNCHANGED low_free
    ELSE /\ claims' = [Ledger(o) EXCEPT ![o].resident = @ \/ Answer(o)]
         /\ low_free' = IF seen[o].free < 0 THEN low_free
                        ELSE [low_free EXCEPT ![1] = Min({@, seen[o].free})]

-----------------------------------------------------------------------------
(* A gateway's residency_main                                              *)

locals == <<rpc, cur, seen, told>>
Nothing == [requests |-> 0, free |-> 0]
\* The tick is over; its local variables are dead
Slept(o) ==
    /\ rpc' = [rpc EXCEPT ![o] = "tick"] /\ cur' = [cur EXCEPT ![o] = FALSE]
    /\ seen' = [seen EXCEPT ![o] = Nothing] /\ told' = [told EXCEPT ![o] = FALSE]

\* The count is taken, the state and the device memory are read
RmRead(o) ==
    /\ rpc[o] = "tick" /\ reports < MaxReports
    /\ reports' = reports + 1
    /\ \E f \in {DeviceFree, -1} : seen' = [seen EXCEPT ![o] = [requests |-> reqs[o], free |-> f]]
    /\ reqs' = [reqs EXCEPT ![o] = 0]
    /\ cur' = [cur EXCEPT ![o] = ctx[o]]
    /\ rpc' = [rpc EXCEPT ![o] = "report"]
    /\ UNCHANGED <<claims, low_free, other, ctx, want, busy, told, ticks>>

RmReport(o) ==
    /\ rpc[o] = "report"
    /\ ores_report(o)
    /\ told' = [told EXCEPT ![o] = Answer(o)]
    /\ rpc' = [rpc EXCEPT ![o] = "apply"]
    /\ seen' = [seen EXCEPT ![o] = Nothing]
    /\ UNCHANGED <<other, gateway, cur, bounds>>

\* An arbiter that cannot be reached cannot account for resident bytes: stream
RmUnreachable(o) ==
    /\ rpc[o] = "report"
    /\ told' = [told EXCEPT ![o] = FALSE]
    /\ rpc' = [rpc EXCEPT ![o] = "apply"]
    /\ seen' = [seen EXCEPT ![o] = Nothing]
    /\ UNCHANGED <<claims, low_free, other, gateway, cur, bounds>>

\* osd_residency_settled, or osd_set_resident: the wish is noted, and the switch
\* starts unless a generation holds the lane
RmApply(o) ==
    /\ rpc[o] = "apply"
    /\ \/ /\ told[o] = cur[o]
          /\ want' = [want EXCEPT ![o] = -1]
          /\ Slept(o) /\ UNCHANGED busy
       \/ /\ told[o] # cur[o]
          /\ want' = [want EXCEPT ![o] = IF told[o] THEN 1 ELSE 0]
          /\ \/ busy[o] # "no" /\ Slept(o) /\ UNCHANGED busy
             \/ /\ busy[o] = "no"
                /\ busy' = [busy EXCEPT ![o] = "switch"]
                /\ rpc' = [rpc EXCEPT ![o] = "switch"]
                /\ UNCHANGED <<cur, seen, told>>
    /\ UNCHANGED <<claims, low_free, other, ctx, reqs, bounds>>

\* sd_switch_locked: what a gateway's context and wish may be after it.  A
\* promotion fails when the weights do not fit and may fail anyway; a failed
\* demotion aborts the process (see Restart)
Switched(o, resident) ==
    IF ctx[o] = resident \/ ~resident THEN {<<resident, want[o]>>}
    ELSE {<<FALSE, -1>>} \cup (IF DeviceFree >= ResidentMb[o] THEN {<<TRUE, want[o]>>} ELSE {})
RmSwitch(o) ==
    /\ rpc[o] = "switch"
    /\ \E s \in Switched(o, told[o]) :
         /\ ctx' = [ctx EXCEPT ![o] = s[1]]
         /\ want' = [want EXCEPT ![o] = s[2]]
         /\ \/ s[1] = told[o] /\ rpc' = [rpc EXCEPT ![o] = "again"] /\ UNCHANGED <<cur, seen, told>>
            \/ s[1] # told[o] /\ Slept(o)
    /\ busy' = [busy EXCEPT ![o] = "no"]
    /\ UNCHANGED <<claims, low_free, other, reqs, bounds>>

\* A switch is reported at once; the answer is not used
RmAgain(o) ==
    /\ rpc[o] = "again"
    /\ seen' = [seen EXCEPT ![o] = [requests |-> 0, free |-> DeviceFree]]
    /\ cur' = [cur EXCEPT ![o] = ctx[o]]
    /\ told' = [told EXCEPT ![o] = FALSE]
    /\ rpc' = [rpc EXCEPT ![o] = "confirm"]
    /\ UNCHANGED <<claims, low_free, other, gateway, bounds>>
RmConfirm(o) ==
    /\ rpc[o] = "confirm"
    /\ ores_report(o)
    /\ Slept(o)
    /\ UNCHANGED <<other, gateway, bounds>>

\* osd_generate takes the lane and applies a pending switch first
Generate(o) ==
    /\ busy[o] = "no" /\ reqs[o] = 0
    /\ reqs' = [reqs EXCEPT ![o] = @ + 1]
    /\ busy' = [busy EXCEPT ![o] = "generation"]
    /\ \E s \in IF want[o] = -1 THEN {<<ctx[o], -1>>} ELSE Switched(o, want[o] = 1) :
         ctx' = [ctx EXCEPT ![o] = s[1]] /\ want' = [want EXCEPT ![o] = s[2]]
    /\ UNCHANGED <<claims, low_free, other, locals, bounds>>
Generated(o) ==
    /\ busy[o] = "generation"
    /\ busy' = [busy EXCEPT ![o] = "no"]
    /\ UNCHANGED <<claims, low_free, other, ctx, want, reqs, locals, bounds>>

-----------------------------------------------------------------------------
(* Restarts, the other tenants and time                                    *)

Restart(o) ==
    /\ ctx[o]
    /\ ctx' = [ctx EXCEPT ![o] = FALSE] /\ want' = [want EXCEPT ![o] = -1]
    /\ busy' = [busy EXCEPT ![o] = "no"] /\ reqs' = [reqs EXCEPT ![o] = 0]
    /\ Slept(o)
    /\ UNCHANGED <<claims, low_free, other, bounds>>

\* Time passes, and the other tenants' share of the device changes with it
Tick ==
    /\ ticks < MaxTicks /\ ticks' = ticks + 1
    /\ \E m \in Others : DeviceFree + other - m >= 0 /\ other' = m
    /\ claims' = [o \in Owner |->
                    [claims[o] EXCEPT !.demand = @ \div 2, !.req_age = Min({Never, @ + 1}),
                       !.seen_age = Min({claim_ttl + 1, @ + 1}),
                       !.held = Min({4 * min_hold, @ + 1}), !.cool = Max({0, @ - 1})]]
    /\ low_free' = <<Total, low_free[1]>>
    /\ UNCHANGED <<gateway, locals, reports>>

ResNext ==
    \/ \E o \in Owner :
         \/ RmRead(o) \/ RmReport(o) \/ RmUnreachable(o) \/ RmApply(o) \/ RmSwitch(o)
         \/ RmAgain(o) \/ RmConfirm(o) \/ Generate(o) \/ Generated(o) \/ Restart(o)
    \/ Tick

ResSpec == ResInit /\ [][ResNext]_resVars

-----------------------------------------------------------------------------
(* Properties                                                              *)

\* A revocation of a locked holder has one of three reasons, in the ledger that the report
\* of some r leaves
HoldKept ==
    \A o \in Owner :
      /\ claims[o].active /\ claims[o].seen_age <= claim_ttl
      /\ Locked(claims[o]) /\ claims'[o].active /\ ~claims'[o].admitted
      => \E r \in Owner :
           LET free == seen[r].free
               base == Recorded(Expired(claims), r, seen[r].requests, cur[r])
               locked == {x \in Active(base) : Locked(base[x])}
           IN /\ rpc[r] \in {"report", "confirm"} /\ rpc'[r] # rpc[r]
              /\ \/ free < 0 \/ ~eligible(base[o], o)
                 \/ Mb(locked) + keep_free_mb + stream_reserve(base, {o}) > Capacity(base, free)
\* A holder is "unrevocable for min_hold_s": within it the grant of a claim that has not
\* lapsed is taken back only for want of demand, of device information or of room beside
\* the other locked holders (admit_all, whoever reports).
HoldRespected == [][HoldKept]_resVars
=============================================================================
