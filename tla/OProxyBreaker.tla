---------------------------- MODULE OProxyBreaker ----------------------------
(***************************************************************************)
(* The circuit breaker of one upstream, src/src/oproxy.c: lock-free, shared *)
(* by every worker thread.  oproxy_target_allow and oproxy_target_record   *)
(* are sequences of atomic operations on open_until_ms, cooldown_ms,       *)
(* probing and consecutive_failures; every one of them is an action here,  *)
(* so that calls of different threads interleave between them.             *)
(*                                                                         *)
(* A caller consults allow only where it has a fallback, and a relay       *)
(* records exactly one outcome, so a caller goes around                    *)
(*     idle -> allow -> relay -> record -> idle                            *)
(* or enters relay directly.  consecutive_failures is only compared with   *)
(* failure_limit and is kept up to it.  The counters of the snapshot       *)
(* (failures, breaker_opens, breaker_rejects) are left out.                *)
(***************************************************************************)
EXTENDS Integers

CONSTANTS
    Caller,        \* threads that relay to this target
    FailureLimit,  \* target->failure_limit; 0 would disable the breaker
    BaseCooldown,  \* target->base_cooldown_ms, in ticks
    MaxCooldown,   \* target->max_cooldown_ms, in ticks
    Stall,         \* longest delay between a clock read and the stores after it
    MaxTime        \* bound on the clock

ASSUME LimitAssumption == FailureLimit \in Nat \ {0}
\* oproxy_target_breaker_config lifts the maximum to the base
ASSUME CooldownAssumption ==
    BaseCooldown \in Nat \ {0} /\ MaxCooldown \in Nat /\ MaxCooldown >= BaseCooldown
ASSUME BoundAssumption == Stall \in Nat /\ MaxTime \in Nat \ {0}

VARIABLES
    clock,                \* monotonic_ms(); starts at 1, as 0 means "closed"
    open_until,           \* target->open_until_ms
    cooldown,             \* target->cooldown_ms
    probing,              \* target->probing
    consecutive_failures, \* target->consecutive_failures
    pc,                   \* where each caller is
    loc                   \* its locals: until, now, was_open, probe_failed,
                          \* cooldown, and whether it was let through as a probe

shared == <<open_until, cooldown, probing, consecutive_failures>>
vars == <<clock, open_until, cooldown, probing, consecutive_failures, pc, loc>>

\* Between its clock read and its last store
AfterClockRead == {"allow_cooldown", "allow_cas", "probing_on", "was_open",
                   "probe_failed", "read_cooldown", "set_cooldown", "set_open"}

PC == AfterClockRead \cup
      {"idle", "allow_now", "relay", "count", "fail_now",
       "ok_count", "ok_open", "ok_probing", "ok_cooldown"}

Local == [until : 0..(MaxTime + MaxCooldown), now : 0..MaxTime,
          was_open : BOOLEAN, probe_failed : BOOLEAN,
          cooldown : BaseCooldown..MaxCooldown, probe : BOOLEAN]

Blank == [until |-> 0, now |-> 0, was_open |-> FALSE, probe_failed |-> FALSE,
          cooldown |-> BaseCooldown, probe |-> FALSE]

\* Well-typed; the cooldown never leaves base_cooldown_ms..max_cooldown_ms
\* (the clamp in oproxy_target_record).
TypeOK ==
    /\ clock \in 1..MaxTime
    /\ open_until \in 0..(MaxTime + MaxCooldown)
    /\ cooldown \in BaseCooldown..MaxCooldown
    /\ probing \in BOOLEAN
    /\ consecutive_failures \in 0..FailureLimit
    /\ pc \in [Caller -> PC]
    /\ loc \in [Caller -> Local]

\* oproxy_target_create: calloc and oproxy_target_breaker_config
Init ==
    /\ clock = 1
    /\ open_until = 0
    /\ cooldown = BaseCooldown
    /\ probing = FALSE
    /\ consecutive_failures = 0
    /\ pc = [c \in Caller |-> "idle"]
    /\ loc = [c \in Caller |-> Blank]

Goto(c, at) == pc' = [pc EXCEPT ![c] = at]
Leave(c) == Goto(c, "idle") /\ loc' = [loc EXCEPT ![c] = Blank]

-----------------------------------------------------------------------------
(* oproxy_target_allow                                                     *)

\* The load of open_until_ms; 0 is a closed breaker and lets the caller in
AllowLoad(c) ==
    /\ pc[c] = "idle"
    /\ Goto(c, IF open_until = 0 THEN "relay" ELSE "allow_now")
    /\ loc' = [loc EXCEPT ![c].until = open_until]
    /\ UNCHANGED <<clock, shared>>

\* monotonic_ms(): before the loaded deadline the caller is rejected
AllowNow(c) ==
    /\ pc[c] = "allow_now"
    /\ IF clock >= loc[c].until
       THEN Goto(c, "allow_cooldown") /\ loc' = [loc EXCEPT ![c].now = clock]
       ELSE Leave(c)
    /\ UNCHANGED <<clock, shared>>

\* The load of cooldown_ms for the new window
AllowCooldown(c) ==
    /\ pc[c] = "allow_cooldown"
    /\ Goto(c, "allow_cas")
    /\ loc' = [loc EXCEPT ![c].cooldown = cooldown]
    /\ UNCHANGED <<clock, shared>>

\* Seeded fault: the window is stored instead of compared and exchanged
AllowClaim_NoCompare(c) ==
    /\ pc[c] = "allow_cas"
    /\ open_until' = loc[c].now + loc[c].cooldown
    /\ Goto(c, "probing_on")
    /\ loc' = [loc EXCEPT ![c].probe = TRUE]
    /\ UNCHANGED <<clock, cooldown, probing, consecutive_failures>>

\* The compare-and-exchange that claims the probe by pushing the window out
AllowClaim(c) ==
    /\ pc[c] = "allow_cas"
    /\ IF open_until = loc[c].until
       THEN /\ open_until' = loc[c].now + loc[c].cooldown
            /\ Goto(c, "probing_on")
            /\ loc' = [loc EXCEPT ![c].probe = TRUE]
       ELSE Leave(c) /\ UNCHANGED open_until
    /\ UNCHANGED <<clock, cooldown, probing, consecutive_failures>>

AllowProbing(c) ==
    /\ pc[c] = "probing_on"
    /\ probing' = TRUE
    /\ Goto(c, "relay")
    /\ UNCHANGED <<clock, open_until, cooldown, consecutive_failures, loc>>

-----------------------------------------------------------------------------
(* The relay itself: its outcome, and its absence                          *)

\* A caller without a fallback relays whatever the breaker says
RelayUnasked(c) ==
    /\ pc[c] = "idle"
    /\ Goto(c, "relay")
    /\ UNCHANGED <<clock, shared, loc>>

\* oproxy_target_relay records one outcome: no response or a 5xx fails
RelayOutcome(c) ==
    /\ pc[c] = "relay"
    /\ \E ok \in BOOLEAN : Goto(c, IF ok THEN "ok_count" ELSE "count")
    /\ UNCHANGED <<clock, shared, loc>>

\* A caller that was let through and cannot build its headers never relays
RelayAbandoned(c) ==
    /\ pc[c] = "relay"
    /\ Leave(c)
    /\ UNCHANGED <<clock, shared>>

-----------------------------------------------------------------------------
(* oproxy_target_record(target, true): four stores                         *)

OkCount(c) ==
    /\ pc[c] = "ok_count"
    /\ consecutive_failures' = 0
    /\ Goto(c, "ok_open")
    /\ UNCHANGED <<clock, open_until, cooldown, probing, loc>>

OkOpen(c) ==
    /\ pc[c] = "ok_open"
    /\ open_until' = 0
    /\ Goto(c, "ok_probing")
    /\ UNCHANGED <<clock, cooldown, probing, consecutive_failures, loc>>

OkProbing(c) ==
    /\ pc[c] = "ok_probing"
    /\ probing' = FALSE
    /\ Goto(c, "ok_cooldown")
    /\ UNCHANGED <<clock, open_until, cooldown, consecutive_failures, loc>>

OkCooldown(c) ==
    /\ pc[c] = "ok_cooldown"
    /\ cooldown' = BaseCooldown
    /\ Leave(c)
    /\ UNCHANGED <<clock, open_until, probing, consecutive_failures>>

-----------------------------------------------------------------------------
(* oproxy_target_record(target, false)                                     *)

\* consecutive_failures is counted; below the limit nothing else happens
FailCount(c) ==
    LET n == consecutive_failures + 1
    IN  /\ pc[c] = "count"
        /\ consecutive_failures' = IF n < FailureLimit THEN n ELSE FailureLimit
        /\ IF n < FailureLimit THEN Leave(c) ELSE Goto(c, "fail_now") /\ UNCHANGED loc
        /\ UNCHANGED <<clock, open_until, cooldown, probing>>

\* now = monotonic_ms()
FailNow(c) ==
    /\ pc[c] = "fail_now"
    /\ loc' = [loc EXCEPT ![c].now = clock]
    /\ Goto(c, "was_open")
    /\ UNCHANGED <<clock, shared>>

FailWasOpen(c) ==
    /\ pc[c] = "was_open"
    /\ loc' = [loc EXCEPT ![c].was_open = open_until # 0]
    /\ Goto(c, "probe_failed")
    /\ UNCHANGED <<clock, shared>>

\* The exchange that consumes the outstanding probe
FailProbe(c) ==
    /\ pc[c] = "probe_failed"
    /\ loc' = [loc EXCEPT ![c].probe_failed = probing]
    /\ probing' = FALSE
    /\ Goto(c, "read_cooldown")
    /\ UNCHANGED <<clock, open_until, cooldown, consecutive_failures>>

\* The load of cooldown_ms, and what the three values read decide: a straggler
\* of an open breaker changes nothing, a failed probe doubles the cooldown
FailReadCooldown(c) ==
    LET next == 2 * cooldown
        doubled == IF next > MaxCooldown THEN MaxCooldown ELSE next
    IN  /\ pc[c] = "read_cooldown"
        /\ CASE loc[c].was_open /\ ~loc[c].probe_failed -> Leave(c)
             [] loc[c].probe_failed ->
                  Goto(c, "set_cooldown") /\ loc' = [loc EXCEPT ![c].cooldown = doubled]
             [] OTHER -> Goto(c, "set_open") /\ loc' = [loc EXCEPT ![c].cooldown = cooldown]
        /\ UNCHANGED <<clock, shared>>

FailSetCooldown(c) ==
    /\ pc[c] = "set_cooldown"
    /\ cooldown' = loc[c].cooldown
    /\ Goto(c, "set_open")
    /\ UNCHANGED <<clock, open_until, probing, consecutive_failures, loc>>

\* Seeded fault: a failure extends the window from its old end instead of from now
FailSetOpen_Extends(c) ==
    /\ pc[c] = "set_open"
    /\ open_until' = (IF open_until > clock THEN open_until ELSE clock) + loc[c].cooldown
    /\ Leave(c)
    /\ UNCHANGED <<clock, cooldown, probing, consecutive_failures>>

FailSetOpen(c) ==
    /\ pc[c] = "set_open"
    /\ open_until' = loc[c].now + loc[c].cooldown
    /\ Leave(c)
    /\ UNCHANGED <<clock, cooldown, probing, consecutive_failures>>

-----------------------------------------------------------------------------

\* CLOCK_MONOTONIC.  A thread is not preempted for longer than Stall between
\* its clock read and the stores that depend on it.
Tick ==
    /\ clock < MaxTime
    /\ \A c \in Caller : pc[c] \in AfterClockRead => clock + 1 - loc[c].now <= Stall
    /\ clock' = clock + 1
    /\ UNCHANGED <<shared, pc, loc>>

Next ==
    \/ Tick
    \/ \E c \in Caller :
        \/ AllowLoad(c) \/ AllowNow(c) \/ AllowCooldown(c) \/ AllowClaim(c) \/ AllowProbing(c)
        \/ RelayUnasked(c) \/ RelayOutcome(c) \/ RelayAbandoned(c)
        \/ OkCount(c) \/ OkOpen(c) \/ OkProbing(c) \/ OkCooldown(c)
        \/ FailCount(c) \/ FailNow(c) \/ FailWasOpen(c) \/ FailProbe(c)
        \/ FailReadCooldown(c) \/ FailSetCooldown(c) \/ FailSetOpen(c)

Spec == Init /\ [][Next]_vars

-----------------------------------------------------------------------------
(* Properties                                                              *)

\* A probe that never reports back cannot wedge the target shut: whatever the
\* callers do, the breaker is never open for longer than max_cooldown_ms from
\* now (oproxy_target_allow and oproxy_target_record only store now + cooldown).
WindowBounded == open_until <= clock + MaxCooldown

\* The breaker's five atomics stay sound whatever stores interleave: each in its
\* range, and together never refusing calls for longer than one maximal cooldown.
WindowSound == TypeOK /\ WindowBounded

\* "concurrent callers do not stampede it" (oproxy_target_allow): two probes in
\* flight at once were let through a base cooldown apart, give or take the
\* preemption of the thread whose stale clock moved the window back.
ProbeInFlight(c) == loc[c].probe /\ pc[c] \in {"probing_on", "relay"}
NoStampede ==
    \A c, d \in Caller :
        c # d /\ ProbeInFlight(c) /\ ProbeInFlight(d) =>
            \/ loc[c].now - loc[d].now >= BaseCooldown - Stall
            \/ loc[d].now - loc[c].now >= BaseCooldown - Stall

\* A closed breaker has forgotten its back-off: once no call of
\* oproxy_target_record is under way, closed means the base cooldown, although
\* a success and a failure may have interleaved store by store.
Recording(c) == pc[c] \notin {"idle", "relay", "allow_now", "allow_cooldown", "allow_cas",
                              "probing_on"}
ClosedForgetsBackoff ==
    open_until = 0 /\ (\A c \in Caller : ~Recording(c)) => cooldown = BaseCooldown

\* The back-off is honoured: probes of an open breaker stay apart, and a breaker
\* that closes starts again from the base cooldown.
BackoffHonoured == NoStampede /\ ClosedForgetsBackoff
=============================================================================
