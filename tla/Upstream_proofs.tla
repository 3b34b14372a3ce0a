---------------------------- MODULE Upstream_proofs ----------------------------
(***************************************************************************)
(* Proofs about the relay to one upstream, for every number of callers and *)
(* workers: the breaker's window and back-off (OProxyBreaker), and the     *)
(* connections of the pool (OProxyPool, in the instance of MC_Upstream).   *)
(***************************************************************************)
EXTENDS MC_Upstream, FiniteSetTheorems, SequenceTheorems, TLAPS

-----------------------------------------------------------------------------
(* The breaker's window is bounded.                                        *)

\* A caller's clock value is not from the future: what makes the window of a
\* caller that has not stored it yet no further away than one of now.
ClockReadsArePast == \A c \in Caller : loc[c].now <= clock

IInv == TypeOK /\ ClockReadsArePast /\ WindowBounded

CallerStep(c) ==
    \/ AllowLoad(c) \/ AllowNow(c) \/ AllowCooldown(c) \/ AllowClaim(c) \/ AllowProbing(c)
    \/ RelayUnasked(c) \/ RelayOutcome(c) \/ RelayAbandoned(c)
    \/ OkCount(c) \/ OkOpen(c) \/ OkProbing(c) \/ OkCooldown(c)
    \/ FailCount(c) \/ FailNow(c) \/ FailWasOpen(c) \/ FailProbe(c)
    \/ FailReadCooldown(c) \/ FailSetCooldown(c) \/ FailSetOpen(c)

USE LimitAssumption, CooldownAssumption, BoundAssumption

LEMMA BlankIsLocal == Blank \in Local /\ Blank.now = 0
  BY DEF Blank, Local

LEMMA InitHolds == Init => IInv
<1> SUFFICES ASSUME Init PROVE IInv
  OBVIOUS
<1>1. loc \in [Caller -> Local] /\ pc \in [Caller -> PC] /\ ClockReadsArePast
  BY BlankIsLocal DEF Init, PC, ClockReadsArePast
<1>2. /\ clock \in 1..MaxTime
      /\ open_until \in 0..(MaxTime + MaxCooldown)
      /\ cooldown \in BaseCooldown..MaxCooldown
      /\ consecutive_failures \in 0..FailureLimit
      /\ WindowBounded
  BY DEF Init, WindowBounded
<1>3. probing \in BOOLEAN
  BY DEF Init
<1> QED
  BY <1>1, <1>2, <1>3 DEF IInv, TypeOK

\* One caller moves: its locals stay well typed and its clock read stays in the
\* past, provided the record it is left with is one.
LEMMA OneCallerMoves ==
  ASSUME NEW c \in Caller, NEW at \in PC, NEW l \in Local,
         pc \in [Caller -> PC], loc \in [Caller -> Local],
         ClockReadsArePast, l.now <= clock, clock' = clock,
         pc' = [pc EXCEPT ![c] = at], loc' = [loc EXCEPT ![c] = l]
  PROVE  pc' \in [Caller -> PC] /\ loc' \in [Caller -> Local] /\ ClockReadsArePast'
  BY DEF ClockReadsArePast

\* What a step of one caller has to establish for the invariant
LEMMA StepOf ==
  ASSUME NEW c \in Caller, NEW at \in PC, NEW l \in Local,
         IInv, l.now <= clock, clock' = clock,
         pc' = [pc EXCEPT ![c] = at], loc' = [loc EXCEPT ![c] = l],
         open_until' \in 0..(MaxTime + MaxCooldown), open_until' <= clock + MaxCooldown,
         cooldown' \in BaseCooldown..MaxCooldown,
         consecutive_failures' \in 0..FailureLimit,
         probing' \in BOOLEAN
  PROVE  IInv'
<1>1. pc' \in [Caller -> PC] /\ loc' \in [Caller -> Local] /\ ClockReadsArePast'
  BY OneCallerMoves DEF IInv, TypeOK
<1>2. clock' \in 1..MaxTime /\ WindowBounded'
  BY DEF IInv, TypeOK, WindowBounded
<1> QED
  BY <1>1, <1>2 DEF IInv, TypeOK

\* The values the invariant gives a step to start from
LEMMA Values ==
  ASSUME NEW c \in Caller, IInv
  PROVE  /\ clock \in 1..MaxTime /\ open_until \in 0..(MaxTime + MaxCooldown)
         /\ open_until <= clock + MaxCooldown
         /\ cooldown \in BaseCooldown..MaxCooldown
         /\ consecutive_failures \in 0..FailureLimit /\ probing \in BOOLEAN
         /\ pc \in [Caller -> PC] /\ loc \in [Caller -> Local] /\ loc[c] \in Local
         /\ loc[c].now <= clock /\ loc[c].now \in 0..MaxTime
         /\ loc[c].cooldown \in BaseCooldown..MaxCooldown
<1>1. loc[c] \in Local /\ loc[c].now <= clock
  BY DEF IInv, TypeOK, ClockReadsArePast
<1>2. loc[c].now \in 0..MaxTime /\ loc[c].cooldown \in BaseCooldown..MaxCooldown
  BY <1>1 DEF Local
<1> QED
  BY <1>1, <1>2 DEF IInv, TypeOK, WindowBounded

LEMMA CallerStepHolds ==
  ASSUME NEW c \in Caller, IInv, CallerStep(c)
  PROVE  IInv'
<1> USE DEF Goto, shared
<1>0. Blank \in Local /\ Blank.now <= clock
  BY BlankIsLocal, Values
<1>A. \A at \in PC :
        /\ pc' = [pc EXCEPT ![c] = at] /\ loc' = loc /\ clock' = clock
        /\ open_until' \in 0..(MaxTime + MaxCooldown) /\ open_until' <= clock + MaxCooldown
        /\ cooldown' \in BaseCooldown..MaxCooldown
        /\ consecutive_failures' \in 0..FailureLimit /\ probing' \in BOOLEAN
        => IInv'
  <2> TAKE at \in PC
  <2>1. loc = [loc EXCEPT ![c] = loc[c]]
    BY Values
  <2> QED
    BY <2>1, StepOf, Values
<1>B. /\ Leave(c) /\ clock' = clock
      /\ open_until' \in 0..(MaxTime + MaxCooldown) /\ open_until' <= clock + MaxCooldown
      /\ cooldown' \in BaseCooldown..MaxCooldown
      /\ consecutive_failures' \in 0..FailureLimit /\ probing' \in BOOLEAN
      => IInv'
  <2>1. "idle" \in PC
    BY DEF PC
  <2> QED
    BY <2>1, <1>0, StepOf, Values DEF Leave
<1>1. CASE AllowLoad(c)
  <2> DEFINE at == IF open_until = 0 THEN "relay" ELSE "allow_now"
  <2> DEFINE l == [loc[c] EXCEPT !.until = open_until]
  <2>1. at \in PC
    BY DEF PC
  <2>2. l \in Local /\ l.now <= clock
    BY Values DEF Local
  <2>3. pc' = [pc EXCEPT ![c] = at] /\ loc' = [loc EXCEPT ![c] = l]
    BY <1>1, Values DEF AllowLoad
  <2> HIDE DEF at, l
  <2> QED
    BY <1>1, <2>1, <2>2, <2>3, StepOf, Values DEF AllowLoad
<1>2. CASE AllowNow(c)
  <2>1. CASE clock >= loc[c].until
    <3> DEFINE l == [loc[c] EXCEPT !.now = clock]
    <3>1. "allow_cooldown" \in PC
      BY DEF PC, AfterClockRead
    <3>2. l \in Local /\ l.now <= clock
      BY Values DEF Local
    <3>3. pc' = [pc EXCEPT ![c] = "allow_cooldown"] /\ loc' = [loc EXCEPT ![c] = l]
      BY <1>2, <2>1, Values DEF AllowNow
    <3> QED
      BY <1>2, <3>1, <3>2, <3>3, StepOf, Values DEF AllowNow
  <2>2. CASE ~(clock >= loc[c].until)
    BY <1>2, <2>2, <1>B, Values DEF AllowNow
  <2> QED
    BY <2>1, <2>2
<1>3. CASE AllowCooldown(c)
  <2>1. "allow_cas" \in PC
    BY DEF PC, AfterClockRead
  <2> DEFINE l == [loc[c] EXCEPT !.cooldown = cooldown]
  <2>2. l \in Local /\ l.now <= clock
    BY Values DEF Local
  <2>3. pc' = [pc EXCEPT ![c] = "allow_cas"] /\ loc' = [loc EXCEPT ![c] = l]
    BY <1>3, Values DEF AllowCooldown
  <2> QED
    BY <1>3, <2>1, <2>2, <2>3, StepOf, Values DEF AllowCooldown
<1>4. CASE AllowClaim(c)
  <2>1. CASE open_until = loc[c].until
    <3> DEFINE l == [loc[c] EXCEPT !.probe = TRUE]
    <3>1. "probing_on" \in PC
      BY DEF PC, AfterClockRead
    <3>2. l \in Local /\ l.now <= clock
      BY Values DEF Local
    <3>3. pc' = [pc EXCEPT ![c] = "probing_on"] /\ loc' = [loc EXCEPT ![c] = l]
      BY <1>4, <2>1, Values DEF AllowClaim
    <3>4. /\ open_until' \in 0..(MaxTime + MaxCooldown)
          /\ open_until' <= clock + MaxCooldown
      BY <1>4, <2>1, Values DEF AllowClaim
    <3> QED
      BY <1>4, <3>1, <3>2, <3>3, <3>4, StepOf, Values DEF AllowClaim
  <2>2. CASE open_until # loc[c].until
    BY <1>4, <2>2, <1>B, Values DEF AllowClaim
  <2> QED
    BY <2>1, <2>2
<1>5. CASE AllowProbing(c)
  <2>1. "relay" \in PC
    BY DEF PC, AfterClockRead
  <2> QED
    BY <1>5, <2>1, <1>A, Values DEF AllowProbing
<1>6. CASE RelayUnasked(c)
  <2>1. "relay" \in PC
    BY DEF PC, AfterClockRead
  <2> QED
    BY <1>6, <2>1, <1>A, Values DEF RelayUnasked
<1>7. CASE RelayOutcome(c)
  <2>1. "ok_count" \in PC /\ "count" \in PC
    BY DEF PC
  <2>2. PICK ok \in BOOLEAN : Goto(c, IF ok THEN "ok_count" ELSE "count")
    BY <1>7 DEF RelayOutcome
  <2> QED
    BY <1>7, <2>1, <2>2, <1>A, Values DEF RelayOutcome
<1>8. CASE RelayAbandoned(c)
  BY <1>8, <1>B, Values DEF RelayAbandoned
<1>9. CASE OkCount(c)
  <2>1. "ok_open" \in PC
    BY DEF PC, AfterClockRead
  <2>2. consecutive_failures' \in 0..FailureLimit
    BY <1>9, Values DEF OkCount
  <2> QED
    BY <1>9, <2>1, <2>2, <1>A, Values DEF OkCount
<1>10. CASE OkOpen(c)
  <2>1. "ok_probing" \in PC
    BY DEF PC, AfterClockRead
  <2>2. open_until' \in 0..(MaxTime + MaxCooldown) /\ open_until' <= clock + MaxCooldown
    BY <1>10, Values DEF OkOpen
  <2> QED
    BY <1>10, <2>1, <2>2, <1>A, Values DEF OkOpen
<1>11. CASE OkProbing(c)
  <2>1. "ok_cooldown" \in PC
    BY DEF PC, AfterClockRead
  <2> QED
    BY <1>11, <2>1, <1>A, Values DEF OkProbing
<1>12. CASE OkCooldown(c)
  BY <1>12, <1>B, Values DEF OkCooldown
<1>13. CASE FailCount(c)
  <2>1. "fail_now" \in PC
    BY DEF PC
  <2>2. consecutive_failures' \in 0..FailureLimit
    BY <1>13, Values DEF FailCount
  <2>3. CASE consecutive_failures + 1 < FailureLimit
    BY <1>13, <2>2, <2>3, <1>B, Values DEF FailCount
  <2>4. CASE ~(consecutive_failures + 1 < FailureLimit)
    BY <1>13, <2>1, <2>2, <2>4, <1>A, Values DEF FailCount
  <2> QED
    BY <2>3, <2>4
<1>14. CASE FailNow(c)
  <2>1. "was_open" \in PC
    BY DEF PC, AfterClockRead
  <2> DEFINE l == [loc[c] EXCEPT !.now = clock]
  <2>2. l \in Local /\ l.now <= clock
    BY Values DEF Local
  <2>3. pc' = [pc EXCEPT ![c] = "was_open"] /\ loc' = [loc EXCEPT ![c] = l]
    BY <1>14, Values DEF FailNow
  <2> QED
    BY <1>14, <2>1, <2>2, <2>3, StepOf, Values DEF FailNow
<1>15. CASE FailWasOpen(c)
  <2>1. "probe_failed" \in PC
    BY DEF PC, AfterClockRead
  <2> DEFINE l == [loc[c] EXCEPT !.was_open = (open_until # 0)]
  <2>2. l \in Local /\ l.now <= clock
    BY Values DEF Local
  <2>3. pc' = [pc EXCEPT ![c] = "probe_failed"] /\ loc' = [loc EXCEPT ![c] = l]
    BY <1>15, Values DEF FailWasOpen
  <2> QED
    BY <1>15, <2>1, <2>2, <2>3, StepOf, Values DEF FailWasOpen
<1>16. CASE FailProbe(c)
  <2>1. "read_cooldown" \in PC
    BY DEF PC, AfterClockRead
  <2> DEFINE l == [loc[c] EXCEPT !.probe_failed = probing]
  <2>2. l \in Local /\ l.now <= clock
    BY Values DEF Local
  <2>3. pc' = [pc EXCEPT ![c] = "read_cooldown"] /\ loc' = [loc EXCEPT ![c] = l]
    BY <1>16, Values DEF FailProbe
  <2> QED
    BY <1>16, <2>1, <2>2, <2>3, StepOf, Values DEF FailProbe
<1>17. CASE FailReadCooldown(c)
  <2> DEFINE next == 2 * cooldown
             doubled == IF next > MaxCooldown THEN MaxCooldown ELSE next
  <2>1. "set_cooldown" \in PC /\ "set_open" \in PC
    BY DEF PC, AfterClockRead
  <2>2. doubled \in BaseCooldown..MaxCooldown
    BY Values
  <2>3. CASE loc[c].was_open /\ ~loc[c].probe_failed
    BY <1>17, <2>3, <1>B, Values DEF FailReadCooldown
  <2>4. CASE loc[c].probe_failed
    <3> DEFINE l == [loc[c] EXCEPT !.cooldown = doubled]
    <3>1. l \in Local /\ l.now <= clock
      BY <2>2, Values DEF Local
    <3>2. pc' = [pc EXCEPT ![c] = "set_cooldown"] /\ loc' = [loc EXCEPT ![c] = l]
      BY <1>17, <2>4, Values DEF FailReadCooldown
    <3> QED
      BY <1>17, <2>1, <3>1, <3>2, StepOf, Values DEF FailReadCooldown
  <2>5. CASE ~loc[c].was_open /\ ~loc[c].probe_failed
    <3> DEFINE l == [loc[c] EXCEPT !.cooldown = cooldown]
    <3>1. l \in Local /\ l.now <= clock
      BY Values DEF Local
    <3>2. pc' = [pc EXCEPT ![c] = "set_open"] /\ loc' = [loc EXCEPT ![c] = l]
      BY <1>17, <2>5, Values DEF FailReadCooldown
    <3> QED
      BY <1>17, <2>1, <3>1, <3>2, StepOf, Values DEF FailReadCooldown
  <2> QED
    BY <2>3, <2>4, <2>5
<1>18. CASE FailSetCooldown(c)
  <2>1. "set_open" \in PC
    BY DEF PC, AfterClockRead
  <2> QED
    BY <1>18, <2>1, <1>A, Values DEF FailSetCooldown
<1>19. CASE FailSetOpen(c)
  <2>1. open_until' \in 0..(MaxTime + MaxCooldown) /\ open_until' <= clock + MaxCooldown
    BY <1>19, Values DEF FailSetOpen
  <2> QED
    BY <1>19, <2>1, <1>B, Values DEF FailSetOpen
<1> QED
  BY <1>1, <1>2, <1>3, <1>4, <1>5, <1>6, <1>7, <1>8, <1>9, <1>10, <1>11, <1>12, <1>13, <1>14, <1>15, <1>16, <1>17, <1>18, <1>19 DEF CallerStep

LEMMA TickHolds == IInv /\ Tick => IInv'
<1> SUFFICES ASSUME IInv, Tick PROVE IInv'
  OBVIOUS
<1>1. clock' \in 1..MaxTime /\ clock <= clock'
  BY DEF Tick, IInv, TypeOK
<1>2. ClockReadsArePast'
  <2> SUFFICES ASSUME NEW c \in Caller PROVE (loc[c].now)' <= clock'
    BY DEF ClockReadsArePast
  <2>1. loc' = loc /\ loc[c].now <= clock /\ loc[c].now \in 0..MaxTime
    BY Values DEF Tick
  <2> QED
    BY <1>1, <2>1 DEF IInv, TypeOK
<1>3. WindowBounded'
  BY <1>1 DEF Tick, IInv, TypeOK, WindowBounded, shared
<1> QED
  BY <1>1, <1>2, <1>3 DEF Tick, IInv, TypeOK, shared

LEMMA Inductive == IInv /\ [Next]_vars => IInv'
<1> SUFFICES ASSUME IInv, [Next]_vars PROVE IInv'
  OBVIOUS
<1>1. CASE UNCHANGED vars
  BY <1>1 DEF vars, IInv, TypeOK, ClockReadsArePast, WindowBounded
<1>2. CASE Tick
  BY <1>2, TickHolds
<1>3. ASSUME NEW c \in Caller, CallerStep(c) PROVE IInv'
  BY <1>3, CallerStepHolds
<1> QED
  BY <1>1, <1>2, <1>3 DEF Next, CallerStep

\* Every reachable state is well typed: the cooldown stays between the base and
\* the maximum (oproxy_target_record clamps what it doubles).
THEOREM BreakerTypeCorrect == Spec => []TypeOK
<1>1. IInv => TypeOK
  BY DEF IInv
<1> QED
  BY <1>1, InitHolds, Inductive, PTL DEF Spec

\* Whatever the callers do, and whichever of them never report back, the breaker
\* is never open for longer than max_cooldown_ms from now (oproxy_target_allow).
THEOREM WindowIsBounded == Spec => []WindowBounded
<1>1. IInv => WindowBounded
  BY DEF IInv
<1> QED
  BY <1>1, InitHolds, Inductive, PTL DEF Spec

\* No interleaving of oproxy_target_allow and oproxy_target_record takes an atomic
\* out of its range or opens the breaker beyond one maximal cooldown.
THEOREM WindowIsSound == Spec => []WindowSound
<1>1. TypeOK /\ WindowBounded <=> WindowSound
  BY DEF WindowSound
<1>2. QED  BY <1>1, BreakerTypeCorrect, WindowIsBounded, PTL
-----------------------------------------------------------------------------
(* The back-off.  A caller that goes for the probe has seen its deadline    *)
(* pass, its clock value is at most Stall old until its last store, and the *)
(* window is either closed or reaches a base cooldown past every probe in   *)
(* flight, less the preemption.                                             *)

CallerSound(c) ==
    /\ pc[c] \in {"idle", "allow_now", "allow_cooldown", "allow_cas"} => loc[c].probe = FALSE
    /\ pc[c] \in {"allow_now", "allow_cooldown", "allow_cas"} => loc[c].until # 0
    /\ pc[c] \in {"allow_cooldown", "allow_cas"} => loc[c].until <= loc[c].now
    /\ pc[c] \in AfterClockRead => clock <= loc[c].now + Stall
Shielded(c) == open_until = 0 \/ open_until + Stall >= loc[c].now + BaseCooldown
Restoring(c) == pc[c] \in {"ok_probing", "ok_cooldown", "set_open"}
BackoffInv ==
    /\ \A c \in Caller : CallerSound(c) /\ (ProbeInFlight(c) => Shielded(c))
    /\ NoStampede
    /\ open_until = 0 /\ (\A c \in Caller : ~Restoring(c)) => cooldown = BaseCooldown

LEMMA BackoffSound == BackoffInv => BackoffHonoured
BY DEF BackoffInv, BackoffHonoured, ClosedForgetsBackoff, Restoring, Recording

\* What a caller's step does to the window and to its own probe.
Moved(c) ==
    /\ clock' = clock
    /\ \A d \in Caller : d # c => pc'[d] = pc[d] /\ loc'[d] = loc[d]
    /\ CallerSound(c)'
    /\ \/ open_until' = open_until
       \/ open_until' = 0
       \/ /\ pc[c] \in AfterClockRead
          /\ open_until' >= loc[c].now + BaseCooldown
    /\ ProbeInFlight(c)' =>
         \/ ProbeInFlight(c) /\ loc'[c].now = loc[c].now /\ open_until' = open_until
         \/ /\ open_until # 0 /\ open_until <= loc[c].now /\ loc'[c].now = loc[c].now
            /\ open_until' >= loc[c].now + BaseCooldown
    /\ \/ cooldown' = BaseCooldown \/ Restoring(c)' \/ open_until' # 0
       \/ cooldown' = cooldown /\ open_until' = open_until /\ ~Restoring(c)

LEMMA MovedKeepsBackoff ==
    ASSUME IInv, IInv', BackoffInv, NEW c \in Caller, Moved(c)
    PROVE  BackoffInv'
<1>0. \A d \in Caller : /\ loc[d].now \in Int /\ loc'[d].now \in Int /\ loc[d].now <= clock
  BY Values DEF IInv, TypeOK, Local
<1>1. /\ clock \in Int /\ open_until \in Int /\ open_until' \in Int /\ Stall \in Nat
      /\ BaseCooldown \in Nat \ {0}
  BY DEF IInv, TypeOK
<1>2. \A d \in Caller : CallerSound(d)'
  <2> TAKE d \in Caller
  <2>1. CASE d = c
    BY <2>1 DEF Moved
  <2>2. CASE d # c
    <3>1. pc'[d] = pc[d] /\ loc'[d] = loc[d] /\ clock' = clock /\ CallerSound(d)
      BY <2>2 DEF Moved, BackoffInv
    <3> QED BY <3>1 DEF CallerSound
  <2> QED BY <2>1, <2>2
<1>3. \A d \in Caller : d # c => (ProbeInFlight(d)' <=> ProbeInFlight(d)) /\ loc'[d] = loc[d]
  BY DEF Moved, ProbeInFlight
<1>4. pc[c] \in AfterClockRead => clock <= loc[c].now + Stall
  BY DEF BackoffInv, CallerSound
<1>5. \A d \in Caller : ProbeInFlight(d)' => Shielded(d)'
  <2> SUFFICES ASSUME NEW d \in Caller, ProbeInFlight(d)' PROVE Shielded(d)'
    OBVIOUS
  <2>1. CASE d # c
    <3>1. Shielded(d) /\ loc'[d].now = loc[d].now
      BY <1>3, <2>1 DEF BackoffInv
    <3> QED BY <1>0, <1>1, <1>4, <3>1 DEF Moved, Shielded
  <2>2. CASE d = c
    <3>1. CASE ProbeInFlight(c) /\ loc'[c].now = loc[c].now /\ open_until' = open_until
      BY <2>2, <3>1 DEF Shielded, BackoffInv
    <3>2. CASE loc'[c].now = loc[c].now /\ open_until' >= loc[c].now + BaseCooldown
      BY <1>0, <1>1, <2>2, <3>2 DEF Shielded
    <3> QED BY <2>2, <3>1, <3>2 DEF Moved
  <2> QED BY <2>1, <2>2
<1>6. NoStampede'
  <2> DEFINE Apart(x, y) == x - y >= BaseCooldown - Stall \/ y - x >= BaseCooldown - Stall
  <2>1. ASSUME NEW d \in Caller, d # c, ProbeInFlight(c)', ProbeInFlight(d)'
        PROVE  Apart(loc'[c].now, loc'[d].now)
    <3>1. ProbeInFlight(d) /\ loc'[d].now = loc[d].now /\ Shielded(d)
      BY <1>3, <2>1 DEF BackoffInv
    <3>2. CASE ProbeInFlight(c) /\ loc'[c].now = loc[c].now
      BY <2>1, <3>1, <3>2 DEF BackoffInv, NoStampede
    <3>3. CASE open_until # 0 /\ open_until <= loc[c].now /\ loc'[c].now = loc[c].now
      BY <1>0, <1>1, <3>1, <3>3 DEF Shielded
    <3> QED BY <2>1, <3>2, <3>3 DEF Moved
  <2>2. ASSUME NEW d \in Caller, NEW e \in Caller, d # e, ProbeInFlight(d)', ProbeInFlight(e)'
        PROVE  Apart(loc'[d].now, loc'[e].now)
    <3>1. CASE d # c /\ e # c
      BY <1>3, <2>2, <3>1 DEF BackoffInv, NoStampede
    <3>2. CASE d = c
      BY <2>1, <2>2, <3>2
    <3>3. CASE e = c
      BY <2>1, <2>2, <3>3
    <3> QED BY <3>1, <3>2, <3>3
  <2> QED BY <2>2 DEF NoStampede
<1>7. open_until' = 0 /\ (\A d \in Caller : ~Restoring(d)') => cooldown' = BaseCooldown
  <2> SUFFICES ASSUME open_until' = 0, \A d \in Caller : ~Restoring(d)'
               PROVE  cooldown' = BaseCooldown
    OBVIOUS
  <2>1. CASE cooldown' = cooldown /\ open_until' = open_until /\ ~Restoring(c)
    <3>1. \A d \in Caller : ~Restoring(d)
      BY <2>1 DEF Moved, Restoring
    <3> QED BY <2>1, <3>1 DEF BackoffInv
  <2> QED BY <2>1 DEF Moved
<1> QED BY <1>2, <1>5, <1>6, <1>7 DEF BackoffInv
\* The fields of a caller's locals after its step
LEMMA CallerMoves ==
    ASSUME IInv, BackoffInv, NEW c \in Caller, CallerStep(c)
    PROVE  Moved(c)
<1>0. /\ clock \in Int /\ open_until \in Nat /\ cooldown \in Int /\ cooldown >= BaseCooldown
      /\ BaseCooldown \in Nat \ {0} /\ Stall \in Nat /\ MaxCooldown \in Nat /\ MaxCooldown >= BaseCooldown
      /\ pc \in [Caller -> PC] /\ loc \in [Caller -> Local] /\ loc[c] \in Local
      /\ loc[c].now \in Int /\ loc[c].now >= 0 /\ loc[c].now <= clock /\ loc[c].until \in Int
      /\ loc[c].cooldown \in Int /\ loc[c].cooldown >= BaseCooldown
      /\ loc[c].probe \in BOOLEAN /\ loc[c].was_open \in BOOLEAN /\ loc[c].probe_failed \in BOOLEAN
      /\ probing \in BOOLEAN
  <2>1. /\ clock \in 1..MaxTime /\ open_until \in 0..(MaxTime + MaxCooldown)
        /\ cooldown \in BaseCooldown..MaxCooldown /\ pc \in [Caller -> PC] /\ loc \in [Caller -> Local]
        /\ loc[c] \in Local /\ loc[c].now <= clock /\ probing \in BOOLEAN
    BY Values
  <2>2. /\ loc[c].now \in 0..MaxTime /\ loc[c].until \in 0..(MaxTime + MaxCooldown)
        /\ loc[c].cooldown \in BaseCooldown..MaxCooldown
    BY <2>1 DEF Local
  <2>3. loc[c].probe \in BOOLEAN /\ loc[c].was_open \in BOOLEAN /\ loc[c].probe_failed \in BOOLEAN
    BY <2>1 DEF Local
  <2> QED BY <2>1, <2>2, <2>3
<1>1. CallerSound(c)
  BY DEF BackoffInv
<1> DEFINE Steps(at, l) == pc' = [pc EXCEPT ![c] = at] /\ loc' = [loc EXCEPT ![c] = l]
           Keeps == clock' = clock /\ open_until' = open_until /\ cooldown' = cooldown
<1>2. ASSUME NEW at, NEW l, Steps(at, l)
      PROVE  /\ pc'[c] = at /\ loc'[c] = l
             /\ \A d \in Caller : d # c => pc'[d] = pc[d] /\ loc'[d] = loc[d]
  BY <1>0, <1>2
<1>3. loc = [loc EXCEPT ![c] = loc[c]]
  BY <1>0
<1>4. Blank.probe = FALSE
  BY DEF Blank
<1> HIDE DEF Steps
<1> USE DEF CallerSound, ProbeInFlight, Restoring, AfterClockRead
\* Every kind of step
<1>5. ASSUME NEW at, NEW l, Steps(at, l), Keeps, l.now = loc[c].now,
             at \in {"count", "ok_count", "ok_open", "fail_now", "ok_cooldown",
                    "probe_failed", "read_cooldown", "set_cooldown", "set_open"},
             at \in AfterClockRead => pc[c] \in AfterClockRead,
             ~Restoring(c) \/ at = "ok_cooldown"
      PROVE  Moved(c)
  <2>1. CallerSound(c)'
    BY <1>0, <1>1, <1>2, <1>5
  <2>2. ~ProbeInFlight(c)'
    BY <1>0, <1>2, <1>5
  <2> QED BY <1>2, <1>5, <2>1, <2>2 DEF Moved
<1>6. ASSUME Steps("idle", Blank), Keeps, ~Restoring(c) PROVE Moved(c)
  BY <1>0, <1>1, <1>2, <1>4, <1>6 DEF Moved
<1> USE DEF Goto, shared, Leave
<1>7. CASE AllowLoad(c)
  <2> DEFINE at == IF open_until = 0 THEN "relay" ELSE "allow_now"
             l == [loc[c] EXCEPT !.until = open_until]
  <2>1. Steps(at, l) /\ Keeps /\ pc[c] = "idle"
    BY <1>0, <1>7 DEF AllowLoad, Steps
  <2>2. l.until = open_until /\ l.probe = loc[c].probe
    BY <1>0 DEF Local
  <2> HIDE DEF l
  <2> QED BY <1>0, <1>1, <1>2, <2>1, <2>2 DEF Moved
<1>8. CASE AllowNow(c)
  <2>1. CASE clock >= loc[c].until
    <3> DEFINE l == [loc[c] EXCEPT !.now = clock]
    <3>1. Steps("allow_cooldown", l) /\ Keeps /\ pc[c] = "allow_now"
      BY <1>0, <1>8, <2>1 DEF AllowNow, Steps
    <3>2. l.until = loc[c].until /\ l.probe = loc[c].probe /\ l.now = clock
      BY <1>0 DEF Local
    <3> HIDE DEF l
    <3> QED BY <1>0, <1>1, <1>2, <2>1, <3>1, <3>2 DEF Moved
  <2>2. CASE ~(clock >= loc[c].until)
    <3>1. Steps("idle", Blank) /\ Keeps /\ pc[c] = "allow_now"
      BY <1>0, <1>8, <2>2 DEF AllowNow, Steps
    <3> QED BY <1>6, <3>1
  <2> QED BY <2>1, <2>2
<1>9. CASE AllowCooldown(c)
  <2> DEFINE l == [loc[c] EXCEPT !.cooldown = cooldown]
  <2>1. Steps("allow_cas", l) /\ Keeps /\ pc[c] = "allow_cooldown"
    BY <1>0, <1>9 DEF AllowCooldown, Steps
  <2>2. l.until = loc[c].until /\ l.probe = loc[c].probe /\ l.now = loc[c].now
    BY <1>0 DEF Local
  <2> HIDE DEF l
  <2> QED BY <1>0, <1>1, <1>2, <2>1, <2>2 DEF Moved
<1>10. CASE AllowClaim(c)
  <2>1. CASE open_until = loc[c].until
    <3> DEFINE l == [loc[c] EXCEPT !.probe = TRUE]
    <3>1. /\ Steps("probing_on", l) /\ pc[c] = "allow_cas" /\ clock' = clock /\ cooldown' = cooldown
          /\ open_until' = loc[c].now + loc[c].cooldown
      BY <1>0, <1>10, <2>1 DEF AllowClaim, Steps
    <3>2. l.now = loc[c].now
      BY <1>0 DEF Local
    <3>3. open_until' >= loc[c].now + BaseCooldown /\ open_until' # 0
      BY <1>0, <3>1
    <3> HIDE DEF l
    <3> QED BY <1>0, <1>1, <1>2, <2>1, <3>1, <3>2, <3>3 DEF Moved
  <2>2. CASE open_until # loc[c].until
    <3>1. Steps("idle", Blank) /\ Keeps /\ pc[c] = "allow_cas"
      BY <1>0, <1>10, <2>2 DEF AllowClaim, Steps
    <3> QED BY <1>6, <3>1
  <2> QED BY <2>1, <2>2
<1>11. CASE AllowProbing(c)
  <2>1. Steps("relay", loc[c]) /\ Keeps /\ pc[c] = "probing_on"
    BY <1>3, <1>11 DEF AllowProbing, Steps
  <2> QED BY <1>0, <1>1, <1>2, <2>1 DEF Moved
<1>12. CASE RelayUnasked(c)
  <2>1. Steps("relay", loc[c]) /\ Keeps /\ pc[c] = "idle"
    BY <1>3, <1>12 DEF RelayUnasked, Steps
  <2> QED BY <1>0, <1>1, <1>2, <2>1 DEF Moved
<1>13. CASE RelayOutcome(c)
  <2>1. (Steps("ok_count", loc[c]) \/ Steps("count", loc[c])) /\ Keeps /\ pc[c] = "relay"
    BY <1>3, <1>13 DEF RelayOutcome, Steps
  <2> QED BY <1>5, <2>1
<1>14. CASE RelayAbandoned(c)
  <2>1. Steps("idle", Blank) /\ Keeps /\ pc[c] = "relay"
    BY <1>14 DEF RelayAbandoned, Steps
  <2> QED BY <1>6, <2>1
<1>15. CASE OkCount(c)
  <2>1. Steps("ok_open", loc[c]) /\ Keeps /\ pc[c] = "ok_count"
    BY <1>3, <1>15 DEF OkCount, Steps
  <2> QED BY <1>5, <2>1
<1>16. CASE OkOpen(c)
  <2>1. /\ Steps("ok_probing", loc[c]) /\ pc[c] = "ok_open" /\ clock' = clock
        /\ open_until' = 0 /\ cooldown' = cooldown
    BY <1>3, <1>16 DEF OkOpen, Steps
  <2> QED BY <1>0, <1>2, <2>1 DEF Moved
<1>17. CASE OkProbing(c)
  <2>1. Steps("ok_cooldown", loc[c]) /\ Keeps /\ pc[c] = "ok_probing"
    BY <1>3, <1>17 DEF OkProbing, Steps
  <2> QED BY <1>5, <2>1
<1>18. CASE OkCooldown(c)
  <2>1. /\ Steps("idle", Blank) /\ pc[c] = "ok_cooldown" /\ clock' = clock
        /\ open_until' = open_until /\ cooldown' = BaseCooldown
    BY <1>18 DEF OkCooldown, Steps
  <2> QED BY <1>0, <1>2, <1>4, <2>1 DEF Moved
<1>19. CASE FailCount(c)
  <2>1. /\ Steps("idle", Blank) \/ Steps("fail_now", loc[c])
        /\ Keeps /\ pc[c] = "count"
    BY <1>3, <1>19 DEF FailCount, Steps
  <2> QED BY <1>5, <1>6, <2>1
<1>20. CASE FailNow(c)
  <2> DEFINE l == [loc[c] EXCEPT !.now = clock]
  <2>1. Steps("was_open", l) /\ Keeps /\ pc[c] = "fail_now"
    BY <1>0, <1>20 DEF FailNow, Steps
  <2>2. l.now = clock
    BY <1>0 DEF Local
  <2> HIDE DEF l
  <2> QED BY <1>0, <1>2, <2>1, <2>2 DEF Moved
<1>21. CASE FailWasOpen(c)
  <2> DEFINE l == [loc[c] EXCEPT !.was_open = (open_until # 0)]
  <2>1. Steps("probe_failed", l) /\ Keeps /\ pc[c] = "was_open"
    BY <1>0, <1>21 DEF FailWasOpen, Steps
  <2>2. l.now = loc[c].now
    BY <1>0 DEF Local
  <2> HIDE DEF l
  <2> QED BY <1>5, <2>1, <2>2
<1>22. CASE FailProbe(c)
  <2> DEFINE l == [loc[c] EXCEPT !.probe_failed = probing]
  <2>1. Steps("read_cooldown", l) /\ Keeps /\ pc[c] = "probe_failed"
    BY <1>0, <1>22 DEF FailProbe, Steps
  <2>2. l.now = loc[c].now
    BY <1>0 DEF Local
  <2> HIDE DEF l
  <2> QED BY <1>5, <2>1, <2>2
<1>23. CASE FailReadCooldown(c)
  <2> DEFINE next == 2 * cooldown
             doubled == IF next > MaxCooldown THEN MaxCooldown ELSE next
             l(n) == [loc[c] EXCEPT !.cooldown = n]
  <2>1. /\ Keeps /\ pc[c] = "read_cooldown"
        /\ \/ Steps("idle", Blank) \/ Steps("set_cooldown", l(doubled)) \/ Steps("set_open", l(cooldown))
    BY <1>0, <1>23 DEF FailReadCooldown, Steps
  <2>2. \A n : l(n).now = loc[c].now
    BY <1>0 DEF Local
  <2> HIDE DEF l, doubled, next
  <2> QED BY <1>5, <1>6, <2>1, <2>2
<1>24. CASE FailSetCooldown(c)
  <2>1. /\ Steps("set_open", loc[c]) /\ pc[c] = "set_cooldown" /\ clock' = clock
        /\ open_until' = open_until
    BY <1>3, <1>24 DEF FailSetCooldown, Steps
  <2> QED BY <1>0, <1>1, <1>2, <2>1 DEF Moved
<1>25. CASE FailSetOpen(c)
  <2>1. /\ Steps("idle", Blank) /\ pc[c] = "set_open" /\ clock' = clock /\ cooldown' = cooldown
        /\ open_until' = loc[c].now + loc[c].cooldown
    BY <1>25 DEF FailSetOpen, Steps
  <2>2. open_until' >= loc[c].now + BaseCooldown /\ open_until' # 0
    BY <1>0, <2>1
  <2> QED BY <1>0, <1>1, <1>2, <1>4, <2>1, <2>2 DEF Moved
<1> QED BY <1>7, <1>8, <1>9, <1>10, <1>11, <1>12, <1>13, <1>14, <1>15, <1>16, <1>17, <1>18, <1>19,
           <1>20, <1>21, <1>22, <1>23, <1>24, <1>25 DEF CallerStep

LEMMA BackoffInductive == IInv /\ BackoffInv /\ [Next]_vars => BackoffInv'
<1> SUFFICES ASSUME IInv, BackoffInv, [Next]_vars PROVE BackoffInv'
  OBVIOUS
<1>0. IInv'
  BY Inductive
<1>1. ASSUME NEW c \in Caller, CallerStep(c) PROVE BackoffInv'
  BY <1>0, <1>1, CallerMoves, MovedKeepsBackoff
<1>2. CASE Tick
  <2>1. UNCHANGED <<open_until, cooldown, pc, loc>> /\ clock' = clock + 1
    BY <1>2 DEF Tick, shared
  <2>2. \A c \in Caller : CallerSound(c)'
    <3> TAKE c \in Caller
    <3>1. CallerSound(c) /\ loc[c].now \in Int /\ clock \in Int
      BY Values DEF BackoffInv
    <3>2. pc[c] \in AfterClockRead => clock + 1 - loc[c].now <= Stall
      BY <1>2 DEF Tick
    <3> QED BY <2>1, <3>1, <3>2 DEF CallerSound
  <2> QED BY <2>1, <2>2 DEF BackoffInv, ProbeInFlight, Shielded, NoStampede, Restoring
<1>3. CASE UNCHANGED vars
  BY <1>3 DEF vars, BackoffInv, CallerSound, ProbeInFlight, Shielded, NoStampede, Restoring
<1> QED BY <1>1, <1>2, <1>3 DEF Next, CallerStep

LEMMA BackoffInitial == Init => BackoffInv
<1> SUFFICES ASSUME Init PROVE BackoffInv
  OBVIOUS
<1>1. \A c \in Caller : pc[c] = "idle" /\ loc[c].probe = FALSE
  BY DEF Init, Blank
<1> QED BY <1>1 DEF Init, BackoffInv, CallerSound, ProbeInFlight, NoStampede, AfterClockRead

\* "concurrent callers do not stampede it" (oproxy.c, oproxy_target_allow): for any
\* number of callers, two probes in flight were let through a base cooldown
\* apart, less one preemption; and a closed breaker starts again from the base
\* cooldown, however the stores of successes and failures interleave.
THEOREM BackoffIsHonoured == Spec => []BackoffHonoured
<1>1. IInv /\ BackoffInv /\ [Next]_vars => (IInv /\ BackoffInv)'
  BY Inductive, BackoffInductive
<1>2. Spec => [](IInv /\ BackoffInv)
  BY <1>1, InitHolds, BackoffInitial, PTL DEF Spec
<1> QED BY <1>2, BackoffSound, PTL
-----------------------------------------------------------------------------
(* The pool.  Every open connection has one place.  What is on the wire of  *)
(* an idle connection is at most excess of an earlier response, and a relay *)
(* that finds such bytes before its own head gives up; past the head, what  *)
(* is still to come is the rest of its own response.                        *)

P == Pool!Part

LEMMA CatParts ==
    ASSUME NEW s \in Seq(P), NEW t \in Seq(P)
    PROVE  /\ s \o t \in Seq(P) /\ Len(s \o t) = Len(s) + Len(t)
           /\ \A i \in 1..Len(s) : (s \o t)[i] = s[i]
           /\ \A i \in 1..Len(t) : (s \o t)[Len(s) + i] = t[i]
<1> HIDE DEF P
<1> QED OBVIOUS

LEMMA SubParts ==
    ASSUME NEW s \in Seq(P), NEW m \in 1..(Len(s) + 1), NEW n \in (m - 1)..Len(s)
    PROVE  /\ SubSeq(s, m, n) \in Seq(P) /\ Len(SubSeq(s, m, n)) = n - m + 1
           /\ \A i \in 1..(n - m + 1) : SubSeq(s, m, n)[i] = s[m + i - 1]
<1> HIDE DEF P
<1> QED OBVIOUS

LEMMA ArriveParts ==
    ASSUME NEW s \in Seq(P), NEW t \in Seq(P), t # << >>
    PROVE  /\ Append(s, Head(t)) \in Seq(P) /\ Tail(t) \in Seq(P)
           /\ Append(s, Head(t)) \o Tail(t) = s \o t
<1> HIDE DEF P
<1>1. Append(s, Head(t)) \in Seq(P) /\ Tail(t) \in Seq(P) /\ Len(t) \in Nat \ {0}
  OBVIOUS
<1>2. Append(s, Head(t)) \o Tail(t) = s \o t
  <2>1. Append(s, Head(t)) \o Tail(t) \in Seq(P) /\ s \o t \in Seq(P)
    BY <1>1
  <2>2. Len(Append(s, Head(t)) \o Tail(t)) = Len(s \o t)
    BY <1>1
  <2>3. \A i \in 1..Len(s \o t) : (Append(s, Head(t)) \o Tail(t))[i] = (s \o t)[i]
    BY <1>1
  <2> QED BY <2>1, <2>2, <2>3, SeqEqual
<1> QED BY <1>1, <1>2
\* What is on its way on a connection, arrived or not
Wire(f) == inbox[f] \o due[f]

RelayTypes ==
    /\ idle_fds \in Seq(Fd) /\ Len(idle_fds) <= MaxIdle
    /\ relay_pc \in [Worker -> Pool!PC] /\ fd \in [Worker -> Fd \cup {NoFd}]
    /\ req \in [Worker -> 0..MaxRequests] /\ relayed \in [Worker -> Seq(P)]
    /\ asked \in 0..MaxRequests /\ open \in SUBSET Fd
    /\ inbox \in [Fd -> Seq(P)] /\ due \in [Fd -> Seq(P)] /\ eof \in [Fd -> BOOLEAN]

\* Every open connection has one place
PlacesSound ==
    /\ \A i, j \in DOMAIN idle_fds : idle_fds[i] = idle_fds[j] => i = j
    /\ \A v, w \in Worker : fd[v] = fd[w] /\ fd[v] # NoFd => v = w
    /\ \A i \in DOMAIN idle_fds : \A w \in Worker : idle_fds[i] # fd[w]
    /\ \A i \in DOMAIN idle_fds : idle_fds[i] \in open
    /\ \A w \in Worker : fd[w] # NoFd => fd[w] \in open
    /\ \A f \in open : (\E i \in DOMAIN idle_fds : idle_fds[i] = f) \/ (\E w \in Worker : fd[w] = f)

OnlyExcess(s) == \A i \in 1..Len(s) : s[i].part = "excess"
Stale(s) == Len(s) > 0 /\ s[1].part = "excess"
Fresh(s, r) ==
    \A i \in 1..Len(s) :
        /\ s[i].req = r
        /\ i = 1 => s[i].part = "head"
        /\ i = 2 => s[i].part = IF s[1].framing = "no_body" THEN "excess" ELSE "body"
        /\ i > 2 => s[i].part = "excess"
Remains(s, r, framing) ==
    \A i \in 1..Len(s) :
        /\ s[i].req = r
        /\ framing # "until_close" => s[i].part = IF i = 1 THEN "body" ELSE "excess"

Using == {"check", "write", "head", "body", "return_check", "return_push"}
Ended == {"ok", "return_check", "return_push"}
OwnParts(x, r) == \A i \in 1..Len(x) : x[i].req = r
Whole(x) ==
    /\ Len(x) > 0
    /\ x[1].framing = "no_body" => Len(x) = 1
    /\ x[1].framing \in {"length", "chunked"} => Len(x) = 2 /\ x[2].part = "body"
HeadSent(x) ==
    /\ Len(x) > 0
    /\ x[1].framing \in {"length", "chunked", "until_close"}
    /\ x[1].framing # "until_close" => Len(x) = 1
\* Where a relay of request r is, what it has passed on and what is to come
Agrees(p, r, x, s) ==
    /\ p \in {"check", "write", "return_check", "return_push"} => OnlyExcess(s)
    /\ p = "head" => Stale(s) \/ Fresh(s, r)
    /\ p = "body" => HeadSent(x) /\ Remains(s, r, x[1].framing)
    /\ p \in {"take", "check", "write", "head"} => x = << >>
    /\ p # "done" => r > 0
    /\ OwnParts(x, r)
    /\ p \in Ended => Whole(x)
WorkerSound(w) ==
    /\ fd[w] # NoFd <=> relay_pc[w] \in Using
    /\ Agrees(relay_pc[w], req[w], relayed[w], Wire(fd[w]))

RelayInv ==
    /\ RelayTypes /\ PlacesSound
    /\ \A f \in Fd : f \notin open => inbox[f] = << >> /\ due[f] = << >>
    /\ \A i \in DOMAIN idle_fds : OnlyExcess(Wire(idle_fds[i]))
    /\ \A w \in Worker : WorkerSound(w)

LEMMA PoolCardinality == \A S : Pool!Cardinality(S) = Cardinality(S)
BY DEF Pool!Cardinality, Cardinality

LEMMA RelayInvSound == RelayInv => RelaySound
<1> SUFFICES ASSUME RelayInv PROVE RelaySound
  OBVIOUS
<1>0. RelayTypes /\ PlacesSound /\ \A w \in Worker : WorkerSound(w)
  BY DEF RelayInv
<1>1. \A w \in Worker : relayed[w] \in Seq(P) /\ Len(relayed[w]) \in Nat
                        /\ DOMAIN relayed[w] = 1..Len(relayed[w])
  <2> HIDE DEF P
  <2> QED BY <1>0 DEF RelayTypes
<1>2. Pool!TypeOK
  <2>1. idle_fds \in UNION {[1..n -> Fd] : n \in 0..MaxIdle}
    <3>1. Len(idle_fds) \in 0..MaxIdle /\ idle_fds \in [1..Len(idle_fds) -> Fd]
      BY <1>0, UpstreamAssumption DEF RelayTypes, Pool!PoolAssumption
    <3> QED BY <3>1
  <2>2. \A w \in Worker : \A i \in DOMAIN relayed[w] : relayed[w][i] \in P
    <3> HIDE DEF P
    <3> QED BY <1>1
  <2>3. \A f \in Fd : \A i \in DOMAIN inbox[f] : inbox[f][i] \in P
    <3> HIDE DEF P
    <3> QED BY <1>0 DEF RelayTypes
  <2>4. \A f \in Fd : \A i \in DOMAIN due[f] : due[f][i] \in P
    <3> HIDE DEF P
    <3> QED BY <1>0 DEF RelayTypes
  <2> QED BY <1>0, <2>1, <2>2, <2>3, <2>4 DEF Pool!TypeOK, RelayTypes, P
<1>3. Pool!OneOwner
  <2> DEFINE One(f) == Cardinality(Pool!Owners(f)) + Cardinality(Pool!Places(f))
                        = IF f \in open THEN 1 ELSE 0
  <2> SUFFICES \A f \in Fd : One(f)
    BY PoolCardinality DEF Pool!OneOwner
  <2> TAKE f \in Fd
  <2>0. f # NoFd
    BY UpstreamAssumption DEF Pool!FdAssumption
  <2>1. CASE \E w \in Worker : fd[w] = f
    <3>1. PICK w \in Worker : fd[w] = f
      BY <2>1
    <3>2. Pool!Owners(f) = {w} /\ Pool!Places(f) = {} /\ f \in open
      BY <1>0, <2>0, <3>1 DEF PlacesSound, Pool!Owners, Pool!Places
    <3>3. Cardinality(Pool!Owners(f)) = 1 /\ Cardinality(Pool!Places(f)) = 0
      BY <3>2, FS_EmptySet, FS_Singleton, Zenon
    <3> QED BY <3>2, <3>3
  <2>2. CASE \E i \in DOMAIN idle_fds : idle_fds[i] = f
    <3>1. PICK i \in DOMAIN idle_fds : idle_fds[i] = f
      BY <2>2
    <3>2. Pool!Owners(f) = {} /\ Pool!Places(f) = {i} /\ f \in open
      BY <1>0, <2>0, <3>1 DEF PlacesSound, Pool!Owners, Pool!Places
    <3>3. Cardinality(Pool!Owners(f)) = 0 /\ Cardinality(Pool!Places(f)) = 1
      BY <3>2, FS_EmptySet, FS_Singleton, Zenon
    <3> QED BY <3>2, <3>3
  <2>3. CASE ~(\E w \in Worker : fd[w] = f) /\ ~(\E i \in DOMAIN idle_fds : idle_fds[i] = f)
    <3>1. Pool!Owners(f) = {} /\ Pool!Places(f) = {} /\ f \notin open
      BY <1>0, <2>3 DEF PlacesSound, Pool!Owners, Pool!Places
    <3> QED BY <3>1, FS_EmptySet
  <2> QED BY <2>1, <2>2, <2>3
<1>4. Pool!OwnResponse
  BY <1>0, <1>1 DEF Pool!OwnResponse, WorkerSound, Agrees, OwnParts
<1>5. Pool!OkIsComplete
  <2> SUFFICES ASSUME NEW w \in Worker, relay_pc[w] \in Ended
               PROVE  /\ relayed[w] # << >>
                      /\ relayed[w][1].framing = "no_body" => Len(relayed[w]) = 1
                      /\ relayed[w][1].framing \in {"length", "chunked"} =>
                           Len(relayed[w]) = 2 /\ relayed[w][2].part = "body"
    BY DEF Pool!OkIsComplete, Pool!HeadOf, Ended
  <2>1. Whole(relayed[w])
    BY <1>0 DEF WorkerSound, Agrees
  <2> QED BY <1>1, <2>1 DEF Whole
<1> QED BY <1>2, <1>3, <1>4, <1>5 DEF RelaySound
LEMMA WireParts ==
    ASSUME RelayTypes, NEW f \in Fd
    PROVE  /\ inbox[f] \in Seq(P) /\ due[f] \in Seq(P) /\ Wire(f) \in Seq(P)
           /\ Len(inbox[f]) \in Nat /\ Len(due[f]) \in Nat
           /\ Len(Wire(f)) = Len(inbox[f]) + Len(due[f])
           /\ \A i \in 1..Len(inbox[f]) : Wire(f)[i] = inbox[f][i]
           /\ \A i \in 1..Len(due[f]) : Wire(f)[Len(inbox[f]) + i] = due[f][i]
<1>1. inbox[f] \in Seq(P) /\ due[f] \in Seq(P)
  BY DEF RelayTypes
<1> HIDE DEF P
<1>2. Len(inbox[f]) \in Nat /\ Len(due[f]) \in Nat
  BY <1>1
<1> QED BY <1>1, <1>2, CatParts DEF Wire

\* One worker's step, seen from the others, and the ways it moves a connection
OthersKept(w) ==
    /\ \A v \in Worker : v # w => /\ relay_pc'[v] = relay_pc[v] /\ req'[v] = req[v]
                                  /\ relayed'[v] = relayed[v]
    /\ \A g \in Fd : g # fd[w] => inbox'[g] = inbox[g] /\ due'[g] = due[g]
Stays(w) == fd' = fd /\ idle_fds' = idle_fds /\ open' = open
Closes(w) ==
    /\ fd[w] \in Fd /\ fd' = [fd EXCEPT ![w] = NoFd] /\ idle_fds' = idle_fds
    /\ open' = open \ {fd[w]} /\ inbox'[fd[w]] = << >> /\ due'[fd[w]] = << >>
Connects(w) ==
    /\ fd[w] = NoFd /\ idle_fds' = idle_fds
    /\ \E f \in Fd \ open : fd' = [fd EXCEPT ![w] = f] /\ open' = open \cup {f}
Pops(w) ==
    /\ fd[w] = NoFd /\ Len(idle_fds) > 0 /\ open' = open
    /\ fd' = [fd EXCEPT ![w] = idle_fds[Len(idle_fds)]]
    /\ idle_fds' = SubSeq(idle_fds, 1, Len(idle_fds) - 1)
Pushes(w) ==
    /\ fd[w] \in Fd /\ OnlyExcess(Wire(fd[w])) /\ open' = open /\ inbox' = inbox /\ due' = due
    /\ fd' = [fd EXCEPT ![w] = NoFd] /\ idle_fds' = Append(idle_fds, fd[w])
Rehomes(w) == Stays(w) \/ Closes(w) \/ Connects(w) \/ Pops(w) \/ Pushes(w)

LEMMA PlacesKept ==
    ASSUME RelayInv, NEW w \in Worker, Rehomes(w)
    PROVE  /\ PlacesSound'
           /\ \A v \in Worker : v # w => fd'[v] = fd[v]
           /\ \A i \in DOMAIN idle_fds' : \/ \E j \in DOMAIN idle_fds : idle_fds'[i] = idle_fds[j]
                                          \/ Pushes(w) /\ idle_fds'[i] = fd[w]
<1>0. /\ PlacesSound /\ fd \in [Worker -> Fd \cup {NoFd}] /\ open \in SUBSET Fd
      /\ idle_fds \in Seq(Fd) /\ Len(idle_fds) \in Nat /\ DOMAIN idle_fds = 1..Len(idle_fds)
      /\ NoFd \notin Fd
  BY UpstreamAssumption DEF RelayInv, RelayTypes, Pool!FdAssumption
<1>1. CASE Stays(w)
  BY <1>0, <1>1 DEF Stays, PlacesSound
<1>2. CASE Closes(w)
  BY <1>0, <1>2 DEF Closes, PlacesSound
<1>3. CASE Connects(w)
  BY <1>0, <1>3 DEF Connects, PlacesSound
<1>4. CASE Pops(w)
  <2> DEFINE n == Len(idle_fds)
  <2>0. n \in Nat \ {0} /\ idle_fds' = SubSeq(idle_fds, 1, n - 1)
    BY <1>0, <1>4 DEF Pops
  <2>1. /\ DOMAIN idle_fds' = 1..(n - 1) /\ \A i \in 1..(n - 1) : idle_fds'[i] = idle_fds[i]
        /\ n \in DOMAIN idle_fds /\ \A i \in 1..(n - 1) : i \in DOMAIN idle_fds /\ i # n
        /\ \A i \in DOMAIN idle_fds : i # n => i \in 1..(n - 1)
    <3>1. /\ Len(SubSeq(idle_fds, 1, n - 1)) = n - 1 /\ SubSeq(idle_fds, 1, n - 1) \in Seq(Fd)
          /\ \A i \in 1..(n - 1) : SubSeq(idle_fds, 1, n - 1)[i] = idle_fds[i]
      BY <1>0, <2>0, SubSeqProperties
    <3>2. DOMAIN idle_fds' = 1..(n - 1)
      BY <2>0, <3>1
    <3> HIDE DEF n
    <3>3. \A i \in 1..(n - 1) : idle_fds'[i] = idle_fds[i]
      BY <2>0, <3>1
    <3>4. DOMAIN idle_fds = 1..n
      BY <1>0 DEF n
    <3> QED BY <2>0, <3>2, <3>3, <3>4
  <2>2. fd[w] = NoFd /\ open' = open /\ fd' = [fd EXCEPT ![w] = idle_fds[n]]
    BY <1>4 DEF Pops
  <2> HIDE DEF n
  <2>3. \A v \in Worker : fd'[v] = IF v = w THEN idle_fds[n] ELSE fd[v]
    BY <1>0, <2>2
  <2>4. idle_fds[n] # NoFd /\ idle_fds[n] \in open
    BY <1>0, <2>1 DEF PlacesSound
  <2> QED BY <1>0, <2>1, <2>2, <2>3, <2>4 DEF PlacesSound
<1>5. CASE Pushes(w)
  <2> DEFINE n == Len(idle_fds)
  <2>1. /\ DOMAIN idle_fds' = 1..(n + 1) /\ \A i \in DOMAIN idle_fds : idle_fds'[i] = idle_fds[i]
        /\ idle_fds'[n + 1] = fd[w] /\ \A i \in 1..(n + 1) : i = n + 1 \/ i \in DOMAIN idle_fds
        /\ n + 1 \in 1..(n + 1) /\ \A i \in DOMAIN idle_fds : i \in 1..(n + 1)
    BY <1>0, <1>5 DEF Pushes
  <2>2. open' = open /\ fd' = [fd EXCEPT ![w] = NoFd] /\ fd[w] \in Fd
    BY <1>5 DEF Pushes
  <2> HIDE DEF n
  <2>3. \A v \in Worker : fd'[v] = IF v = w THEN NoFd ELSE fd[v]
    BY <1>0, <2>2
  <2> QED BY <1>0, <1>5, <2>1, <2>2, <2>3 DEF PlacesSound
<1> QED BY <1>1, <1>2, <1>3, <1>4, <1>5 DEF Rehomes

LEMMA StepKeepsRelays ==
    ASSUME RelayInv, RelayTypes', NEW w \in Worker, Rehomes(w), OthersKept(w), WorkerSound(w)'
    PROVE  RelayInv'
<1>0. /\ RelayTypes /\ PlacesSound /\ NoFd \notin Fd
      /\ fd \in [Worker -> Fd \cup {NoFd}] /\ open \in SUBSET Fd
      /\ \A f \in Fd : f \notin open => inbox[f] = << >> /\ due[f] = << >>
      /\ \A i \in DOMAIN idle_fds : OnlyExcess(Wire(idle_fds[i])) /\ idle_fds[i] \in Fd
      /\ \A v \in Worker : WorkerSound(v)
  <2>1. \A i \in DOMAIN idle_fds : idle_fds[i] \in Fd
    BY DEF RelayInv, RelayTypes
  <2> QED BY <2>1, UpstreamAssumption DEF RelayInv, RelayTypes, Pool!FdAssumption
<1>1. /\ PlacesSound'
      /\ \A v \in Worker : v # w => fd'[v] = fd[v]
      /\ \A i \in DOMAIN idle_fds' : \/ \E j \in DOMAIN idle_fds : idle_fds'[i] = idle_fds[j]
                                     \/ Pushes(w) /\ idle_fds'[i] = fd[w]
  BY PlacesKept
<1>2. ASSUME NEW f \in Fd, f \notin open' PROVE inbox'[f] = << >> /\ due'[f] = << >>
  <2>1. CASE f \notin open
    BY <1>0, <1>2, <2>1 DEF OthersKept, PlacesSound
  <2>2. CASE f \in open
    <3>1. Closes(w) /\ f = fd[w]
      BY <1>2, <2>2 DEF Rehomes, Stays, Closes, Connects, Pops, Pushes
    <3> QED BY <3>1 DEF Closes
  <2> QED BY <2>1, <2>2
<1>3. ASSUME NEW i \in DOMAIN idle_fds' PROVE OnlyExcess(Wire(idle_fds[i]))'
  <2>1. CASE Pushes(w) /\ idle_fds'[i] = fd[w]
    BY <2>1 DEF Pushes, Wire
  <2>2. ASSUME NEW j \in DOMAIN idle_fds, idle_fds'[i] = idle_fds[j] PROVE OnlyExcess(Wire(idle_fds[i]))'
    <3>1. idle_fds[j] # fd[w] /\ idle_fds[j] \in Fd /\ OnlyExcess(Wire(idle_fds[j]))
      BY <1>0 DEF PlacesSound
    <3>2. inbox'[idle_fds[j]] = inbox[idle_fds[j]] /\ due'[idle_fds[j]] = due[idle_fds[j]]
      BY <3>1 DEF OthersKept
    <3> QED BY <2>2, <3>1, <3>2 DEF Wire
  <2> QED BY <1>1, <2>1, <2>2
<1>4. ASSUME NEW v \in Worker PROVE WorkerSound(v)'
  <2>1. CASE v = w
    BY <2>1
  <2>2. CASE v # w
    <3>1. /\ relay_pc'[v] = relay_pc[v] /\ req'[v] = req[v] /\ relayed'[v] = relayed[v]
          /\ fd'[v] = fd[v] /\ WorkerSound(v)
      BY <1>0, <1>1, <2>2 DEF OthersKept
    <3>2. fd[v] # NoFd => inbox'[fd[v]] = inbox[fd[v]] /\ due'[fd[v]] = due[fd[v]]
      BY <1>0, <2>2 DEF OthersKept, PlacesSound
    <3>3. fd[v] # NoFd => Wire(fd[v])' = Wire(fd[v])
      BY <3>1, <3>2 DEF Wire
    <3> QED BY <3>1, <3>3 DEF WorkerSound, Agrees, Using
  <2> QED BY <2>1, <2>2
<1> QED BY <1>1, <1>2, <1>3, <1>4 DEF RelayInv
\* A relay closes its connection and ends, or looks for another one.
LEMMA ClosingKeepsRelays ==
    ASSUME RelayInv, NEW w \in Worker, relay_pc[w] \in Using,
           NEW p \in {"take", "ok", "failed"}, NEW x \in Seq(P),
           relay_pc' = [relay_pc EXCEPT ![w] = p], relayed' = [relayed EXCEPT ![w] = x],
           fd' = [fd EXCEPT ![w] = NoFd], open' = open \ {fd[w]},
           inbox' = [inbox EXCEPT ![fd[w]] = << >>], due' = [due EXCEPT ![fd[w]] = << >>],
           eof' = [eof EXCEPT ![fd[w]] = FALSE], UNCHANGED <<idle_fds, req, asked>>,
           OwnParts(x, req[w]), p = "take" => x = << >>, p = "ok" => Whole(x)
    PROVE  RelayInv'
<1> HIDE DEF P
<1>0. RelayTypes /\ WorkerSound(w) /\ NoFd \notin Fd /\ p \in Pool!PC
  BY UpstreamAssumption DEF RelayInv, Pool!FdAssumption, Pool!PC
<1>1. fd[w] \in Fd
  BY <1>0 DEF WorkerSound, RelayTypes
<1>2. RelayTypes'
  BY <1>0, <1>1 DEF RelayTypes
<1>3. Closes(w) /\ OthersKept(w)
  BY <1>0, <1>1 DEF Closes, OthersKept, RelayTypes
<1>4. relay_pc'[w] = p /\ relayed'[w] = x /\ fd'[w] = NoFd /\ req'[w] = req[w]
  BY <1>0 DEF RelayTypes
<1>5. req[w] > 0
  BY <1>0 DEF WorkerSound, Agrees, Using
<1>6. WorkerSound(w)'
  BY <1>0, <1>4, <1>5 DEF WorkerSound, Agrees, Using, Ended
<1> QED BY <1>2, <1>3, <1>6, StepKeepsRelays DEF Rehomes

\* A relay goes on with its connection; s and t are what its wire becomes.
LEMMA GoingOnKeepsRelays ==
    ASSUME RelayInv, NEW w \in Worker, relay_pc[w] \in Using, NEW p \in Using, NEW x \in Seq(P),
           NEW s \in Seq(P), NEW t \in Seq(P),
           relay_pc' = [relay_pc EXCEPT ![w] = p], relayed' = [relayed EXCEPT ![w] = x],
           inbox' = [inbox EXCEPT ![fd[w]] = s], due' = [due EXCEPT ![fd[w]] = t],
           UNCHANGED <<idle_fds, fd, open, eof, req, asked>>,
           Agrees(p, req[w], x, s \o t)
    PROVE  RelayInv'
<1> HIDE DEF P
<1>0. RelayTypes /\ WorkerSound(w) /\ NoFd \notin Fd /\ p \in Pool!PC
  BY UpstreamAssumption DEF RelayInv, Pool!FdAssumption, Pool!PC, Using
<1>1. fd[w] \in Fd
  BY <1>0 DEF WorkerSound, RelayTypes
<1>2. RelayTypes'
  BY <1>0, <1>1 DEF RelayTypes
<1>3. Stays(w) /\ OthersKept(w)
  BY <1>0, <1>1 DEF Stays, OthersKept, RelayTypes
<1>4. relay_pc'[w] = p /\ relayed'[w] = x /\ fd'[w] = fd[w] /\ req'[w] = req[w]
  BY <1>0 DEF RelayTypes
<1>5. Wire(fd[w])' = s \o t
  BY <1>0, <1>1, <1>4 DEF Wire, RelayTypes
<1>6. WorkerSound(w)'
  BY <1>0, <1>1, <1>4, <1>5 DEF WorkerSound
<1> QED BY <1>2, <1>3, <1>6, StepKeepsRelays DEF Rehomes
LEMMA CloseAndEndKeepsRelays ==
    ASSUME RelayInv, NEW w \in Worker, relay_pc[w] \in Using, NEW p \in {"take", "ok", "failed"},
           Pool!CloseAndEnd(w, p), UNCHANGED <<idle_fds, req, relayed, asked>>,
           p = "take" => relayed[w] = << >>, p = "ok" => Whole(relayed[w])
    PROVE  RelayInv'
<1> HIDE DEF P
<1>1. relayed[w] \in Seq(P) /\ OwnParts(relayed[w], req[w])
  BY DEF RelayInv, RelayTypes, WorkerSound, Agrees
<1>2. relayed' = [relayed EXCEPT ![w] = relayed[w]]
  BY DEF RelayInv, RelayTypes
<1>3. /\ relay_pc' = [relay_pc EXCEPT ![w] = p] /\ fd' = [fd EXCEPT ![w] = NoFd]
      /\ open' = open \ {fd[w]} /\ inbox' = [inbox EXCEPT ![fd[w]] = << >>]
      /\ due' = [due EXCEPT ![fd[w]] = << >>] /\ eof' = [eof EXCEPT ![fd[w]] = FALSE]
  BY DEF Pool!CloseAndEnd, Pool!Close, Pool!Goto
<1> QED BY <1>1, <1>2, <1>3, ClosingKeepsRelays

\* A relay passes a check: nothing but its place in the code changes.
LEMMA PassingKeepsRelays ==
    ASSUME RelayInv, NEW w \in Worker, relay_pc[w] \in Using, NEW p \in Using,
           Pool!Goto(w, p), UNCHANGED <<idle_fds, req, relayed, asked, fd, Pool!wire>>,
           Agrees(p, req[w], relayed[w], Wire(fd[w]))
    PROVE  RelayInv'
<1> HIDE DEF P
<1>0. RelayTypes /\ fd[w] \in Fd
  BY DEF RelayInv, RelayTypes, WorkerSound
<1>1. relayed[w] \in Seq(P) /\ inbox[fd[w]] \in Seq(P) /\ due[fd[w]] \in Seq(P)
  BY <1>0 DEF RelayTypes
<1>2. /\ relayed' = [relayed EXCEPT ![w] = relayed[w]] /\ relay_pc' = [relay_pc EXCEPT ![w] = p]
      /\ inbox' = [inbox EXCEPT ![fd[w]] = inbox[fd[w]]]
      /\ due' = [due EXCEPT ![fd[w]] = due[fd[w]]]
  BY <1>0 DEF RelayTypes, Pool!wire, Pool!Goto
<1>3. UNCHANGED <<idle_fds, fd, open, eof, req, asked>>
  BY DEF Pool!wire
<1>4. Agrees(p, req[w], relayed[w], inbox[fd[w]] \o due[fd[w]])
  BY DEF Wire
<1> QED BY <1>1, <1>2, <1>3, <1>4, GoingOnKeepsRelays

LEMMA ChecksKeepRelays ==
    ASSUME RelayInv, NEW w \in Worker, Pool!TakeCheck(w) \/ Pool!ReturnCheck(w)
    PROVE  RelayInv'
<1>0. WorkerSound(w)
  BY DEF RelayInv
<1>1. CASE Pool!TakeCheck(w)
  <2>1. relay_pc[w] = "check" /\ UNCHANGED <<idle_fds, req, relayed, asked>>
    BY <1>1 DEF Pool!TakeCheck
  <2>2. CASE Pool!CloseAndEnd(w, "take")
    BY <1>0, <2>1, <2>2, CloseAndEndKeepsRelays DEF WorkerSound, Agrees, Using
  <2>3. CASE Pool!Goto(w, "write") /\ UNCHANGED <<fd, Pool!wire>>
    <3>1. Agrees("write", req[w], relayed[w], Wire(fd[w]))
      BY <1>0, <2>1 DEF WorkerSound, Agrees, Ended
    <3> QED BY <2>1, <2>3, <3>1, PassingKeepsRelays DEF Using
  <2> QED BY <1>1, <2>2, <2>3 DEF Pool!TakeCheck
<1>2. CASE Pool!ReturnCheck(w)
  <2>1. relay_pc[w] = "return_check" /\ UNCHANGED <<idle_fds, req, relayed, asked>>
    BY <1>2 DEF Pool!ReturnCheck
  <2>2. CASE Pool!CloseAndEnd(w, "ok")
    BY <1>0, <2>1, <2>2, CloseAndEndKeepsRelays DEF WorkerSound, Agrees, Using, Ended
  <2>3. CASE Pool!Goto(w, "return_push") /\ UNCHANGED <<fd, Pool!wire>>
    <3>1. Agrees("return_push", req[w], relayed[w], Wire(fd[w]))
      BY <1>0, <2>1 DEF WorkerSound, Agrees, Ended
    <3> QED BY <2>1, <2>3, <3>1, PassingKeepsRelays DEF Using
  <2> QED BY <1>2, <2>2, <2>3 DEF Pool!ReturnCheck
<1> QED BY <1>1, <1>2

LEMMA CallKeepsRelays ==
    ASSUME RelayInv, NEW w \in Worker, Pool!Call(w)
    PROVE  RelayInv'
<1>0. RelayTypes /\ WorkerSound(w) /\ MaxRequests \in Nat
  BY UpstreamAssumption DEF RelayInv, Pool!PoolAssumption
<1>1. /\ relay_pc[w] \in {"done", "ok", "failed"} /\ asked < MaxRequests /\ asked' = asked + 1
      /\ req' = [req EXCEPT ![w] = asked + 1] /\ relayed' = [relayed EXCEPT ![w] = << >>]
      /\ relay_pc' = [relay_pc EXCEPT ![w] = "take"]
      /\ UNCHANGED <<idle_fds, fd, open, inbox, due, eof>>
  BY DEF Pool!Call, Pool!Goto, Pool!wire
<1> HIDE DEF P
<1>2. RelayTypes'
  BY <1>0, <1>1 DEF RelayTypes, Pool!PC
<1>3. Stays(w) /\ OthersKept(w)
  BY <1>0, <1>1 DEF Stays, OthersKept, RelayTypes
<1>4. fd'[w] = NoFd /\ relay_pc'[w] = "take" /\ relayed'[w] = << >> /\ req'[w] > 0
  BY <1>0, <1>1 DEF RelayTypes, WorkerSound, Using
<1>5. WorkerSound(w)'
  BY <1>4 DEF WorkerSound, Agrees, Using, Ended, OwnParts
<1> QED BY <1>2, <1>3, <1>5, StepKeepsRelays DEF Rehomes

LEMMA TakingKeepsRelays ==
    ASSUME RelayInv, NEW w \in Worker, Pool!TakeIdle(w) \/ Pool!TakeConnect(w)
    PROVE  RelayInv'
<1>0. /\ RelayTypes /\ PlacesSound /\ WorkerSound(w) /\ relay_pc[w] = "take" /\ NoFd \notin Fd
      /\ UNCHANGED <<req, relayed, asked, inbox, due, eof>>
  BY UpstreamAssumption DEF RelayInv, Pool!TakeIdle, Pool!TakeConnect, Pool!wire, Pool!FdAssumption
<1>1. fd[w] = NoFd /\ relayed[w] = << >> /\ req[w] > 0
  BY <1>0 DEF WorkerSound, Agrees, Using
<1> HIDE DEF P
<1>2. CASE Pool!TakeIdle(w)
  <2>1. /\ idle_fds \in Seq(Fd) /\ idle_fds # << >> /\ open' = open
        /\ fd' = [fd EXCEPT ![w] = idle_fds[Len(idle_fds)]]
        /\ idle_fds' = SubSeq(idle_fds, 1, Len(idle_fds) - 1)
        /\ relay_pc' = [relay_pc EXCEPT ![w] = "check"]
    BY <1>0, <1>2 DEF Pool!TakeIdle, Pool!Goto, Pool!wire, RelayTypes
  <2>2. /\ Len(idle_fds) \in Nat \ {0} /\ Len(idle_fds) \in DOMAIN idle_fds
        /\ idle_fds[Len(idle_fds)] \in Fd
    BY <2>1
  <2>3. idle_fds' \in Seq(Fd) /\ Len(idle_fds') = Len(idle_fds) - 1
    <3>1. /\ Len(SubSeq(idle_fds, 1, Len(idle_fds) - 1)) = Len(idle_fds) - 1
          /\ SubSeq(idle_fds, 1, Len(idle_fds) - 1) \in Seq(Fd)
      <4> DEFINE n == Len(idle_fds) - 1
      <4>1. n \in 0..Len(idle_fds) /\ n - 1 + 1 = n
        BY <2>2
      <4> HIDE DEF n
      <4>2. SubSeq(idle_fds, 1, n) \in Seq(Fd) /\ Len(SubSeq(idle_fds, 1, n)) = n - 1 + 1
        BY <2>1, <2>2, <4>1, SubSeqProperties
      <4> QED BY <4>1, <4>2 DEF n
    <3> QED BY <2>1, <3>1
  <2>4. RelayTypes'
    <3>1. Len(idle_fds') <= MaxIdle
      BY <1>0, <2>2, <2>3, UpstreamAssumption DEF RelayTypes, Pool!PoolAssumption
    <3>2. fd' \in [Worker -> Fd \cup {NoFd}] /\ relay_pc' \in [Worker -> Pool!PC]
      BY <1>0, <2>1, <2>2 DEF RelayTypes, Pool!PC
    <3> QED BY <1>0, <2>1, <2>3, <3>1, <3>2 DEF RelayTypes
  <2>5. Pops(w) /\ OthersKept(w)
    BY <1>0, <1>1, <2>1, <2>2 DEF Pops, OthersKept, RelayTypes
  <2>6. /\ fd'[w] = idle_fds[Len(idle_fds)] /\ relay_pc'[w] = "check"
        /\ relayed'[w] = << >> /\ req'[w] > 0 /\ Wire(fd[w])' = Wire(idle_fds[Len(idle_fds)])
    BY <1>0, <1>1, <2>1 DEF RelayTypes, Wire
  <2>7. OnlyExcess(Wire(idle_fds[Len(idle_fds)]))
    BY <2>2 DEF RelayInv
  <2>8. WorkerSound(w)'
    BY <1>0, <2>2, <2>6, <2>7 DEF WorkerSound, Agrees, Using, Ended, OwnParts
  <2> QED BY <2>4, <2>5, <2>8, StepKeepsRelays DEF Rehomes
<1>3. ASSUME Pool!TakeConnect(w), NEW f \in Fd \ open, fd' = [fd EXCEPT ![w] = f],
             open' = open \cup {f}, Pool!Goto(w, "write")
      PROVE  RelayInv'
  <2>1. idle_fds' = idle_fds /\ relay_pc' = [relay_pc EXCEPT ![w] = "write"]
    BY <1>3 DEF Pool!TakeConnect, Pool!Goto
  <2>2. RelayTypes'
    BY <1>0, <1>3, <2>1 DEF RelayTypes, Pool!PC
  <2>3. Connects(w) /\ OthersKept(w)
    BY <1>0, <1>1, <1>3, <2>1 DEF Connects, OthersKept, RelayTypes
  <2>4. /\ fd'[w] = f /\ relay_pc'[w] = "write" /\ relayed'[w] = << >> /\ req'[w] > 0
        /\ Wire(fd[w])' = inbox[f] \o due[f]
    BY <1>0, <1>1, <1>3, <2>1 DEF RelayTypes, Wire
  <2>5. inbox[f] = << >> /\ due[f] = << >>
    BY <1>3 DEF RelayInv
  <2>6. OnlyExcess(Wire(fd[w])')
    BY <2>4, <2>5 DEF OnlyExcess
  <2>7. WorkerSound(w)'
    BY <1>0, <1>3, <2>4, <2>6 DEF WorkerSound, Agrees, Using, Ended, OwnParts
  <2> QED BY <2>2, <2>3, <2>7, StepKeepsRelays DEF Rehomes
<1>4. ASSUME Pool!TakeConnect(w), Pool!Goto(w, "failed"), UNCHANGED <<fd, open>>
      PROVE  RelayInv'
  <2>1. idle_fds' = idle_fds /\ relay_pc' = [relay_pc EXCEPT ![w] = "failed"]
    BY <1>4 DEF Pool!TakeConnect, Pool!Goto
  <2>2. RelayTypes'
    BY <1>0, <1>4, <2>1 DEF RelayTypes, Pool!PC
  <2>3. Stays(w) /\ OthersKept(w)
    BY <1>0, <1>4, <2>1 DEF Stays, OthersKept, RelayTypes
  <2>4. fd'[w] = NoFd /\ relay_pc'[w] = "failed" /\ relayed'[w] = << >> /\ req'[w] > 0
    BY <1>0, <1>1, <1>4, <2>1 DEF RelayTypes
  <2>5. WorkerSound(w)'
    BY <2>4 DEF WorkerSound, Agrees, Using, Ended, OwnParts
  <2> QED BY <2>2, <2>3, <2>5, StepKeepsRelays DEF Rehomes
<1> QED BY <1>2, <1>3, <1>4 DEF Pool!TakeConnect
\* What is on the wire once n parts of the inbox are read
LEMMA DropParts ==
    ASSUME NEW s \in Seq(P), NEW t \in Seq(P), NEW n \in 0..Len(s)
    PROVE  /\ SubSeq(s, n + 1, Len(s)) \in Seq(P)
           /\ SubSeq(s, n + 1, Len(s)) \o t \in Seq(P)
           /\ Len(SubSeq(s, n + 1, Len(s)) \o t) = Len(s \o t) - n
           /\ \A i \in 1..(Len(s \o t) - n) :
                (SubSeq(s, n + 1, Len(s)) \o t)[i] = (s \o t)[n + i]
<1> HIDE DEF P
<1>1. Len(s) \in Nat /\ Len(t) \in Nat /\ n \in Nat /\ n <= Len(s)
  OBVIOUS
<1> DEFINE u == SubSeq(s, n + 1, Len(s))
<1>2. /\ u \in Seq(P) /\ Len(u) = Len(s) - n /\ \A i \in 1..(Len(s) - n) : u[i] = s[n + i]
  <2> DEFINE m == n + 1
             l == Len(s)
  <2>1. m \in 1..(Len(s) + 1) /\ l \in (m - 1)..Len(s)
    BY <1>1
  <2> HIDE DEF m, l
  <2>2. /\ SubSeq(s, m, l) \in Seq(P) /\ Len(SubSeq(s, m, l)) = l - m + 1
        /\ \A i \in 1..(l - m + 1) : SubSeq(s, m, l)[i] = s[m + i - 1]
    BY <2>1, SubParts
  <2>3. l - m + 1 = Len(s) - n /\ \A i \in Int : m + i - 1 = n + i
    BY <1>1 DEF m, l
  <2>4. u = SubSeq(s, m, l)
    BY DEF m, l
  <2> HIDE DEF u
  <2>5. u \in Seq(P) /\ Len(u) = Len(s) - n /\ \A i \in 1..(Len(s) - n) : u[i] = s[m + i - 1]
    BY <2>2, <2>3, <2>4, Zenon
  <2>6. ASSUME NEW i \in 1..(Len(s) - n) PROVE u[i] = s[n + i]
    BY <2>3, <2>5
  <2> QED BY <2>5, <2>6
<1> HIDE DEF u
<1>3. u \o t \in Seq(P) /\ Len(u \o t) = Len(s \o t) - n
  <2>1. u \o t \in Seq(P) /\ Len(u \o t) = Len(u) + Len(t) /\ Len(s \o t) = Len(s) + Len(t)
    BY <1>2, CatParts
  <2> QED BY <1>1, <1>2, <2>1
<1>4. ASSUME NEW i \in 1..(Len(s \o t) - n) PROVE (u \o t)[i] = (s \o t)[n + i]
  <2>0. Len(s \o t) = Len(s) + Len(t) /\ i \in Int
    OBVIOUS
  <2>1. CASE i <= Len(s) - n
    <3>1. (u \o t)[i] = u[i] /\ u[i] = s[n + i]
      BY <1>1, <1>2, <2>1
    <3>2. (s \o t)[n + i] = s[n + i]
      BY <1>1, <2>0, <2>1
    <3> QED BY <3>1, <3>2
  <2>2. CASE i > Len(s) - n
    <3> DEFINE k == i - (Len(s) - n)
    <3>0. k \in 1..Len(t) /\ i = Len(u) + k /\ n + i = Len(s) + k
      BY <1>1, <1>2, <2>0, <2>2
    <3> HIDE DEF k
    <3>1. (u \o t)[Len(u) + k] = t[k]
      BY <1>2, <3>0, CatParts
    <3>2. (s \o t)[Len(s) + k] = t[k]
      BY <3>0, CatParts
    <3> QED BY <3>0, <3>1, <3>2
  <2>3. i <= Len(s) - n \/ i > Len(s) - n
    BY <1>1, <2>0
  <2> QED BY <2>1, <2>2, <2>3
<1> QED BY <1>2, <1>3, <1>4 DEF u

\* The first of the parts, as oproxy_target_relay passes them on
LEMMA TakeParts ==
    ASSUME NEW x \in Seq(P), NEW s \in Seq(P), NEW n \in 0..Len(s)
    PROVE  /\ x \o SubSeq(s, 1, n) \in Seq(P)
           /\ Len(x \o SubSeq(s, 1, n)) = Len(x) + n
           /\ \A i \in 1..Len(x) : (x \o SubSeq(s, 1, n))[i] = x[i]
           /\ \A i \in 1..n : (x \o SubSeq(s, 1, n))[Len(x) + i] = s[i]
<1> HIDE DEF P
<1>1. Len(s) \in Nat /\ Len(x) \in Nat /\ n \in Nat /\ n <= Len(s)
  OBVIOUS
<1> DEFINE u == SubSeq(s, 1, n)
<1>2. u \in Seq(P) /\ Len(u) = n /\ \A i \in 1..n : u[i] = s[i]
  BY <1>1, SubParts
<1> HIDE DEF u
<1>3. /\ x \o u \in Seq(P) /\ Len(x \o u) = Len(x) + n
      /\ \A i \in 1..Len(x) : (x \o u)[i] = x[i]
      /\ \A i \in 1..n : (x \o u)[Len(x) + i] = u[i]
  BY <1>1, <1>2, CatParts
<1> QED BY <1>2, <1>3 DEF u

LEMMA HeadParts ==
    ASSUME NEW h \in P, h.part = "head"
    PROVE  h.framing \in {"no_body", "length", "chunked", "until_close"} /\ h.close \in BOOLEAN
BY DEF P, Pool!Part, Pool!HeadPart, Pool!Framing

\* A relay that ends in a read: its connection is closed with what is unread.
LEMMA EndOfReadKeepsRelays ==
    ASSUME RelayInv, NEW w \in Worker, relay_pc[w] \in Using, NEW n \in Nat, NEW y \in Seq(P),
           \/ Pool!Abort(w) 
           \/ Pool!Complete(w, FALSE) /\ Whole(relayed[w] \o y),
           Pool!Relay(w, y), Pool!Unread(w, n), UNCHANGED <<idle_fds, req, asked>>,
           OwnParts(y, req[w])
    PROVE  RelayInv'
<1>0. /\ RelayTypes /\ fd[w] \in Fd /\ OwnParts(relayed[w], req[w])
  BY DEF RelayInv, RelayTypes, WorkerSound, Agrees
<1> DEFINE x == relayed[w] \o y
<1>1. x \in Seq(P) /\ OwnParts(x, req[w])
  <2> HIDE DEF P
  <2>1. relayed[w] \in Seq(P)
    BY <1>0 DEF RelayTypes
  <2> QED BY <1>0, <2>1 DEF OwnParts
<1>2. relayed' = [relayed EXCEPT ![w] = x]
  BY DEF Pool!Relay
<1>3. /\ fd' = [fd EXCEPT ![w] = NoFd] /\ open' = open \ {fd[w]}
      /\ due' = [due EXCEPT ![fd[w]] = << >>] /\ eof' = [eof EXCEPT ![fd[w]] = FALSE]
  BY DEF Pool!Abort, Pool!Complete
<1>4. inbox' = [inbox EXCEPT ![fd[w]] = << >>]
  BY <1>0, <1>3 DEF Pool!Unread, RelayTypes
<1>5. CASE Pool!Abort(w)
  <2>1. relay_pc' = [relay_pc EXCEPT ![w] = "failed"]
    BY <1>5 DEF Pool!Abort, Pool!Goto
  <2> HIDE DEF x
  <2> QED BY <1>1, <1>2, <1>3, <1>4, <2>1, ClosingKeepsRelays
<1>6. CASE Pool!Complete(w, FALSE) /\ Whole(x)
  <2>1. relay_pc' = [relay_pc EXCEPT ![w] = "ok"]
    BY <1>6 DEF Pool!Complete, Pool!Goto
  <2> HIDE DEF x
  <2> QED BY <1>1, <1>2, <1>3, <1>4, <1>6, <2>1, ClosingKeepsRelays
<1> QED BY <1>5, <1>6

\* A relay that goes on after a read: the rest stays on the wire.
LEMMA ReadOnKeepsRelays ==
    ASSUME RelayInv, NEW w \in Worker, relay_pc[w] \in Using, NEW p \in Using,
           NEW n \in 1..Len(inbox[fd[w]]), NEW y \in Seq(P),
           Pool!Goto(w, p), UNCHANGED <<fd, open, due, eof>>,
           Pool!Relay(w, y), Pool!Unread(w, n), UNCHANGED <<idle_fds, req, asked>>,
           Agrees(p, req[w], relayed[w] \o y,
                  SubSeq(inbox[fd[w]], n + 1, Len(inbox[fd[w]])) \o due[fd[w]])
    PROVE  RelayInv'
<1> HIDE DEF P
<1>0. RelayTypes /\ fd[w] \in Fd /\ NoFd \notin Fd
  BY UpstreamAssumption DEF RelayInv, RelayTypes, WorkerSound, Pool!FdAssumption
<1>1. relayed[w] \in Seq(P) /\ inbox[fd[w]] \in Seq(P) /\ due[fd[w]] \in Seq(P)
  BY <1>0 DEF RelayTypes
<1> DEFINE s == SubSeq(inbox[fd[w]], n + 1, Len(inbox[fd[w]]))
           x == relayed[w] \o y
<1>2. s \in Seq(P) /\ x \in Seq(P)
  <2>1. n \in 0..Len(inbox[fd[w]])
    BY <1>1
  <2> QED BY <1>1, <2>1, DropParts
<1>3. /\ relayed' = [relayed EXCEPT ![w] = x] /\ relay_pc' = [relay_pc EXCEPT ![w] = p]
      /\ inbox' = [inbox EXCEPT ![fd[w]] = s]
      /\ due' = [due EXCEPT ![fd[w]] = due[fd[w]]]
  BY <1>0 DEF RelayTypes, Pool!Unread, Pool!Relay, Pool!Goto
<1> HIDE DEF s, x
<1>4. Agrees(p, req[w], x, s \o due[fd[w]])
  BY DEF s, x
<1> QED BY <1>1, <1>2, <1>3, <1>4, GoingOnKeepsRelays
LEMMA ResponseParts ==
    ASSUME NEW r \in 1..MaxRequests, NEW s \in Pool!Response(r)
    PROVE  s \in Seq(P) /\ Fresh(s, r)
<1> DEFINE head(fr, cl) == [part |-> "head", req |-> r, framing |-> fr, close |-> cl]
           body == [part |-> "body", req |-> r]
           excess == [part |-> "excess", req |-> r]
           NoBody == {<<head("no_body", cl)>> : cl \in BOOLEAN}
           Body == {<<head(fr, cl), body>> : fr \in Pool!Framing \ {"no_body"}, cl \in BOOLEAN}
<1>1. /\ \A fr \in Pool!Framing, cl \in BOOLEAN : head(fr, cl) \in P
      /\ body \in P /\ excess \in P
  BY DEF P, Pool!Part, Pool!HeadPart, Pool!Request
<1>2. s \in NoBody \cup Body \/ \E y \in NoBody \cup Body : s = Append(y, excess)
  BY DEF Pool!Response
<1>3. ASSUME NEW y \in NoBody PROVE y \in Seq(P) /\ Fresh(y, r) /\ Append(y, excess) \in Seq(P) /\ Fresh(Append(y, excess), r)
  <2>1. PICK cl \in BOOLEAN : y = <<head("no_body", cl)>>
    BY <1>3
  <2> DEFINE h == head("no_body", cl)
  <2>2. h \in P /\ h.part = "head" /\ h.req = r /\ h.framing = "no_body"
    BY <1>1 DEF Pool!Framing
  <2>3. excess.part = "excess" /\ excess.req = r /\ excess \in P
    BY <1>1
  <2>4. y = <<h>>
    BY <2>1
  <2> HIDE DEF h, excess, P
  <2> QED BY <2>2, <2>3, <2>4 DEF Fresh
<1>4. ASSUME NEW y \in Body PROVE y \in Seq(P) /\ Fresh(y, r) /\ Append(y, excess) \in Seq(P) /\ Fresh(Append(y, excess), r)
  <2>1. PICK fr \in Pool!Framing \ {"no_body"}, cl \in BOOLEAN : y = <<head(fr, cl), body>>
    BY <1>4
  <2> DEFINE h == head(fr, cl)
  <2>2. h \in P /\ h.part = "head" /\ h.req = r /\ h.framing # "no_body"
    BY <1>1
  <2>3. excess.part = "excess" /\ excess.req = r /\ excess \in P
    BY <1>1
  <2>4. body.part = "body" /\ body.req = r /\ body \in P
    BY <1>1
  <2>5. y = <<h, body>>
    BY <2>1
  <2> HIDE DEF h, body, excess, P
  <2> QED BY <2>2, <2>3, <2>4, <2>5 DEF Fresh
<1> HIDE DEF NoBody, Body, excess, P
<1> QED BY <1>2, <1>3, <1>4

LEMMA WriteKeepsRelays ==
    ASSUME RelayInv, NEW w \in Worker, Pool!Write(w)
    PROVE  RelayInv'
<1> HIDE DEF P
<1> DEFINE f == fd[w]
           r == req[w]
<1>0. /\ RelayTypes /\ WorkerSound(w) /\ relay_pc[w] = "write" /\ relay_pc[w] \in Using
      /\ UNCHANGED <<idle_fds, req, relayed, asked>>
  BY DEF RelayInv, Pool!Write, Using
<1>1. f \in Fd /\ relayed[w] = << >> /\ r \in 1..MaxRequests /\ OnlyExcess(Wire(f))
  <2>1. f \in Fd /\ relayed[w] = << >> /\ r > 0 /\ OnlyExcess(Wire(f))
    BY <1>0 DEF WorkerSound, Agrees, RelayTypes
  <2>2. r \in 0..MaxRequests /\ MaxRequests \in Nat
    BY <1>0, UpstreamAssumption DEF RelayTypes, Pool!PoolAssumption
  <2> QED BY <2>1, <2>2
<1>2. CASE Pool!CloseAndEnd(w, "failed")
  BY <1>0, <1>2, CloseAndEndKeepsRelays
<1>3. ASSUME NEW s \in Seq(P), Fresh(s, r) \/ s = << >>,
             due' = [due EXCEPT ![f] = due[f] \o s],
             Pool!Goto(w, "head"), UNCHANGED <<fd, open, inbox, eof>>
      PROVE  RelayInv'
  <2>1. inbox[f] \in Seq(P) /\ due[f] \in Seq(P) /\ << >> \in Seq(P)
    BY <1>0, <1>1 DEF RelayTypes
  <2> DEFINE a == inbox[f]
             b == due[f]
             e == a \o b
             t == b \o s
             z == a \o t
  <2>2. t \in Seq(P) /\ z \in Seq(P) /\ e \in Seq(P) /\ OnlyExcess(e)
    BY <1>1, <1>3, <2>1 DEF Wire
  <2>3. Stale(z) \/ Fresh(z, r)
    <3> HIDE DEF a, b
    <3>0. /\ a \in Seq(P) /\ b \in Seq(P) /\ e = a \o b /\ t = b \o s /\ z = a \o t
          /\ s \in Seq(P) /\ Len(a) \in Nat /\ Len(b) \in Nat /\ Len(s) \in Nat
      BY <1>3, <2>1 DEF a, b
    <3>1. CASE Len(e) = 0
      <4>1. a = << >> /\ b = << >>
        <5>1. Len(a) + Len(b) = 0
          BY <3>0, <3>1, CatParts
        <5>2. Len(a) = 0 /\ Len(b) = 0
          BY <3>0, <5>1
        <5> QED BY <3>0, <5>2
      <4>2. z = s
        BY <3>0, <4>1
      <4>3. Fresh(<< >>, r)
        BY DEF Fresh
      <4> HIDE DEF z
      <4> QED BY <1>3, <4>2, <4>3
    <3>2. CASE Len(e) > 0
      <4>1. Len(z) > 0 /\ z[1] = e[1]
        <5>1. CASE Len(a) > 0
          <6>1. e[1] = a[1] /\ z[1] = a[1] /\ Len(z) > 0
            BY <2>2, <3>0, <5>1
          <6> QED BY <6>1
        <5>2. CASE Len(a) = 0
          <6>1. a = << >> /\ Len(b) > 0
            BY <3>0, <3>2, <5>2
          <6>2. e = b /\ z = t
            BY <2>2, <3>0, <6>1
          <6>3. Len(t) > 0 /\ t[1] = b[1]
            BY <3>0, <6>1
          <6> HIDE DEF e, z, t
          <6> QED BY <6>2, <6>3
        <5>3. Len(a) > 0 \/ Len(a) = 0
          BY <3>0
        <5> HIDE DEF e, z, t
        <5> QED BY <5>1, <5>2, <5>3
      <4>2. e[1].part = "excess"
        BY <2>2, <3>2 DEF OnlyExcess
      <4> QED BY <4>1, <4>2 DEF Stale
    <3>3. Len(e) \in Nat
      BY <2>2
    <3> QED BY <3>1, <3>2, <3>3
  <2>4. Agrees("head", r, << >>, z)
    BY <1>1, <2>3 DEF Agrees, OwnParts, Ended
  <2>5. /\ relay_pc' = [relay_pc EXCEPT ![w] = "head"] /\ relayed' = [relayed EXCEPT ![w] = << >>]
        /\ inbox' = [inbox EXCEPT ![fd[w]] = a] /\ due' = [due EXCEPT ![fd[w]] = t]
    BY <1>0, <1>1, <1>3 DEF RelayTypes, Pool!Goto
  <2> HIDE DEF t
  <2>6. Agrees("head", req[w], << >>, a \o t)
    BY <2>4
  <2> HIDE DEF a
  <2>7. a \in Seq(P)
    BY <2>1 DEF a
  <2>8. t \in Seq(P) /\ "head" \in Using /\ UNCHANGED <<idle_fds, fd, open, eof, req, asked>>
    BY <1>0, <1>3, <2>2 DEF Using
  <2> QED BY <1>0, <2>1, <2>5, <2>6, <2>7, <2>8, GoingOnKeepsRelays
<1>4. ASSUME eof[f], due' = due, Pool!Goto(w, "head"), UNCHANGED <<fd, open, inbox, eof>>
      PROVE  RelayInv'
  <2>1. << >> \in Seq(P) /\ due[f] \in Seq(P)
    BY <1>0, <1>1 DEF RelayTypes
  <2>2. due[f] \o << >> = due[f]
    BY <2>1
  <2>3. due' = [due EXCEPT ![f] = due[f] \o << >>]
    BY <1>0, <1>1, <1>4, <2>2 DEF RelayTypes
  <2> QED BY <1>3, <1>4, <2>1, <2>3
<1>5. ASSUME NEW s \in Pool!Response(r), due' = [due EXCEPT ![f] = due[f] \o s],
             Pool!Goto(w, "head"), UNCHANGED <<fd, open, inbox, eof>>
      PROVE  RelayInv'
  <2>1. s \in Seq(P) /\ Fresh(s, r)
    BY <1>1, ResponseParts
  <2> QED BY <1>3, <1>5, <2>1
<1> QED BY <1>2, <1>4, <1>5 DEF Pool!Write
\* What a relay in "head" knows once the first part of its inbox is a head: the
\* wire holds its own response, split at part n into what it takes and the rest.
LEMMA FreshSplit ==
    ASSUME NEW s \in Seq(P), NEW t \in Seq(P), NEW n \in 1..Len(s), NEW c \in 0..n,
           NEW r, Fresh(s \o t, r)
    PROVE  LET x == << >> \o SubSeq(s, 1, c)
               u == SubSeq(s, n + 1, Len(s)) \o t
               framing == s[1].framing
           IN  /\ SubSeq(s, 1, c) \in Seq(P) /\ OwnParts(x, r) /\ OwnParts(SubSeq(s, 1, c), r)
               /\ x \in Seq(P) /\ Len(x) = c
               /\ s[1].part = "head"
               /\ c >= 1 => x[1] = s[1]
               /\ c >= 2 /\ framing # "no_body" => x[2].part = "body"
               /\ n >= 2 \/ framing = "no_body" => OnlyExcess(u)
               /\ n = 1 /\ framing # "no_body" => Remains(u, r, framing)
               /\ framing = "until_close" => Remains(u, r, framing)
<1> HIDE DEF P
<1> DEFINE y == SubSeq(s, 1, c)
           x == << >> \o y
           u == SubSeq(s, n + 1, Len(s)) \o t
           z == s \o t
           framing == s[1].framing
<1>0. Len(s) \in Nat /\ Len(t) \in Nat /\ n \in Nat \ {0} /\ n <= Len(s) /\ c \in Nat /\ c <= n
      /\ c \in 0..Len(s) /\ n \in 0..Len(s)
  OBVIOUS
<1>1. y \in Seq(P) /\ Len(y) = c /\ \A i \in 1..c : y[i] = s[i]
  BY <1>0, SubParts
<1>2. z \in Seq(P) /\ Len(z) = Len(s) + Len(t) /\ \A i \in 1..Len(s) : z[i] = s[i]
  BY CatParts
<1>3. u \in Seq(P) /\ Len(u) = Len(z) - n /\ \A i \in 1..(Len(z) - n) : u[i] = z[n + i]
  BY <1>0, DropParts
<1>4. x = y
  BY <1>1
<1> HIDE DEF x, y, u, z
<1>5. Fresh(z, r)
  BY DEF z
<1>6. s[1] = z[1] /\ s[1].part = "head" /\ \A i \in 1..c : y[i] = z[i] /\ z[i].req = r
  BY <1>0, <1>1, <1>2, <1>5 DEF Fresh
<1>7. OwnParts(y, r)
  BY <1>1, <1>6 DEF OwnParts
<1>8. c >= 1 => y[1] = s[1]
  BY <1>0, <1>1
<1>9. ASSUME c >= 2, framing # "no_body" PROVE y[2].part = "body"
  BY <1>0, <1>1, <1>2, <1>5, <1>6, <1>9 DEF Fresh
<1>10. ASSUME n >= 2 \/ framing = "no_body" PROVE OnlyExcess(u)
  <2> SUFFICES ASSUME NEW i \in 1..Len(u) PROVE u[i].part = "excess"
    BY DEF OnlyExcess
  <2>1. n + i \in 1..Len(z) /\ n + i > 1 /\ u[i] = z[n + i]
    <3>1. i \in 1..(Len(z) - n) /\ Len(z) \in Nat
      BY <1>0, <1>2, <1>3
    <3> QED BY <1>0, <1>3, <3>1
  <2>2. n + i > 2 \/ (n + i = 2 /\ z[1].framing = "no_body")
    BY <1>0, <1>6, <1>10, <2>1
  <2> QED BY <1>5, <2>1, <2>2 DEF Fresh
<1>11. ASSUME n = 1, framing # "no_body" PROVE Remains(u, r, framing)
  <2> SUFFICES ASSUME NEW i \in 1..Len(u)
               PROVE  u[i].req = r /\ u[i].part = IF i = 1 THEN "body" ELSE "excess"
    BY DEF Remains
  <2>1. n + i \in 1..Len(z) /\ u[i] = z[n + i] /\ (i = 1 => n + i = 2) /\ (i # 1 => n + i > 2)
    BY <1>0, <1>2, <1>3, <1>11
  <2> QED BY <1>5, <1>6, <1>11, <2>1 DEF Fresh
<1>12. ASSUME framing = "until_close" PROVE Remains(u, r, framing)
  <2> SUFFICES ASSUME NEW i \in 1..Len(u) PROVE u[i].req = r
    BY <1>12 DEF Remains
  <2>1. n + i \in 1..Len(z) /\ u[i] = z[n + i]
    BY <1>0, <1>2, <1>3
  <2> QED BY <1>5, <2>1 DEF Fresh
<1>13. /\ y \in Seq(P) /\ OwnParts(x, r) /\ OwnParts(y, r) /\ x \in Seq(P) /\ Len(x) = c
       /\ (c >= 1 => x[1] = s[1])
       /\ (c >= 2 /\ framing # "no_body" => x[2].part = "body")
  BY <1>1, <1>4, <1>7, <1>8, <1>9
<1> QED BY <1>6, <1>10, <1>11, <1>12, <1>13 DEF x, y, u

LEMMA HeadKeepsRelays ==
    ASSUME RelayInv, NEW w \in Worker, Pool!ReadHead(w)
    PROVE  RelayInv'
<1> HIDE DEF P
<1> DEFINE f == fd[w]
           r == req[w]
           s == inbox[f]
           head == s[1]
           isHead == head.part = "head"
           covered(n) == IF ~isHead THEN 0
                         ELSE CASE head.framing = "no_body" -> 1
                                [] head.framing = "until_close" -> n
                                [] OTHER -> IF n > 1 THEN 2 ELSE 1
           overrun(n) == ~isHead \/ n > covered(n)
           whole(n) == /\ isHead
                       /\ \/ head.framing = "no_body"
                          \/ head.framing # "until_close" /\ covered(n) = 2
<1>0. /\ RelayTypes /\ WorkerSound(w) /\ relay_pc[w] = "head" /\ relay_pc[w] \in Using
      /\ UNCHANGED <<idle_fds, req, asked>>
  BY DEF RelayInv, Pool!ReadHead, Using
<1>1. PICK n \in 1..Len(s) :
        /\ CASE overrun(n) -> Pool!Abort(w)
             [] ~overrun(n) /\ whole(n) -> Pool!Complete(w, ~head.close)
             [] OTHER -> Pool!Goto(w, "body") /\ UNCHANGED <<fd, open, due, eof>>
        /\ Pool!Relay(w, SubSeq(s, 1, covered(n)))
        /\ Pool!Unread(w, n)
  BY DEF Pool!ReadHead
<1>2. /\ f \in Fd /\ relayed[w] = << >> /\ s \in Seq(P) /\ due[f] \in Seq(P) /\ r > 0
      /\ Stale(Wire(f)) \/ Fresh(Wire(f), r)
  BY <1>0 DEF WorkerSound, Agrees, RelayTypes
<1>3. n \in Nat /\ n >= 1 /\ n <= Len(s) /\ Len(s) \in Nat /\ head \in P /\ Wire(f)[1] = head
  <2>1. n \in Nat /\ n >= 1 /\ n <= Len(s) /\ Len(s) \in Nat
    BY <1>1, <1>2
  <2>2. 1 \in 1..Len(s)
    BY <2>1
  <2>3. head \in P
    BY <1>2, <2>2
  <2>4. Wire(f)[1] = inbox[f][1]
    <3> HIDE DEF f
    <3> QED BY <1>0, <1>2, <2>2, WireParts DEF s
  <2> QED BY <2>1, <2>3, <2>4
<1> DEFINE c == covered(n)
           y == SubSeq(s, 1, c)
           x == relayed[w] \o y
           u == SubSeq(s, n + 1, Len(s)) \o due[f]
<1>4. CASE head.part # "head"
  <2>1. c = 0 /\ Pool!Abort(w)
    BY <1>1, <1>4
  <2>2. y \in Seq(P) /\ y = << >>
    BY <1>2, <2>1
  <2>3. OwnParts(y, r) /\ Pool!Relay(w, y)
    BY <1>1, <2>2 DEF OwnParts
  <2> HIDE DEF y
  <2> QED BY <1>0, <1>1, <1>3, <2>1, <2>2, <2>3, EndOfReadKeepsRelays
<1>5. CASE head.part = "head"
  <2>0. Fresh(s \o due[f], r) /\ head.framing \in {"no_body", "length", "chunked", "until_close"}
        /\ head.close \in BOOLEAN
    BY <1>2, <1>3, <1>5, HeadParts DEF Stale, Wire
  <2>1. c = IF head.framing = "no_body" THEN 1
            ELSE IF head.framing = "until_close" THEN n ELSE IF n > 1 THEN 2 ELSE 1
    BY <1>5
  <2>2. c \in 0..n /\ c >= 1
    BY <1>3, <2>1
  <2>3. /\ y \in Seq(P) /\ OwnParts(x, r) /\ OwnParts(y, r) /\ x \in Seq(P) /\ Len(x) = c
        /\ x[1] = head
        /\ c >= 2 /\ head.framing # "no_body" => x[2].part = "body"
        /\ n >= 2 \/ head.framing = "no_body" => OnlyExcess(u)
        /\ n = 1 /\ head.framing # "no_body" => Remains(u, r, head.framing)
        /\ head.framing = "until_close" => Remains(u, r, head.framing)
    <3>1. x = << >> \o y
      BY <1>2
    <3> DEFINE t == due[f]
    <3>2. s \in Seq(P) /\ t \in Seq(P) /\ n \in 1..Len(s) /\ Fresh(s \o t, r)
      BY <1>1, <1>2, <2>0
    <3> HIDE DEF c, s, t, r
    <3>3. /\ SubSeq(s, 1, c) \in Seq(P) /\ OwnParts(<< >> \o SubSeq(s, 1, c), r)
          /\ OwnParts(SubSeq(s, 1, c), r)
          /\ << >> \o SubSeq(s, 1, c) \in Seq(P) /\ Len(<< >> \o SubSeq(s, 1, c)) = c
          /\ c >= 1 => (<< >> \o SubSeq(s, 1, c))[1] = s[1]
          /\ c >= 2 /\ s[1].framing # "no_body" => (<< >> \o SubSeq(s, 1, c))[2].part = "body"
          /\ n >= 2 \/ s[1].framing = "no_body" => OnlyExcess(SubSeq(s, n + 1, Len(s)) \o t)
          /\ n = 1 /\ s[1].framing # "no_body" =>
               Remains(SubSeq(s, n + 1, Len(s)) \o t, r, s[1].framing)
          /\ s[1].framing = "until_close" => Remains(SubSeq(s, n + 1, Len(s)) \o t, r, s[1].framing)
      BY <2>2, <3>2, FreshSplit
    <3> QED BY <2>2, <3>1, <3>3 DEF t
  <2>4. Pool!Relay(w, y)
    BY <1>1
  <2>5. CASE n > c
    <3>1. Pool!Abort(w)
      BY <1>1, <1>5, <2>5
    <3> HIDE DEF y
    <3> QED BY <1>0, <1>1, <1>3, <2>3, <2>4, <3>1, EndOfReadKeepsRelays
  <2>6. CASE n = c /\ whole(n)
    <3>1. Pool!Complete(w, ~head.close)
      BY <1>1, <1>5, <2>6
    <3>2. Whole(x) /\ OnlyExcess(u)
      <4>1. head.framing = "no_body" \/ (head.framing \in {"length", "chunked"} /\ c = 2)
        BY <2>0, <2>6
      <4>2. c = 1 \/ c >= 2
        BY <2>1, <1>3, <4>1
      <4>3. head.framing = "no_body" => c = 1
        BY <2>1
      <4> HIDE DEF c, x, u
      <4> QED BY <2>3, <2>6, <4>1, <4>2, <4>3 DEF Whole
    <3>3. CASE head.close
      <4>1. Pool!Complete(w, FALSE)
        BY <2>0, <3>1, <3>3 DEF Pool!Complete
      <4> HIDE DEF y
      <4> QED BY <1>0, <1>1, <1>3, <2>3, <2>4, <3>2, <4>1, EndOfReadKeepsRelays
    <3>4. CASE ~head.close
      <4>1. Pool!Goto(w, "return_check") /\ UNCHANGED <<fd, open, due, eof>>
        BY <3>1, <3>4 DEF Pool!Complete
      <4>2. Agrees("return_check", r, x, u)
        BY <1>2, <2>3, <3>2 DEF Agrees, Ended
      <4> HIDE DEF y, c
      <4> QED BY <1>0, <1>1, <2>3, <2>4, <4>1, <4>2, ReadOnKeepsRelays DEF Using
    <3> QED BY <2>0, <3>3, <3>4
  <2>7. CASE n = c /\ ~whole(n)
    <3>1. Pool!Goto(w, "body") /\ UNCHANGED <<fd, open, due, eof>>
      BY <1>1, <1>3, <1>5, <2>7
    <3>2. HeadSent(x) /\ Remains(u, r, head.framing)
      <4>1. head.framing = "until_close" \/ (head.framing \in {"length", "chunked"} /\ n = 1)
        BY <1>3, <1>5, <2>0, <2>1, <2>7
      <4> HIDE DEF c, x, u
      <4> QED BY <1>3, <2>3, <2>7, <4>1 DEF HeadSent
    <3>3. Agrees("body", r, x, u)
      BY <1>2, <2>3, <3>2 DEF Agrees, Ended
    <3> HIDE DEF y, c
    <3> QED BY <1>0, <1>1, <2>3, <2>4, <3>1, <3>3, ReadOnKeepsRelays DEF Using
  <2> HIDE DEF c
  <2> QED BY <1>3, <2>2, <2>5, <2>6, <2>7
<1> QED BY <1>4, <1>5
\* The same past the head: what follows is the body, then excess.
LEMMA BodySplit ==
    ASSUME NEW x \in Seq(P), NEW s \in Seq(P), NEW t \in Seq(P), NEW n \in 1..Len(s),
           NEW r, NEW framing, OwnParts(x, r), Remains(s \o t, r, framing)
    PROVE  /\ SubSeq(s, 1, n) \in Seq(P) /\ OwnParts(SubSeq(s, 1, n), r)
           /\ OwnParts(x \o SubSeq(s, 1, n), r)
           /\ Len(x \o SubSeq(s, 1, n)) = Len(x) + n
           /\ Len(x) > 0 => (x \o SubSeq(s, 1, n))[1] = x[1]
           /\ framing # "until_close" =>
                /\ (x \o SubSeq(s, 1, n))[Len(x) + 1].part = "body"
                /\ OnlyExcess(SubSeq(s, n + 1, Len(s)) \o t)
           /\ framing = "until_close" =>
                Remains(SubSeq(s, n + 1, Len(s)) \o t, r, framing)
<1> HIDE DEF P
<1> DEFINE y == SubSeq(s, 1, n)
           v == x \o y
           u == SubSeq(s, n + 1, Len(s)) \o t
           z == s \o t
<1>0. /\ Len(s) \in Nat /\ Len(t) \in Nat /\ Len(x) \in Nat /\ n \in Nat \ {0} /\ n <= Len(s)
      /\ n \in 0..Len(s)
  OBVIOUS
<1>1. y \in Seq(P) /\ Len(y) = n /\ \A i \in 1..n : y[i] = s[i]
  BY <1>0, SubParts
<1>2. z \in Seq(P) /\ Len(z) = Len(s) + Len(t) /\ \A i \in 1..Len(s) : z[i] = s[i]
  BY CatParts
<1>3. u \in Seq(P) /\ Len(u) = Len(z) - n /\ \A i \in 1..(Len(z) - n) : u[i] = z[n + i]
  BY <1>0, DropParts
<1>4. /\ v \in Seq(P) /\ Len(v) = Len(x) + n /\ \A i \in 1..Len(x) : v[i] = x[i]
      /\ \A i \in 1..n : v[Len(x) + i] = s[i]
  BY <1>0, TakeParts
<1> HIDE DEF y, v, u, z
<1>5. Remains(z, r, framing)
  BY DEF z
<1>6. \A i \in 1..n : s[i] = z[i] /\ z[i].req = r
  BY <1>0, <1>2, <1>5 DEF Remains
<1>7. OwnParts(y, r)
  BY <1>1, <1>6 DEF OwnParts
<1>8. OwnParts(v, r)
  <2> SUFFICES ASSUME NEW i \in 1..Len(v) PROVE v[i].req = r
    BY DEF OwnParts
  <2>1. CASE i <= Len(x)
    BY <1>0, <1>4, <2>1 DEF OwnParts
  <2>2. CASE i > Len(x)
    <3> DEFINE k == i - Len(x)
    <3>1. k \in 1..n /\ i = Len(x) + k
      BY <1>0, <1>4, <2>2
    <3> HIDE DEF k
    <3> QED BY <1>4, <1>6, <3>1
  <2>3. i <= Len(x) \/ i > Len(x)
    BY <1>0, <1>4
  <2> QED BY <2>1, <2>2, <2>3
<1>9. Len(x) > 0 => v[1] = x[1]
  BY <1>0, <1>4
<1>10. ASSUME framing # "until_close" PROVE v[Len(x) + 1].part = "body"
  <2>1. 1 \in 1..n /\ 1 \in 1..Len(z)
    BY <1>0, <1>2
  <2>2. v[Len(x) + 1] = z[1] /\ z[1].part = "body"
    BY <1>4, <1>5, <1>6, <1>10, <2>1 DEF Remains
  <2> QED BY <2>2
<1>11. ASSUME NEW i \in 1..Len(u) PROVE n + i \in 1..Len(z) /\ n + i # 1 /\ u[i] = z[n + i]
  <2>1. i \in 1..(Len(z) - n) /\ Len(z) \in Nat
    BY <1>0, <1>2, <1>3
  <2> QED BY <1>0, <1>3, <2>1
<1>12. ASSUME framing # "until_close" PROVE OnlyExcess(u)
  <2> SUFFICES ASSUME NEW i \in 1..Len(u) PROVE u[i].part = "excess"
    BY DEF OnlyExcess
  <2>1. n + i \in 1..Len(z) /\ n + i # 1 /\ u[i] = z[n + i]
    BY <1>11
  <2> QED BY <1>5, <1>12, <2>1 DEF Remains
<1>13. ASSUME framing = "until_close" PROVE Remains(u, r, framing)
  BY <1>5, <1>11, <1>13 DEF Remains
<1> QED BY <1>1, <1>4, <1>7, <1>8, <1>9, <1>10, <1>12, <1>13 DEF y, v, u

LEMMA BodyKeepsRelays ==
    ASSUME RelayInv, NEW w \in Worker, Pool!ReadBody(w)
    PROVE  RelayInv'
<1> HIDE DEF P
<1> DEFINE f == fd[w]
           r == req[w]
           s == inbox[f]
           t == due[f]
           x == relayed[w]
           framing == x[1].framing
<1>0. /\ RelayTypes /\ WorkerSound(w) /\ relay_pc[w] = "body" /\ relay_pc[w] \in Using
      /\ UNCHANGED <<idle_fds, req, asked>>
  BY DEF RelayInv, Pool!ReadBody, Using
<1>1. PICK n \in 1..Len(s) :
        /\ framing = "length" => n = 1
        /\ CASE framing = "until_close" -> UNCHANGED <<relay_pc, fd, open, due, eof>>
             [] framing = "chunked" /\ n > 1 -> Pool!Abort(w)
             [] OTHER -> Pool!Complete(w, ~x[1].close)
        /\ Pool!Relay(w, IF framing = "chunked" /\ n > 1 THEN << >> ELSE SubSeq(s, 1, n))
        /\ Pool!Unread(w, n)
  BY DEF Pool!ReadBody, Pool!HeadOf
<1>2. /\ f \in Fd /\ x \in Seq(P) /\ s \in Seq(P) /\ t \in Seq(P) /\ r > 0
      /\ HeadSent(x) /\ Remains(s \o t, r, framing) /\ OwnParts(x, r)
  BY <1>0 DEF WorkerSound, Agrees, RelayTypes, Wire
<1>3. /\ n \in Nat \ {0} /\ n \in 1..Len(s) /\ Len(x) \in Nat /\ Len(x) > 0
      /\ framing \in {"length", "chunked", "until_close"}
      /\ framing # "until_close" => Len(x) = 1
  BY <1>1, <1>2 DEF HeadSent
<1> DEFINE y == SubSeq(s, 1, n)
           u == SubSeq(s, n + 1, Len(s)) \o t
<1>4. /\ y \in Seq(P) /\ OwnParts(y, r) /\ OwnParts(x \o y, r)
      /\ Len(x \o y) = Len(x) + n
      /\ (x \o y)[1] = x[1]
      /\ framing # "until_close" => (x \o y)[Len(x) + 1].part = "body" /\ OnlyExcess(u)
      /\ framing = "until_close" => Remains(u, r, framing)
  <2> HIDE DEF s, t, x, r
  <2> QED BY <1>2, <1>3, BodySplit
<1>5. CASE framing = "until_close"
  <2>1. UNCHANGED <<relay_pc, fd, open, due, eof>> /\ Pool!Relay(w, y)
    BY <1>1, <1>5
  <2>2. Pool!Goto(w, "body")
    BY <1>0, <2>1 DEF Pool!Goto, RelayTypes
  <2>3. HeadSent(x \o y) /\ Remains(u, r, (x \o y)[1].framing)
    <3> HIDE DEF x, y, u, r
    <3> QED BY <1>3, <1>4, <1>5 DEF HeadSent
  <2>4. Agrees("body", r, x \o y, u)
    BY <1>2, <1>4, <2>3 DEF Agrees, Ended
  <2> HIDE DEF y
  <2> QED BY <1>0, <1>1, <1>4, <2>1, <2>2, <2>4, ReadOnKeepsRelays DEF Using
<1>6. CASE framing = "chunked" /\ n > 1
  <2>1. Pool!Abort(w) /\ Pool!Relay(w, << >>)
    BY <1>1, <1>6
  <2>2. << >> \in Seq(P) /\ OwnParts(<< >>, r)
    BY DEF OwnParts
  <2> QED BY <1>0, <1>1, <1>3, <2>1, <2>2, EndOfReadKeepsRelays
<1>7. CASE framing # "until_close" /\ ~(framing = "chunked" /\ n > 1)
  <2>1. Pool!Complete(w, ~x[1].close) /\ Pool!Relay(w, y) /\ n = 1
    BY <1>1, <1>3, <1>7
  <2>2. Whole(x \o y)
    <3> HIDE DEF x, y, u, r
    <3> QED BY <1>3, <1>4, <1>7, <2>1 DEF Whole
  <2>3. CASE x[1].close
    <3>1. Pool!Complete(w, FALSE)
      BY <2>1, <2>3 DEF Pool!Complete
    <3> HIDE DEF y
    <3> QED BY <1>0, <1>1, <1>3, <1>4, <2>1, <2>2, <3>1, EndOfReadKeepsRelays
  <2>4. CASE ~x[1].close
    <3>1. Pool!Goto(w, "return_check") /\ UNCHANGED <<fd, open, due, eof>>
      BY <2>1, <2>4 DEF Pool!Complete
    <3>2. Agrees("return_check", r, x \o y, u)
      BY <1>2, <1>4, <1>7, <2>2 DEF Agrees, Ended
    <3> HIDE DEF y
    <3> QED BY <1>0, <1>1, <1>4, <2>1, <3>1, <3>2, ReadOnKeepsRelays DEF Using
  <2> QED BY <2>3, <2>4
<1> QED BY <1>5, <1>6, <1>7

LEMMA EndingsKeepRelays ==
    ASSUME RelayInv, NEW w \in Worker, Pool!ReadEof(w) \/ Pool!Fail(w)
    PROVE  RelayInv'
<1>0. /\ WorkerSound(w) /\ relay_pc[w] \in {"head", "body"} /\ relay_pc[w] \in Using
      /\ UNCHANGED <<idle_fds, req, relayed, asked>>
  BY DEF RelayInv, Pool!ReadEof, Pool!Fail, Using
<1>1. CASE Pool!CloseAndEnd(w, "failed")
  BY <1>0, <1>1, CloseAndEndKeepsRelays
<1>2. CASE Pool!CloseAndEnd(w, "ok") /\ relay_pc[w] = "body" /\ relayed[w][1].framing = "until_close"
  <2>1. Whole(relayed[w])
    BY <1>0, <1>2 DEF WorkerSound, Agrees, HeadSent, Whole
  <2> QED BY <1>0, <1>2, <2>1, CloseAndEndKeepsRelays
<1> QED BY <1>1, <1>2 DEF Pool!ReadEof, Pool!Fail, Pool!HeadOf

LEMMA PushKeepsRelays ==
    ASSUME RelayInv, NEW w \in Worker, Pool!ReturnPush(w)
    PROVE  RelayInv'
<1> HIDE DEF P
<1>0. /\ RelayTypes /\ WorkerSound(w) /\ relay_pc[w] = "return_push" /\ relay_pc[w] \in Using
      /\ UNCHANGED <<req, relayed, asked>>
  BY DEF RelayInv, Pool!ReturnPush, Using
<1>1. fd[w] \in Fd /\ Whole(relayed[w]) /\ OwnParts(relayed[w], req[w]) /\ req[w] > 0
      /\ OnlyExcess(Wire(fd[w]))
  BY <1>0 DEF WorkerSound, Agrees, Ended, RelayTypes
<1>2. CASE Len(idle_fds) < MaxIdle
  <2>1. /\ idle_fds' = Append(idle_fds, fd[w]) /\ fd' = [fd EXCEPT ![w] = NoFd]
        /\ relay_pc' = [relay_pc EXCEPT ![w] = "ok"] /\ UNCHANGED <<open, inbox, due, eof>>
    BY <1>2 DEF Pool!ReturnPush, Pool!Goto, Pool!wire
  <2>2. Len(idle_fds) \in Nat /\ idle_fds \in Seq(Fd) /\ MaxIdle \in Nat
    BY <1>0, UpstreamAssumption DEF RelayTypes, Pool!PoolAssumption
  <2>3. idle_fds' \in Seq(Fd) /\ Len(idle_fds') <= MaxIdle
    BY <1>1, <1>2, <2>1, <2>2
  <2>4. RelayTypes'
    <3>1. fd' \in [Worker -> Fd \cup {NoFd}] /\ relay_pc' \in [Worker -> Pool!PC]
      BY <1>0, <2>1 DEF RelayTypes, Pool!PC
    <3> QED BY <1>0, <2>1, <2>3, <3>1 DEF RelayTypes
  <2>5. Pushes(w) /\ OthersKept(w)
    BY <1>0, <1>1, <2>1 DEF Pushes, OthersKept, RelayTypes
  <2>6. fd'[w] = NoFd /\ relay_pc'[w] = "ok" /\ relayed'[w] = relayed[w] /\ req'[w] = req[w]
    BY <1>0, <2>1 DEF RelayTypes
  <2>7. WorkerSound(w)'
    BY <1>1, <2>6 DEF WorkerSound, Agrees, Using, Ended
  <2> QED BY <2>4, <2>5, <2>7, StepKeepsRelays DEF Rehomes
<1>3. CASE ~(Len(idle_fds) < MaxIdle)
  <2>1. Pool!CloseAndEnd(w, "ok") /\ UNCHANGED <<idle_fds, req, relayed, asked>>
    BY <1>0, <1>3 DEF Pool!ReturnPush
  <2> QED BY <1>0, <1>1, <2>1, CloseAndEndKeepsRelays
<1> QED BY <1>2, <1>3
\* The upstream moves what is on the wire, or drops its end.
LEMMA PrefixAgrees ==
    ASSUME NEW p, NEW r, NEW x, NEW s \in Seq(P), NEW z \in Seq(P), Len(z) <= Len(s),
           \A i \in 1..Len(z) : z[i] = s[i], Agrees(p, r, x, s)
    PROVE  Agrees(p, r, x, z)
<1> HIDE DEF P
<1>0. Len(s) \in Nat /\ Len(z) \in Nat /\ \A i \in 1..Len(z) : i \in 1..Len(s)
  OBVIOUS
<1>1. OnlyExcess(s) => OnlyExcess(z)
  BY <1>0 DEF OnlyExcess
<1>2. \A framing : Remains(s, r, framing) => Remains(z, r, framing)
  BY <1>0 DEF Remains
<1>3. Stale(s) \/ Fresh(s, r) => Stale(z) \/ Fresh(z, r)
  <2>1. CASE Len(z) = 0
    BY <2>1 DEF Fresh
  <2>2. CASE Len(z) > 0
    <3>1. z[1] = s[1] /\ Len(s) > 0
      BY <1>0, <2>2
    <3>2. Stale(s) => Stale(z)
      BY <2>2, <3>1 DEF Stale
    <3>3. Fresh(s, r) => Fresh(z, r)
      BY <1>0, <3>1 DEF Fresh
    <3> QED BY <3>2, <3>3
  <2> QED BY <1>0, <2>1, <2>2
<1> QED BY <1>1, <1>2, <1>3 DEF Agrees

LEMMA WireKeepsRelays ==
    ASSUME RelayInv, NEW f \in open, RelayTypes', UNCHANGED <<idle_fds, Pool!worker, open>>,
           \A g \in Fd : g # f => inbox'[g] = inbox[g] /\ due'[g] = due[g],
           NEW z \in Seq(P), Wire(f)' = z, Len(z) <= Len(Wire(f)),
           \A i \in 1..Len(z) : z[i] = Wire(f)[i]
    PROVE  RelayInv'
<1> HIDE DEF P
<1>0. /\ RelayTypes /\ PlacesSound /\ f \in Fd /\ Wire(f) \in Seq(P)
      /\ UNCHANGED <<idle_fds, relay_pc, fd, req, relayed, asked, open>>
      /\ \A i \in DOMAIN idle_fds : OnlyExcess(Wire(idle_fds[i])) /\ idle_fds[i] \in Fd
      /\ \A w \in Worker : WorkerSound(w) /\ fd[w] \in Fd \cup {NoFd}
  <2>1. RelayTypes /\ f \in Fd
    BY DEF RelayInv, RelayTypes
  <2>2. \A i \in DOMAIN idle_fds : idle_fds[i] \in Fd
    BY <2>1 DEF RelayTypes
  <2> QED BY <2>1, <2>2, WireParts DEF RelayInv, RelayTypes, Pool!worker
<1>1. \A g \in Fd : g # f => Wire(g)' = Wire(g)
  BY DEF Wire
<1>2. PlacesSound'
  BY <1>0 DEF PlacesSound
<1>3. \A g \in Fd : g \notin open' => inbox'[g] = << >> /\ due'[g] = << >>
  BY <1>0 DEF RelayInv
<1>4. ASSUME NEW i \in DOMAIN idle_fds PROVE OnlyExcess(Wire(idle_fds[i])')
  <2>1. CASE idle_fds[i] = f
    <3>1. OnlyExcess(Wire(f))
      BY <1>0, <2>1
    <3>2. \A k \in 1..Len(z) : k \in 1..Len(Wire(f))
      BY <1>0
    <3>3. OnlyExcess(z)
      BY <3>1, <3>2 DEF OnlyExcess
    <3>4. Wire(idle_fds[i])' = z
      BY <1>0, <2>1 DEF Wire
    <3> QED BY <3>3, <3>4
  <2>2. CASE idle_fds[i] # f
    <3>1. Wire(idle_fds[i])' = Wire(idle_fds[i])
      BY <1>0, <2>2 DEF Wire
    <3> QED BY <1>0, <3>1
  <2> QED BY <2>1, <2>2
<1>5. ASSUME NEW w \in Worker PROVE WorkerSound(w)'
  <2>0. WorkerSound(w) /\ UNCHANGED <<relay_pc, fd, req, relayed>>
    BY <1>0
  <2>1. CASE fd[w] = f
    <3>1. Agrees(relay_pc[w], req[w], relayed[w], Wire(f))
      BY <2>0, <2>1 DEF WorkerSound
    <3>2. Agrees(relay_pc[w], req[w], relayed[w], z)
      BY <1>0, <3>1, PrefixAgrees
    <3>3. Wire(fd[w])' = z
      BY <2>0, <2>1 DEF Wire
    <3> QED BY <2>0, <3>2, <3>3 DEF WorkerSound
  <2>2. CASE fd[w] # f /\ fd[w] # NoFd
    <3>1. Wire(fd[w])' = Wire(fd[w])
      BY <1>0, <2>0, <2>2 DEF Wire
    <3> QED BY <2>0, <3>1 DEF WorkerSound
  <2>3. CASE fd[w] = NoFd
    <3>1. relay_pc[w] \notin Using
      BY <2>0, <2>3 DEF WorkerSound
    <3> QED BY <2>0, <3>1 DEF WorkerSound, Agrees, Using
  <2> QED BY <2>1, <2>2, <2>3
<1>6. \A i \in DOMAIN idle_fds' : OnlyExcess(Wire(idle_fds[i]))'
  BY <1>0, <1>4 DEF Wire
<1> QED BY <1>2, <1>3, <1>5, <1>6 DEF RelayInv

LEMMA UpstreamKeepsRelays ==
    ASSUME RelayInv, NEW f \in Fd, Pool!Arrive(f) \/ Pool!PeerClose(f)
    PROVE  RelayInv'
<1> HIDE DEF P
<1>0. /\ RelayTypes /\ f \in open /\ UNCHANGED <<idle_fds, Pool!worker, open>>
      /\ UNCHANGED <<relay_pc, fd, req, relayed, asked>>
  BY DEF RelayInv, Pool!Arrive, Pool!PeerClose, Pool!worker
<1> DEFINE s == inbox[f]
           t == due[f]
<1>1. /\ s \in Seq(P) /\ t \in Seq(P) /\ Wire(f) \in Seq(P) /\ Wire(f) = s \o t
      /\ Len(s) \in Nat /\ Len(t) \in Nat
      /\ Len(Wire(f)) = Len(s) + Len(t) /\ \A i \in 1..Len(s) : Wire(f)[i] = s[i]
  BY <1>0, WireParts DEF Wire
<1>2. CASE Pool!Arrive(f)
  <2>1. /\ t # << >> /\ eof' = eof /\ inbox' = [inbox EXCEPT ![f] = Append(s, Head(t))]
        /\ due' = [due EXCEPT ![f] = Tail(t)]
    BY <1>2 DEF Pool!Arrive
  <2>2. /\ Append(s, Head(t)) \in Seq(P) /\ Tail(t) \in Seq(P)
        /\ Append(s, Head(t)) \o Tail(t) = s \o t
    <3> HIDE DEF s, t
    <3> QED BY <1>1, <2>1, ArriveParts
  <2> HIDE DEF s, t
  <2>3. RelayTypes'
    BY <1>0, <2>1, <2>2 DEF RelayTypes
  <2>4. \A g \in Fd : g # f => inbox'[g] = inbox[g] /\ due'[g] = due[g]
    BY <1>0, <2>1 DEF RelayTypes
  <2>5. Wire(f)' = Wire(f)
    <3>1. inbox'[f] = Append(s, Head(t)) /\ due'[f] = Tail(t)
      BY <1>0, <2>1 DEF RelayTypes
    <3> QED BY <1>1, <2>2, <3>1 DEF Wire
  <2> DEFINE z == Wire(f)
  <2>6. /\ z \in Seq(P) /\ Wire(f)' = z /\ Len(z) <= Len(Wire(f))
        /\ \A i \in 1..Len(z) : z[i] = Wire(f)[i]
    BY <1>1, <2>5
  <2> HIDE DEF z
  <2> QED BY <1>0, <2>3, <2>4, <2>6, WireKeepsRelays
<1>3. CASE Pool!PeerClose(f)
  <2>1. inbox' = inbox /\ due' = [due EXCEPT ![f] = << >>] /\ eof' = [eof EXCEPT ![f] = TRUE]
    BY <1>3 DEF Pool!PeerClose
  <2>2. RelayTypes'
    BY <1>0, <2>1 DEF RelayTypes
  <2>3. \A g \in Fd : g # f => inbox'[g] = inbox[g] /\ due'[g] = due[g]
    BY <1>0, <2>1 DEF RelayTypes
  <2>4. Wire(f)' = s
    <3>1. inbox'[f] = s /\ due'[f] = << >>
      BY <1>0, <2>1 DEF RelayTypes
    <3>2. s \o << >> = s
      BY <1>1
    <3> QED BY <3>1, <3>2 DEF Wire
  <2> HIDE DEF s, t
  <2>5. Len(s) <= Len(Wire(f)) /\ \A i \in 1..Len(s) : s[i] = Wire(f)[i]
    BY <1>1
  <2> QED BY <1>0, <1>1, <2>2, <2>3, <2>4, <2>5, WireKeepsRelays
<1> QED BY <1>2, <1>3

LEMMA RelaysInductive == RelayInv /\ [PoolMoves \/ BreakerMoves]_<<part, vars, poolVars>> => RelayInv'
<1> SUFFICES ASSUME RelayInv, [PoolMoves \/ BreakerMoves]_<<part, vars, poolVars>>
             PROVE  RelayInv'
  OBVIOUS
<1>1. CASE UNCHANGED poolVars
  BY <1>1 DEF poolVars, RelayInv, RelayTypes, PlacesSound, WorkerSound, Wire
<1>2. ASSUME NEW w \in Worker,
             \/ Pool!Call(w) \/ Pool!TakeIdle(w) \/ Pool!TakeCheck(w) \/ Pool!TakeConnect(w)
             \/ Pool!Write(w) \/ Pool!ReadHead(w) \/ Pool!ReadBody(w) \/ Pool!ReadEof(w)
             \/ Pool!Fail(w) \/ Pool!ReturnCheck(w) \/ Pool!ReturnPush(w)
      PROVE  RelayInv'
  BY <1>2, CallKeepsRelays, TakingKeepsRelays, ChecksKeepRelays, WriteKeepsRelays,
     HeadKeepsRelays, BodyKeepsRelays, EndingsKeepRelays, PushKeepsRelays
<1>3. ASSUME NEW f \in Fd, Pool!Arrive(f) \/ Pool!PeerClose(f) PROVE RelayInv'
  BY <1>3, UpstreamKeepsRelays
<1> QED BY <1>1, <1>2, <1>3 DEF PoolMoves, BreakerMoves, Pool!Next

LEMMA RelaysInitial == UpstreamInit => RelayInv
<1> SUFFICES ASSUME Pool!Init PROVE RelayInv
  BY DEF UpstreamInit
<1> HIDE DEF P
<1>1. RelayTypes
  BY UpstreamAssumption DEF Pool!Init, RelayTypes, Pool!PC, Pool!PoolAssumption
<1>2. DOMAIN idle_fds = {}
  BY DEF Pool!Init
<1>3. PlacesSound
  BY <1>2 DEF Pool!Init, PlacesSound
<1>4. ASSUME NEW w \in Worker PROVE WorkerSound(w)
  BY DEF Pool!Init, WorkerSound, Agrees, Using, Ended, OwnParts
<1> QED BY <1>1, <1>2, <1>3, <1>4 DEF RelayInv, Pool!Init

\* However connections are reused, closed by either side or left with bytes of
\* a response that timed out, no relay passes on a part of another request's
\* response, a successful one has passed on all of its own, and every open
\* descriptor is in the pool once or in the hands of one worker (oproxy.c).
THEOREM RelaysSound == UpstreamSpec => []RelaySound
BY RelaysInitial, RelaysInductive, RelayInvSound, PTL DEF UpstreamSpec

\* The circuit breaker beside the pool is the breaker of OProxyBreaker, so what
\* is proved of it holds of the relay to the upstream.
THEOREM BreakerInUpstream == UpstreamSpec => Spec
<1>1. UpstreamInit => Init
  BY DEF UpstreamInit
<1>2. [BreakerMoves \/ PoolMoves]_<<part, vars, poolVars>> => [Next]_vars
  BY DEF BreakerMoves, PoolMoves
<1> QED BY <1>1, <1>2, PTL DEF UpstreamSpec, Spec
=============================================================================
