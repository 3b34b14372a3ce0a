------------------------------- MODULE OSched -------------------------------
(***************************************************************************)
(* The admission scheduler of src/src/osched.c: weighted permits on one    *)
(* device, four tiers, a waiter list kept in service order, one condition  *)
(* variable per waiter, admission timeouts and the aging of background     *)
(* waiters.                                                                *)
(*                                                                         *)
(* Every entry point runs under s->lock.  A critical section that only     *)
(* reads and writes the scheduler is one action; promote_locked and        *)
(* age_locked are loops, so the thread that runs them keeps the lock       *)
(* (variable lock) and every iteration is an action of its own.            *)
(*                                                                         *)
(* Time is a Tick that ages the queued waiters; a critical section takes   *)
(* no time.  age saturates at AgeCap, beyond which no comparison of the    *)
(* code changes its answer.  me.seq is a counter that is only compared     *)
(* between queued waiters: it is kept as their rank in arrival order, which *)
(* orders them the same way and stays finite.  Statistics (served,         *)
(* queue_ms_*, timed_out) are not part of admission and are left out.      *)
(***************************************************************************)
EXTENDS Integers, Sequences, FiniteSets

CONSTANTS
    Thread,     \* request threads, callers of the scheduler
    NoThread,   \* "the mutex is free"
    Slots,      \* s->slots
    Request,    \* what callers ask for: tier, permits, shared or exclusive
    TimeoutS,   \* s->timeout_s, in ticks
    BgTimeoutS, \* s->bg_timeout_s, in ticks; 0 keeps the shared timeout
    BgAgeS      \* s->bg_age_s, in ticks; 0 disables aging

TIER_PAID       == 0
TIER_SUB        == 1
TIER_FREE       == 2
TIER_BACKGROUND == 3
Tier == TIER_PAID..TIER_BACKGROUND

ASSUME ThreadAssumption == IsFiniteSet(Thread) /\ NoThread \notin Thread
ASSUME SlotsAssumption == Slots \in Nat \ {0}
\* acquire refuses every other tier and permit count before it takes the lock
ASSUME RequestAssumption ==
    Request \subseteq [tier : Tier, permits : 1..Slots, shared : BOOLEAN]
ASSUME TimesAssumption ==
    TimeoutS \in Nat \ {0} /\ BgTimeoutS \in Nat /\ BgAgeS \in Nat

VARIABLES
    waiters,    \* s->waiters, the list, as the sequence of its threads
    used_slots, \* s->used_slots
    active,     \* s->active
    lock,       \* the thread inside a promote_locked or age_locked loop
    pc,         \* where each thread is
    req,        \* tier, permits, shared of the request a thread queues or holds
    prio,       \* me.prio of each queued thread
    seq,        \* me.seq of each queued thread
    age         \* now - me.queued_at of each queued thread

vars == <<waiters, used_slots, active, lock, pc, req, prio, seq, age>>
fields == <<req, prio, seq, age>>

-----------------------------------------------------------------------------
(* Where a thread can be:                                                  *)
(*   idle     outside the scheduler, holding nothing                       *)
(*   linking  in acquire, holding the lock, inside link_waiter's aging     *)
(*   queued   in pthread_cond_timedwait, linked in the list                *)
(*   granted  in pthread_cond_timedwait, me.granted set by a promoter      *)
(*   held     acquire returned true, permits held                          *)
(*   aging, promoting   holding the lock inside promote_locked, called by  *)
(*            osched_release_n or by the timeout path of acquire           *)
PC == {"idle", "linking", "queued", "granted", "held", "aging", "promoting"}

Queued  == {t \in Thread : pc[t] = "queued"}
Holders == {t \in Thread : pc[t] \in {"granted", "held"}}

\* The request of a thread that has none
NoRequest == [tier |-> TIER_FREE, permits |-> 0, shared |-> FALSE]

Background(t) == req[t].tier = TIER_BACKGROUND
Timeout(t) == IF Background(t) /\ BgTimeoutS > 0 THEN BgTimeoutS ELSE TimeoutS
AgeCap == TimeoutS + BgTimeoutS + 2 * BgAgeS

\* fits_locked: exclusive background needs an idle device, the rest free slots
Exclusive(r) == r.tier = TIER_BACKGROUND /\ ~r.shared

fits_locked(r) ==
    IF Exclusive(r) THEN active = 0 /\ used_slots = 0
                    ELSE used_slots + r.permits <= Slots

\* Seeded fault: the newest of a rank goes first
SkippedBy_InFront(t, pr, s) == {i \in 1..Len(s) : \A j \in 1..i : prio[s[j]] < pr}
\* insert_waiter at rank pr: behind the longest prefix whose members have a
\* smaller rank, or the same rank and an earlier arrival
SkippedBy(t, pr, s) ==
    {i \in 1..Len(s) : \A j \in 1..i :
        prio[s[j]] < pr \/ (prio[s[j]] = pr /\ seq[s[j]] < seq[t])}
insert_waiter(t, pr, s) ==
    LET k == Cardinality(SkippedBy(t, pr, s))
    IN  [i \in 1..(Len(s) + 1) |->
            IF i <= k THEN s[i] ELSE IF i = k + 1 THEN t ELSE s[i - 1]]

\* unlink_waiter
PositionOf(t, s) == CHOOSE i \in 1..Len(s) : s[i] = t
unlink_waiter(t, s) ==
    [i \in 1..(Len(s) - 1) |-> IF i < PositionOf(t, s) THEN s[i] ELSE s[i + 1]]

\* Seeded fault: the second age threshold is missing
AgedRank_FreeOnly(t) == IF age[t] >= BgAgeS THEN TIER_FREE ELSE prio[t]

\* The rank age_locked wants for a waiter
AgedRank(t) ==
    IF age[t] >= 2 * BgAgeS THEN TIER_PAID
    ELSE IF age[t] >= BgAgeS THEN TIER_FREE ELSE prio[t]
Overdue ==
    {t \in Queued : BgAgeS > 0 /\ Background(t) /\ AgedRank(t) < prio[t]}

-----------------------------------------------------------------------------
Init ==
    /\ waiters = <<>>
    /\ used_slots = 0
    /\ active = 0
    /\ lock = NoThread
    /\ pc = [t \in Thread |-> "idle"]
    /\ req = [t \in Thread |-> NoRequest]
    /\ prio = [t \in Thread |-> TIER_FREE]
    /\ seq = [t \in Thread |-> 0]
    /\ age = [t \in Thread |-> 0]

Goto(t, where) == pc' = [pc EXCEPT ![t] = where]

\* The waiter lives in acquire's frame and goes with it
DropWaiter(t) ==
    /\ prio' = [prio EXCEPT ![t] = TIER_FREE]
    /\ seq' = [seq EXCEPT ![t] = 0]
    /\ age' = [age EXCEPT ![t] = 0]

\* Charging a request: active++, used_slots += permits
Charge(r) == active' = active + 1 /\ used_slots' = used_slots + r.permits

\* Seeded fault: the fast path does not look at the queue
AcquireNow_JumpsQueue(t, r) ==
    /\ lock = NoThread /\ pc[t] = "idle"
    /\ fits_locked(r)
    /\ Charge(r)
    /\ Goto(t, "held")
    /\ req' = [req EXCEPT ![t] = r]
    /\ UNCHANGED <<waiters, lock, prio, seq, age>>

\* The fast path: nobody queued and the request fits.  It is the whole of
\* osched_try_acquire_n (with shared = FALSE) and the first exit of acquire.
AcquireNow(t, r) ==
    /\ lock = NoThread /\ pc[t] = "idle"
    /\ waiters = <<>> /\ fits_locked(r)
    /\ Charge(r)
    /\ Goto(t, "held")
    /\ req' = [req EXCEPT ![t] = r]
    /\ UNCHANGED <<waiters, lock, prio, seq, age>>

\* me.seq = ++s->seq, kept as the rank among those still queued
NextSeq(t) ==
    [u \in Thread |->
        IF u = t THEN Cardinality(Queued) + 1
        ELSE IF u \in Queued THEN Cardinality({v \in Queued : seq[v] <= seq[u]})
        ELSE 0]

\* acquire, not admitted at once: the waiter is filled in and link_waiter starts
\* with age_locked, the lock still held.
AcquireQueue(t, r) ==
    /\ lock = NoThread /\ pc[t] = "idle"
    /\ ~(waiters = <<>> /\ fits_locked(r))
    /\ lock' = t
    /\ Goto(t, "linking")
    /\ req' = [req EXCEPT ![t] = r]
    /\ prio' = [prio EXCEPT ![t] = r.tier]
    /\ seq' = NextSeq(t)
    /\ UNCHANGED <<waiters, used_slots, active, age>>

\* One waiter that age_locked re-ranks: out of the list, back in at its new rank
AgeOne(t, w) ==
    /\ lock = t /\ pc[t] \in {"linking", "aging"}
    /\ w \in Overdue
    /\ prio' = [prio EXCEPT ![w] = AgedRank(w)]
    /\ waiters' = insert_waiter(w, AgedRank(w), unlink_waiter(w, waiters))
    /\ UNCHANGED <<used_slots, active, lock, pc, req, seq, age>>

\* insert_waiter of the caller's own waiter, then pthread_cond_timedwait
\* gives the lock up
Link(t) ==
    /\ lock = t /\ pc[t] = "linking"
    /\ Overdue = {}
    /\ waiters' = insert_waiter(t, prio[t], waiters)
    /\ lock' = NoThread
    /\ Goto(t, "queued")
    /\ UNCHANGED <<used_slots, active, fields>>

\* The loop of promote_locked runs once age_locked has nothing left to re-rank
AgeDone(t) ==
    /\ lock = t /\ pc[t] = "aging"
    /\ Overdue = {}
    /\ Goto(t, "promoting")
    /\ UNCHANGED <<waiters, used_slots, active, lock, fields>>

HeadFits == waiters # <<>> /\ fits_locked(req[Head(waiters)])

\* One iteration of promote_locked: the head is unlinked, charged and signalled
PromoteHead(t) ==
    /\ lock = t /\ pc[t] = "promoting"
    /\ HeadFits
    /\ waiters' = Tail(waiters)
    /\ Charge(req[Head(waiters)])
    /\ Goto(Head(waiters), "granted")
    /\ UNCHANGED <<lock, fields>>

\* promote_locked stops at the first waiter that does not fit; unlock
PromoteDone(t) ==
    /\ lock = t /\ pc[t] = "promoting"
    /\ ~HeadFits
    /\ lock' = NoThread
    /\ Goto(t, "idle")
    /\ UNCHANGED <<waiters, used_slots, active, fields>>

\* The signalled waiter gets the mutex back and acquire returns true.  A waiter
\* whose timedwait failed at the same moment takes this path too: me.granted is
\* tested before timed_out is set.
Wake(t) ==
    /\ lock = NoThread /\ pc[t] = "granted"
    /\ Goto(t, "held")
    /\ DropWaiter(t)
    /\ UNCHANGED <<waiters, used_slots, active, lock, req>>

\* timedwait fails with the waiter still in the list: unlink and promote
TimeOut(t) ==
    /\ lock = NoThread /\ pc[t] = "queued" /\ age[t] >= Timeout(t)
    /\ waiters' = unlink_waiter(t, waiters)
    /\ lock' = t
    /\ Goto(t, "aging")
    /\ DropWaiter(t)
    /\ req' = [req EXCEPT ![t] = NoRequest]
    /\ UNCHANGED <<used_slots, active>>

\* Seeded faults: the release forgets the request count, or does not promote
Release_KeepsActive(t) ==
    /\ lock = NoThread /\ pc[t] = "held"
    /\ used_slots' = used_slots - req[t].permits
    /\ lock' = t
    /\ Goto(t, "aging")
    /\ req' = [req EXCEPT ![t] = NoRequest]
    /\ UNCHANGED <<waiters, active, prio, seq, age>>
Release_NoPromote(t) ==
    /\ lock = NoThread /\ pc[t] = "held"
    /\ active' = active - 1
    /\ used_slots' = used_slots - req[t].permits
    /\ Goto(t, "idle")
    /\ req' = [req EXCEPT ![t] = NoRequest]
    /\ UNCHANGED <<waiters, lock, prio, seq, age>>

\* osched_release_n by the holder, with the permits it acquired
Release(t) ==
    /\ lock = NoThread /\ pc[t] = "held"
    /\ active' = IF active > 0 THEN active - 1 ELSE active
    /\ used_slots' = IF used_slots >= req[t].permits
                     THEN used_slots - req[t].permits ELSE 0
    /\ lock' = t
    /\ Goto(t, "aging")
    /\ req' = [req EXCEPT ![t] = NoRequest]
    /\ UNCHANGED <<waiters, prio, seq, age>>

\* A tick of CLOCK_MONOTONIC, seen by the queued waiters
Tick ==
    /\ lock = NoThread
    /\ \E t \in Queued : age[t] < AgeCap
    /\ age' = [t \in Thread |->
                  IF t \in Queued /\ age[t] < AgeCap THEN age[t] + 1 ELSE age[t]]
    /\ UNCHANGED <<waiters, used_slots, active, lock, pc, req, prio, seq>>

\* What the lock's owner does next inside its loop
LoopStep(t) ==
    \/ \E w \in Thread : AgeOne(t, w)
    \/ Link(t)
    \/ AgeDone(t)
    \/ PromoteHead(t)
    \/ PromoteDone(t)

Next ==
    \/ Tick
    \/ \E t \in Thread :
        \/ \E r \in Request : AcquireNow(t, r) \/ AcquireQueue(t, r)
        \/ LoopStep(t)
        \/ Wake(t)
        \/ TimeOut(t)
        \/ Release(t)

Spec == Init /\ [][Next]_vars

(* Fairness.  The owner of the mutex keeps running its loop.  A woken waiter *)
(* and a releasing holder contend for the mutex and get it in the end; every *)
(* holder releases, because every upstream relay and local generation ends.  *)
(* Time passes.  Nothing is assumed about new requests, and nothing about    *)
(* timeouts, so that a timeout never rescues a liveness property.            *)
FairSpec ==
    /\ Spec
    /\ SF_vars(Tick)
    /\ \A t \in Thread : WF_vars(LoopStep(t)) /\ SF_vars(Wake(t)) /\ SF_vars(Release(t))

-----------------------------------------------------------------------------
(* Properties.                                                             *)

\* The types; used_slots within the device's slots is the part that the code
\* has to earn, through fits_locked.
TypeOK ==
    /\ waiters \in Seq(Thread)
    /\ used_slots \in 0..Slots
    /\ active \in Nat
    /\ lock \in Thread \cup {NoThread}
    /\ pc \in [Thread -> PC]
    /\ req \in [Thread -> Request \cup {NoRequest}]
    /\ prio \in [Thread -> Tier]
    /\ seq \in [Thread -> Nat]
    /\ age \in [Thread -> 0..AgeCap]

\* The permits a thread holds, one element each
HeldUnits == {u \in Thread \X (1..Slots) : u[1] \in Holders /\ u[2] <= req[u[1]].permits}

\* The counters of osched.c agree with who holds what: no grant, timeout or
\* release ever leaks a permit or returns one twice, and the clamps in
\* osched_release_n (active > 0, used_slots >= permits) never hide a mismatch.
PermitsAccounted ==
    /\ active = Cardinality(Holders)
    /\ used_slots = Cardinality(HeldUnits)

Distinct(s)  == \A i, j \in 1..Len(s) : s[i] = s[j] => i = j
Linked(t, s) == \E i \in 1..Len(s) : s[i] = t

\* The list holds exactly the threads blocked in timedwait, each once: no
\* waiter whose frame is gone stays linked, none is linked twice.
QueueConsistent ==
    /\ Distinct(waiters)
    /\ \A t \in Thread : pc[t] = "queued" <=> Linked(t, waiters)

\* The books of the scheduler agree with its callers: every counter with who holds
\* permits, and the list with who waits for them.
BooksAgree == TypeOK /\ PermitsAccounted /\ QueueConsistent

Precedes(t, u) == prio[t] < prio[u] \/ (prio[t] = prio[u] /\ seq[t] < seq[u])

\* The list is in service order, aging included: promote_locked may look at its
\* head only.
QueueSorted ==
    \A i, j \in 1..Len(waiters) : i < j => Precedes(waiters[i], waiters[j])

\* Whenever the mutex is free and someone is queued, somebody holds permits:
\* only a release or a timeout wakes the queue, so a queue behind an idle device
\* would sleep until a deadline.
NoStrandedQueue == lock = NoThread /\ waiters # <<>> => Holders # {}

GrantedNow(t) == t \in Holders' /\ t \notin Holders

\* Exclusive background is admitted to an idle device only.
ExclusiveStartsAlone ==
    [][\A t \in Thread : GrantedNow(t) /\ Exclusive(req'[t]) => Holders = {}]_vars

\* promote_locked never lets a cheap request overtake an expensive one of the
\* same tier that queued earlier (the head-of-line rule), whichever of the two
\* age_locked has already re-ranked.
SameTierInOrder ==
    \A t, u \in Queued : GrantedNow(u) /\ req[t].tier = req[u].tier => seq[u] <= seq[t]

\* The list keeps service order through every insertion, removal and aging, and is
\* served in it.
ServiceOrder == [][QueueSorted' /\ SameTierInOrder]_vars

\* The starvation bound of osched_set_background: once a background waiter is
\* older than 2 * max_wait_s, nobody that queued after it is admitted before it,
\* whatever its tier.
AgedNotOvertaken ==
    [][\A t \in Queued, u \in Thread :
          BgAgeS > 0 /\ Background(t) /\ age[t] >= 2 * BgAgeS /\ GrantedNow(u)
          => u \in Queued /\ seq[u] <= seq[t]]_vars

\* With aging on, no background waiter depends on its timeout: under any stream
\* of other requests it is admitted, as long as holders release.
BackgroundServed ==
    \A t \in Thread : (pc[t] = "queued" /\ Background(t)) ~> pc[t] # "queued"

\* The refinement: what a thread holds and who waits, as Admission sees them
permits_held == [t \in Thread |-> IF t \in Holders THEN req[t].permits ELSE 0]
Alone == {t \in Holders : Exclusive(req[t])}
Waiting == {t \in Thread : pc[t] \in {"linking", "queued"}}
A == INSTANCE Admission WITH
       Client <- Thread, permits <- permits_held, alone <- Alone, waiting <- Waiting

\* The scheduler keeps the promise of Admission: every grant, timeout and
\* release of the mutex, list and condition variables of osched.c is a grant,
\* expiry or return of the abstract specification, and every other step of them
\* is invisible to callers.
ImplementsAdmission == A!AdmissionSpec
=============================================================================
