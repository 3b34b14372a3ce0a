--------------------------- MODULE OSched_proofs ---------------------------
(***************************************************************************)
(* Proofs about OSched, for any number of threads, slots and request       *)
(* classes and any timeout and aging settings.                             *)
(***************************************************************************)
EXTENDS OSched, FiniteSetTheorems, TLAPS

-----------------------------------------------------------------------------
(* The operators on the waiter list.                                       *)

\* The prefix that insert_waiter skips is no longer than the list.
LEMMA SkippedBound ==
    ASSUME NEW t, NEW pr, NEW s \in Seq(Thread)
    PROVE  Cardinality(SkippedBy(t, pr, s)) \in 0..Len(s)
<1>1. IsFiniteSet(1..Len(s)) /\ Cardinality(1..Len(s)) = Len(s)
  <2>1. Len(s) \in Nat
    OBVIOUS
  <2> QED BY <2>1, FS_Interval
<1>2. SkippedBy(t, pr, s) \in SUBSET (1..Len(s))
  BY DEF SkippedBy
<1> QED BY <1>1, <1>2, FS_Subset, FS_CardinalityType

\* insert_waiter returns a list with one element more: t, and every element it
\* was given, none of them twice if none was.
LEMMA InsertList ==
    ASSUME NEW t \in Thread, NEW pr, NEW s \in Seq(Thread),
           NEW ns, ns = insert_waiter(t, pr, s)
    PROVE  /\ ns \in Seq(Thread) /\ Len(ns) = Len(s) + 1
           /\ \A u \in Thread : Linked(u, ns) <=> (u = t \/ Linked(u, s))
           /\ Distinct(s) /\ ~Linked(t, s) => Distinct(ns)
<1> USE DEF Linked, Distinct
<1> DEFINE k == Cardinality(SkippedBy(t, pr, s))
<1>1. k \in 0..Len(s)
  BY SkippedBound
<1>2. ns = [i \in 1..(Len(s) + 1) |->
              IF i <= k THEN s[i] ELSE IF i = k + 1 THEN t ELSE s[i - 1]]
  BY DEF insert_waiter
<1> HIDE DEF k
<1>3. ns \in Seq(Thread) /\ Len(ns) = Len(s) + 1
  BY <1>1, <1>2
<1>4. ASSUME NEW u \in Thread
      PROVE  Linked(u, ns) <=> (u = t \/ Linked(u, s))
  <2>1. ASSUME NEW i \in 1..Len(ns), ns[i] = u PROVE u = t \/ Linked(u, s)
    BY <1>1, <1>2, <1>3, <2>1
  <2>2. ns[k + 1] = t /\ k + 1 \in 1..Len(ns)
    BY <1>1, <1>2, <1>3
  <2>3. ASSUME NEW i \in 1..Len(s), s[i] = u PROVE Linked(u, ns)
    <3>1. CASE i <= k
      <4>1. i \in 1..Len(ns) /\ ns[i] = s[i]
        BY <1>1, <1>2, <1>3, <3>1
      <4> QED BY <4>1, <2>3
    <3>2. CASE ~(i <= k)
      <4>1. i + 1 \in 1..Len(ns) /\ ns[i + 1] = s[i]
        BY <1>1, <1>2, <1>3, <3>2
      <4> QED BY <4>1, <2>3
    <3> QED BY <3>1, <3>2
  <2> QED BY <2>1, <2>2, <2>3
<1>5. ASSUME Distinct(s), ~Linked(t, s) PROVE Distinct(ns)
  BY <1>1, <1>2, <1>3, <1>5
<1> QED BY <1>3, <1>4, <1>5

\* unlink_waiter returns a list without t and otherwise unchanged, provided t
\* is linked once.
LEMMA UnlinkList ==
    ASSUME NEW t \in Thread, NEW s \in Seq(Thread),
           NEW ns, ns = unlink_waiter(t, s)
    PROVE  /\ ns \in Seq(Thread)
           /\ Linked(t, s) /\ Distinct(s)
              => /\ Distinct(ns)
                 /\ \A u \in Thread : Linked(u, ns) <=> (u # t /\ Linked(u, s))
<1> USE DEF Linked, Distinct
<1> DEFINE p == PositionOf(t, s)
<1>1. ns = [i \in 1..(Len(s) - 1) |-> IF i < p THEN s[i] ELSE s[i + 1]]
  BY DEF unlink_waiter
<1>2. Linked(t, s) => p \in 1..Len(s) /\ s[p] = t
  BY DEF PositionOf
<1> HIDE DEF p
<1>3. ns \in Seq(Thread) /\ (Len(s) > 0 => Len(ns) = Len(s) - 1)
  <2>1. CASE Len(s) = 0
    <3>1. ns = [i \in 1..0 |-> IF i < p THEN s[i] ELSE s[i + 1]]
      BY <1>1, <2>1, 1..(0 - 1) = 1..0
    <3> QED BY <3>1, <2>1
  <2>2. CASE Len(s) > 0
    <3>1. \A i \in 1..(Len(s) - 1) : (IF i < p THEN s[i] ELSE s[i + 1]) \in Thread
      BY <2>2
    <3> QED BY <1>1, <2>2, <3>1
  <2> QED BY <2>1, <2>2
<1>4. ASSUME Linked(t, s), Distinct(s)
      PROVE  /\ Distinct(ns)
             /\ \A u \in Thread : Linked(u, ns) <=> (u # t /\ Linked(u, s))
  <2>1. p \in 1..Len(s) /\ s[p] = t /\ Len(ns) = Len(s) - 1
    BY <1>2, <1>3, <1>4
  <2>2. \A i \in 1..Len(ns) : ns[i] = IF i < p THEN s[i] ELSE s[i + 1]
    BY <1>1, <2>1
  <2>3. Distinct(ns)
    BY <1>4, <2>1, <2>2
  <2>4. ASSUME NEW u \in Thread, NEW i \in 1..Len(ns), ns[i] = u
        PROVE  u # t /\ Linked(u, s)
    BY <1>4, <2>1, <2>2, <2>4
  <2>5. ASSUME NEW u \in Thread, u # t, NEW i \in 1..Len(s), s[i] = u
        PROVE  Linked(u, ns)
    <3>1. CASE i < p
      BY <2>1, <2>2, <2>5, <3>1
    <3>2. CASE i > p
      <4>1. i - 1 \in 1..Len(ns) /\ ns[i - 1] = s[i]
        BY <2>1, <2>2, <3>2
      <4> QED BY <4>1, <2>5
    <3> QED BY <3>1, <3>2, <2>1, <2>5
  <2> QED BY <2>3, <2>4, <2>5
<1> QED BY <1>3, <1>4

\* Unlinking the head is unlinking any other element.
LEMMA TailList ==
    ASSUME NEW s \in Seq(Thread), s # <<>>, Distinct(s)
    PROVE  /\ Distinct(Tail(s))
           /\ Head(s) \in Thread /\ Linked(Head(s), s)
           /\ \A u \in Thread : Linked(u, Tail(s)) <=> (u # Head(s) /\ Linked(u, s))
<1> USE DEF Linked, Distinct
<1> DEFINE ns == Tail(s)
<1>1. /\ Len(s) > 0 /\ Head(s) = s[1] /\ Head(s) \in Thread
      /\ Len(ns) = Len(s) - 1
      /\ \A i \in 1..Len(ns) : ns[i] = s[i + 1]
  OBVIOUS
<1> HIDE DEF ns
<1>2. Distinct(ns)
  BY <1>1
<1>3. ASSUME NEW u \in Thread, NEW i \in 1..Len(ns), ns[i] = u
      PROVE  u # Head(s) /\ Linked(u, s)
  BY <1>1, <1>3
<1>4. ASSUME NEW u \in Thread, u # Head(s), NEW i \in 1..Len(s), s[i] = u
      PROVE  Linked(u, ns)
  <2>1. i - 1 \in 1..Len(ns) /\ ns[i - 1] = u
    BY <1>1, <1>4
  <2> QED BY <2>1
<1>5. Linked(Head(s), s)
  BY <1>1
<1> QED BY <1>1, <1>2, <1>3, <1>4, <1>5 DEF ns

-----------------------------------------------------------------------------
(* Type correctness.                                                       *)

\* A request that is admitted never takes used_slots past the device's slots.
LEMMA FitsBound ==
    ASSUME TypeOK, NEW r \in Request \cup {NoRequest}, fits_locked(r)
    PROVE  used_slots + r.permits \in 0..Slots /\ r.permits \in 0..Slots
BY SlotsAssumption, RequestAssumption
   DEF TypeOK, fits_locked, NoRequest, Exclusive

\* The renumbered arrival ranks are naturals.
LEMMA NextSeqType ==
    ASSUME NEW t \in Thread
    PROVE  NextSeq(t) \in [Thread -> Nat]
<1>1. IsFiniteSet(Queued) /\ Queued \in SUBSET Thread
  BY ThreadAssumption, FS_Subset DEF Queued
<1>2. \A u \in Thread : IsFiniteSet({v \in Queued : seq[v] <= seq[u]})
  <2> TAKE u \in Thread
  <2>1. {v \in Queued : seq[v] <= seq[u]} \in SUBSET Queued
    OBVIOUS
  <2> QED BY <1>1, <2>1, FS_Subset
<1>3. \A u \in Thread : Cardinality({v \in Queued : seq[v] <= seq[u]}) \in Nat
  BY <1>2, FS_CardinalityType
<1>4. Cardinality(Queued) \in Nat
  BY <1>1, FS_CardinalityType
<1> QED BY <1>3, <1>4 DEF NextSeq

LEMMA AgedRankType ==
    ASSUME TypeOK, NEW t \in Thread
    PROVE  AgedRank(t) \in Tier
BY DEF TypeOK, AgedRank, Tier, TIER_PAID, TIER_SUB, TIER_FREE, TIER_BACKGROUND

LEMMA TypeInit == Init => TypeOK
<1> SUFFICES ASSUME Init PROVE TypeOK
  OBVIOUS
<1>1. AgeCap \in Nat
  BY TimesAssumption DEF AgeCap
<1> QED BY <1>1, SlotsAssumption DEF Init, TypeOK, PC, Tier, TIER_PAID, TIER_FREE, TIER_BACKGROUND

LEMMA TypeNext == TypeOK /\ [Next]_vars => TypeOK'
<1> SUFFICES ASSUME TypeOK, [Next]_vars PROVE TypeOK'
  OBVIOUS
<1> USE DEF TypeOK, PC, Goto
<1>age. AgeCap \in Nat
  BY TimesAssumption DEF AgeCap
<1>0. CASE Tick
  <2>1. age' \in [Thread -> 0..AgeCap]
    BY <1>0, <1>age DEF Tick
  <2> QED BY <1>0, <2>1 DEF Tick
<1>1. ASSUME NEW t \in Thread, NEW r \in Request, AcquireNow(t, r) PROVE TypeOK'
  <2>1. used_slots' \in 0..Slots
    BY <1>1, FitsBound DEF AcquireNow, Charge
  <2> QED BY <1>1, <2>1 DEF AcquireNow, Charge
<1>2. ASSUME NEW t \in Thread, NEW r \in Request, AcquireQueue(t, r) PROVE TypeOK'
  <2>1. seq' \in [Thread -> Nat]
    BY <1>2, NextSeqType DEF AcquireQueue
  <2>2. prio' \in [Thread -> Tier]
    BY <1>2, RequestAssumption DEF AcquireQueue
  <2> QED BY <1>2, <2>1, <2>2 DEF AcquireQueue
<1>3. ASSUME NEW t \in Thread, NEW w \in Thread, AgeOne(t, w) PROVE TypeOK'
  <2>1. unlink_waiter(w, waiters) \in Seq(Thread)
    BY UnlinkList
  <2>2. waiters' \in Seq(Thread)
    BY <1>3, <2>1, InsertList DEF AgeOne
  <2>3. prio' \in [Thread -> Tier]
    BY <1>3, AgedRankType DEF AgeOne
  <2> QED BY <1>3, <2>2, <2>3 DEF AgeOne
<1>4. ASSUME NEW t \in Thread, Link(t) PROVE TypeOK'
  <2>1. waiters' \in Seq(Thread)
    BY <1>4, InsertList DEF Link
  <2> QED BY <1>4, <2>1 DEF Link, fields
<1>5. ASSUME NEW t \in Thread, AgeDone(t) PROVE TypeOK'
  BY <1>5 DEF AgeDone, fields
<1>6. ASSUME NEW t \in Thread, PromoteHead(t) PROVE TypeOK'
  <2>1. waiters' \in Seq(Thread) /\ Head(waiters) \in Thread
    BY <1>6 DEF PromoteHead, HeadFits
  <2>2. used_slots' \in 0..Slots
    BY <1>6, <2>1, FitsBound DEF PromoteHead, HeadFits, Charge
  <2> QED BY <1>6, <2>1, <2>2 DEF PromoteHead, Charge, fields
<1>7. ASSUME NEW t \in Thread, PromoteDone(t) PROVE TypeOK'
  BY <1>7 DEF PromoteDone, fields
<1>8. ASSUME NEW t \in Thread, Wake(t) PROVE TypeOK'
  BY <1>8, <1>age DEF Wake, DropWaiter, Tier, TIER_PAID, TIER_FREE, TIER_BACKGROUND
<1>9. ASSUME NEW t \in Thread, TimeOut(t) PROVE TypeOK'
  <2>1. waiters' \in Seq(Thread)
    BY <1>9, UnlinkList DEF TimeOut
  <2> QED BY <1>9, <2>1, <1>age
          DEF TimeOut, DropWaiter, Tier, TIER_PAID, TIER_FREE, TIER_BACKGROUND
<1>10. ASSUME NEW t \in Thread, Release(t) PROVE TypeOK'
  <2>1. req[t].permits \in 0..Slots
    BY RequestAssumption, SlotsAssumption DEF NoRequest
  <2> QED BY <1>10, <2>1, SlotsAssumption DEF Release
<1>11. CASE UNCHANGED vars
  BY <1>11 DEF vars
<1> QED BY <1>0, <1>1, <1>2, <1>3, <1>4, <1>5, <1>6, <1>7, <1>8, <1>9, <1>10, <1>11
        DEF Next, LoopStep

\* Every reachable state of the scheduler is well typed; in particular no
\* sequence of acquires, grants, timeouts and releases takes used_slots past
\* s->slots or below zero.
THEOREM TypeCorrect == Spec => []TypeOK
<1> QED BY TypeInit, TypeNext, PTL DEF Spec

-----------------------------------------------------------------------------
(* The inductive invariant.  PermitsAccounted and NoStrandedQueue are not  *)
(* inductive alone: a promoter charges whoever is at the head, which must  *)
(* be a queued thread that holds nothing yet (QueueConsistent); a thread   *)
(* between AcquireQueue and Link is about to queue and somebody must hold  *)
(* permits already (LinkingBehindHolder).                                  *)

InLoop == {t \in Thread : pc[t] \in {"linking", "aging", "promoting"}}

\* The mutex is held exactly by the thread inside a loop
LockOwned == \A t \in Thread : t \in InLoop <=> lock = t

LinkingBehindHolder == \A t \in Thread : pc[t] = "linking" => Holders # {}

IInv ==
    /\ TypeOK
    /\ QueueConsistent
    /\ LockOwned
    /\ PermitsAccounted
    /\ LinkingBehindHolder
    /\ NoStrandedQueue

(* Counting permits.                                                       *)

PermitsOf(t, n) == {t} \X (1..n)

LEMMA PermitsOfCount ==
    ASSUME NEW t, NEW n \in Nat
    PROVE  IsFiniteSet(PermitsOf(t, n)) /\ Cardinality(PermitsOf(t, n)) = n
<1>1. IsFiniteSet({t}) /\ Cardinality({t}) = 1
  BY FS_Singleton
<1>2. IsFiniteSet(1..n) /\ Cardinality(1..n) = n
  BY FS_Interval
<1>3. /\ IsFiniteSet({t} \X (1..n))
      /\ Cardinality({t} \X (1..n)) = Cardinality({t}) * Cardinality(1..n)
  BY <1>1, <1>2, FS_Product
<1>4. Cardinality({t}) * Cardinality(1..n) = n
  BY <1>1, <1>2
<1> QED BY <1>3, <1>4 DEF PermitsOf

LEMMA HoldersFinite == IsFiniteSet(Holders) /\ Cardinality(Holders) \in Nat
BY ThreadAssumption, FS_Subset, FS_CardinalityType DEF Holders

LEMMA HeldUnitsFinite == IsFiniteSet(HeldUnits) /\ Cardinality(HeldUnits) \in Nat
<1>1. IsFiniteSet(1..Slots)
  BY SlotsAssumption, FS_Interval
<1>2. IsFiniteSet(Thread \X (1..Slots))
  BY <1>1, ThreadAssumption, FS_Product
<1>3. HeldUnits \in SUBSET (Thread \X (1..Slots))
  BY DEF HeldUnits
<1> QED BY <1>2, <1>3, FS_Subset, FS_CardinalityType

\* A thread that becomes a holder adds itself and its permits to the counts.
LEMMA CountGrant ==
    ASSUME TypeOK, TypeOK', PermitsAccounted,
           NEW t \in Thread, t \notin Holders,
           Holders' = Holders \cup {t},
           \A u \in Holders : req'[u] = req[u],
           Charge(req'[t])
    PROVE  PermitsAccounted'
<1> DEFINE n == req'[t].permits
<1>1. n \in 0..Slots
  BY RequestAssumption, SlotsAssumption DEF TypeOK, NoRequest
<1>2. HeldUnits' = HeldUnits \cup PermitsOf(t, n)
  BY <1>1, SlotsAssumption DEF HeldUnits, PermitsOf, Holders
<1>3. HeldUnits \cap PermitsOf(t, n) = {}
  BY DEF HeldUnits, PermitsOf
<1>4. Cardinality(HeldUnits') = Cardinality(HeldUnits) + n
  <2>1. IsFiniteSet(PermitsOf(t, n)) /\ Cardinality(PermitsOf(t, n)) = n
    BY <1>1, SlotsAssumption, PermitsOfCount
  <2>2. Cardinality(HeldUnits \cup PermitsOf(t, n)) =
            Cardinality(HeldUnits) + Cardinality(PermitsOf(t, n))
            - Cardinality(HeldUnits \cap PermitsOf(t, n))
    BY <2>1, HeldUnitsFinite, FS_Union
  <2> QED BY <1>1, <1>2, <1>3, <2>1, <2>2, HeldUnitsFinite, FS_EmptySet
<1>5. Cardinality(Holders') = Cardinality(Holders) + 1
  BY HoldersFinite, FS_AddElement
<1> QED BY <1>1, <1>4, <1>5 DEF PermitsAccounted, Charge

\* A step that leaves the holders, their requests and the counters alone.
LEMMA CountSame ==
    ASSUME PermitsAccounted, UNCHANGED <<active, used_slots>>,
           Holders' = Holders, \A u \in Holders : req'[u] = req[u]
    PROVE  PermitsAccounted'
<1>1. HeldUnits' = HeldUnits
  BY DEF HeldUnits
<1> QED BY <1>1 DEF PermitsAccounted

\* A holder that releases takes itself and its permits out of the counts, and
\* the clamps of osched_release_n do not apply.
LEMMA CountRelease ==
    ASSUME TypeOK, PermitsAccounted, NEW t \in Thread, Release(t)
    PROVE  PermitsAccounted'
<1> DEFINE n == req[t].permits
<1>1. n \in 0..Slots /\ n \in Nat
  BY RequestAssumption, SlotsAssumption DEF TypeOK, NoRequest
<1>2. t \in Holders /\ Holders' = Holders \ {t}
  BY DEF Release, Holders, Goto, TypeOK
<1>3. \A u \in Holders' : req'[u] = req[u]
  BY <1>2 DEF Release, TypeOK
<1>4. HeldUnits' = HeldUnits \ PermitsOf(t, n)
  BY <1>1, <1>2, <1>3, SlotsAssumption DEF HeldUnits, PermitsOf
<1>5. HeldUnits \cap PermitsOf(t, n) = PermitsOf(t, n)
  BY <1>1, <1>2, SlotsAssumption DEF HeldUnits, PermitsOf
<1>6. Cardinality(HeldUnits') = Cardinality(HeldUnits) - n
  <2>1. Cardinality(PermitsOf(t, n)) = n
    BY <1>1, PermitsOfCount
  <2>2. Cardinality(HeldUnits \ PermitsOf(t, n)) =
            Cardinality(HeldUnits) - Cardinality(HeldUnits \cap PermitsOf(t, n))
    BY HeldUnitsFinite, FS_Difference
  <2> QED BY <1>4, <1>5, <2>1, <2>2
<1>7. Cardinality(HeldUnits') \in Nat
  BY <1>4, HeldUnitsFinite, FS_Difference, FS_CardinalityType
<1>8. Cardinality(Holders') = Cardinality(Holders) - 1 /\ Cardinality(Holders) > 0
  BY <1>2, HoldersFinite, FS_RemoveElement, FS_EmptySet
<1> QED BY <1>1, <1>6, <1>7, <1>8, HoldersFinite, HeldUnitsFinite DEF PermitsAccounted, Release

\* With nothing charged, any request fits: whoever does not fit has somebody
\* in front of it.
LEMMA BlockedByHolder ==
    ASSUME TypeOK, PermitsAccounted, NEW r \in Request \cup {NoRequest}, ~fits_locked(r)
    PROVE  Holders # {}
<1> SUFFICES ASSUME Holders = {} PROVE FALSE
  OBVIOUS
<1>1. active = 0
  BY FS_EmptySet DEF PermitsAccounted
<1>2. HeldUnits = {}
  BY DEF HeldUnits
<1>3. used_slots = 0
  BY <1>2, FS_EmptySet DEF PermitsAccounted
<1> QED BY <1>1, <1>3, RequestAssumption, SlotsAssumption DEF fits_locked, Exclusive, NoRequest

(* The parts of the invariant, action by action.                           *)

LEMMA IInvInit == Init => IInv
<1> SUFFICES ASSUME Init PROVE IInv
  OBVIOUS
<1>1. TypeOK
  BY TypeInit
<1>2. Holders = {} /\ HeldUnits = {}
  BY DEF Init, Holders, HeldUnits
<1>3. PermitsAccounted
  BY <1>2, FS_EmptySet DEF PermitsAccounted, Init
<1>4. QueueConsistent /\ LockOwned
  BY ThreadAssumption DEF Init, QueueConsistent, Distinct, Linked, LockOwned, InLoop
<1> QED BY <1>1, <1>3, <1>4 DEF IInv, Init, LinkingBehindHolder, NoStrandedQueue

LEMMA QueueNext == IInv /\ [Next]_vars => QueueConsistent'
<1> SUFFICES ASSUME IInv, [Next]_vars PROVE QueueConsistent'
  OBVIOUS
<1> USE DEF IInv, TypeOK, QueueConsistent, Goto
<1>0. CASE Tick
  BY <1>0 DEF Tick
<1>1. ASSUME NEW t \in Thread, NEW r \in Request, AcquireNow(t, r) PROVE QueueConsistent'
  BY <1>1 DEF AcquireNow
<1>2. ASSUME NEW t \in Thread, NEW r \in Request, AcquireQueue(t, r) PROVE QueueConsistent'
  BY <1>2 DEF AcquireQueue
<1>3. ASSUME NEW t \in Thread, NEW w \in Thread, AgeOne(t, w) PROVE QueueConsistent'
  <2> DEFINE us == unlink_waiter(w, waiters)
  <2>1. Linked(w, waiters)
    BY <1>3 DEF AgeOne, Overdue, Queued
  <2>2. /\ us \in Seq(Thread)
        /\ Distinct(us)
        /\ \A u \in Thread : Linked(u, us) <=> (u # w /\ Linked(u, waiters))
    BY <2>1, UnlinkList
  <2>3. waiters' = insert_waiter(w, AgedRank(w), us) /\ pc' = pc
    BY <1>3 DEF AgeOne
  <2> HIDE DEF us
  <2>4. /\ Distinct(waiters')
        /\ \A u \in Thread : Linked(u, waiters') <=> (u = w \/ Linked(u, us))
    BY <2>2, <2>3, InsertList
  <2> QED BY <2>1, <2>2, <2>3, <2>4
<1>4. ASSUME NEW t \in Thread, Link(t) PROVE QueueConsistent'
  <2>1. waiters' = insert_waiter(t, prio[t], waiters) /\ pc[t] = "linking"
    BY <1>4 DEF Link
  <2>2. /\ Distinct(waiters')
        /\ \A u \in Thread : Linked(u, waiters') <=> (u = t \/ Linked(u, waiters))
    BY <2>1, InsertList
  <2> QED BY <1>4, <2>2 DEF Link
<1>5. ASSUME NEW t \in Thread, AgeDone(t) PROVE QueueConsistent'
  BY <1>5 DEF AgeDone
<1>6. ASSUME NEW t \in Thread, PromoteHead(t) PROVE QueueConsistent'
  <2>1. waiters # <<>> /\ waiters' = Tail(waiters)
    BY <1>6 DEF PromoteHead, HeadFits
  <2>2. /\ Distinct(waiters') /\ Head(waiters) \in Thread
        /\ \A u \in Thread : Linked(u, waiters') <=> (u # Head(waiters) /\ Linked(u, waiters))
    BY <2>1, TailList
  <2> QED BY <1>6, <2>2 DEF PromoteHead
<1>7. ASSUME NEW t \in Thread, PromoteDone(t) PROVE QueueConsistent'
  BY <1>7 DEF PromoteDone
<1>8. ASSUME NEW t \in Thread, Wake(t) PROVE QueueConsistent'
  BY <1>8 DEF Wake
<1>9. ASSUME NEW t \in Thread, TimeOut(t) PROVE QueueConsistent'
  <2>1. waiters' = unlink_waiter(t, waiters) /\ Linked(t, waiters)
    BY <1>9 DEF TimeOut
  <2>2. /\ Distinct(waiters')
        /\ \A u \in Thread : Linked(u, waiters') <=> (u # t /\ Linked(u, waiters))
    BY <2>1, UnlinkList
  <2> QED BY <1>9, <2>2 DEF TimeOut
<1>10. ASSUME NEW t \in Thread, Release(t) PROVE QueueConsistent'
  BY <1>10 DEF Release
<1>11. CASE UNCHANGED vars
  BY <1>11 DEF vars
<1> QED BY <1>0, <1>1, <1>2, <1>3, <1>4, <1>5, <1>6, <1>7, <1>8, <1>9, <1>10, <1>11
        DEF Next, LoopStep

LEMMA LockNext == IInv /\ [Next]_vars => LockOwned'
<1> SUFFICES ASSUME IInv, [Next]_vars PROVE LockOwned'
  OBVIOUS
<1> USE ThreadAssumption DEF IInv, TypeOK, LockOwned, InLoop, Goto
<1>0. CASE Tick
  BY <1>0 DEF Tick
<1>1. ASSUME NEW t \in Thread, NEW r \in Request, AcquireNow(t, r) PROVE LockOwned'
  BY <1>1 DEF AcquireNow
<1>2. ASSUME NEW t \in Thread, NEW r \in Request, AcquireQueue(t, r) PROVE LockOwned'
  BY <1>2 DEF AcquireQueue
<1>3. ASSUME NEW t \in Thread, NEW w \in Thread, AgeOne(t, w) PROVE LockOwned'
  BY <1>3 DEF AgeOne
<1>4. ASSUME NEW t \in Thread, Link(t) PROVE LockOwned'
  BY <1>4 DEF Link
<1>5. ASSUME NEW t \in Thread, AgeDone(t) PROVE LockOwned'
  BY <1>5 DEF AgeDone
<1>6. ASSUME NEW t \in Thread, PromoteHead(t) PROVE LockOwned'
  <2>1. Head(waiters) \in Thread /\ pc[Head(waiters)] = "queued"
    BY <1>6, TailList DEF PromoteHead, HeadFits, QueueConsistent
  <2> QED BY <1>6, <2>1 DEF PromoteHead
<1>7. ASSUME NEW t \in Thread, PromoteDone(t) PROVE LockOwned'
  BY <1>7 DEF PromoteDone
<1>8. ASSUME NEW t \in Thread, Wake(t) PROVE LockOwned'
  BY <1>8 DEF Wake
<1>9. ASSUME NEW t \in Thread, TimeOut(t) PROVE LockOwned'
  BY <1>9 DEF TimeOut
<1>10. ASSUME NEW t \in Thread, Release(t) PROVE LockOwned'
  BY <1>10 DEF Release
<1>11. CASE UNCHANGED vars
  BY <1>11 DEF vars
<1> QED BY <1>0, <1>1, <1>2, <1>3, <1>4, <1>5, <1>6, <1>7, <1>8, <1>9, <1>10, <1>11
        DEF Next, LoopStep

\* The head of the list is a queued thread, hence no holder yet.
LEMMA HeadQueued ==
    ASSUME IInv, waiters # <<>>
    PROVE  Head(waiters) \in Thread /\ pc[Head(waiters)] = "queued"
BY TailList DEF IInv, TypeOK, QueueConsistent

LEMMA PermitsNext == IInv /\ [Next]_vars => PermitsAccounted'
<1> SUFFICES ASSUME IInv, [Next]_vars PROVE PermitsAccounted'
  OBVIOUS
<1>t. TypeOK /\ TypeOK' /\ PermitsAccounted
  BY TypeNext DEF IInv
<1>0. CASE Tick
  BY <1>0, <1>t, CountSame DEF Tick, Holders
<1>1. ASSUME NEW t \in Thread, NEW r \in Request, AcquireNow(t, r) PROVE PermitsAccounted'
  <2>1. t \notin Holders /\ Holders' = Holders \cup {t}
    BY <1>1, <1>t DEF AcquireNow, Holders, Goto, TypeOK
  <2>2. req'[t] = r /\ \A u \in Holders : req'[u] = req[u]
    BY <1>1, <1>t, <2>1 DEF AcquireNow, TypeOK
  <2>3. Charge(req'[t])
    BY <1>1, <2>2 DEF AcquireNow
  <2> QED BY <1>t, <2>1, <2>2, <2>3, CountGrant
<1>2. ASSUME NEW t \in Thread, NEW r \in Request, AcquireQueue(t, r) PROVE PermitsAccounted'
  <2>1. t \notin Holders /\ Holders' = Holders
    BY <1>2, <1>t DEF AcquireQueue, Holders, Goto, TypeOK
  <2>2. \A u \in Holders : req'[u] = req[u]
    BY <1>2, <1>t, <2>1 DEF AcquireQueue, TypeOK
  <2> QED BY <1>2, <1>t, <2>1, <2>2, CountSame DEF AcquireQueue
<1>3. ASSUME NEW t \in Thread, NEW w \in Thread, AgeOne(t, w) PROVE PermitsAccounted'
  BY <1>3, <1>t, CountSame DEF AgeOne, Holders
<1>4. ASSUME NEW t \in Thread, Link(t) PROVE PermitsAccounted'
  <2>1. Holders' = Holders
    BY <1>4, <1>t DEF Link, Holders, Goto, TypeOK
  <2> QED BY <1>4, <1>t, <2>1, CountSame DEF Link, fields
<1>5. ASSUME NEW t \in Thread, AgeDone(t) PROVE PermitsAccounted'
  <2>1. Holders' = Holders
    BY <1>5, <1>t DEF AgeDone, Holders, Goto, TypeOK
  <2> QED BY <1>5, <1>t, <2>1, CountSame DEF AgeDone, fields
<1>6. ASSUME NEW t \in Thread, PromoteHead(t) PROVE PermitsAccounted'
  <2> DEFINE h == Head(waiters)
  <2>1. h \in Thread /\ pc[h] = "queued"
    BY <1>6, HeadQueued DEF PromoteHead, HeadFits
  <2> HIDE DEF h
  <2>2. pc' = [pc EXCEPT ![h] = "granted"] /\ req' = req /\ Charge(req'[h])
    BY <1>6 DEF PromoteHead, Goto, fields, h
  <2>3. h \notin Holders /\ Holders' = Holders \cup {h}
    BY <1>t, <2>1, <2>2 DEF Holders, TypeOK
  <2> QED BY <1>t, <2>1, <2>2, <2>3, CountGrant
<1>7. ASSUME NEW t \in Thread, PromoteDone(t) PROVE PermitsAccounted'
  <2>1. Holders' = Holders
    BY <1>7, <1>t DEF PromoteDone, Holders, Goto, TypeOK
  <2> QED BY <1>7, <1>t, <2>1, CountSame DEF PromoteDone, fields
<1>8. ASSUME NEW t \in Thread, Wake(t) PROVE PermitsAccounted'
  <2>1. Holders' = Holders
    BY <1>8, <1>t DEF Wake, Holders, Goto, TypeOK
  <2> QED BY <1>8, <1>t, <2>1, CountSame DEF Wake
<1>9. ASSUME NEW t \in Thread, TimeOut(t) PROVE PermitsAccounted'
  <2>1. t \notin Holders /\ Holders' = Holders
    BY <1>9, <1>t DEF TimeOut, Holders, Goto, TypeOK
  <2>2. \A u \in Holders : req'[u] = req[u]
    BY <1>9, <1>t, <2>1 DEF TimeOut, TypeOK
  <2> QED BY <1>9, <1>t, <2>1, <2>2, CountSame DEF TimeOut
<1>10. ASSUME NEW t \in Thread, Release(t) PROVE PermitsAccounted'
  BY <1>10, <1>t, CountRelease
<1>11. CASE UNCHANGED vars
  BY <1>11, <1>t, CountSame DEF vars, Holders
<1> QED BY <1>0, <1>1, <1>2, <1>3, <1>4, <1>5, <1>6, <1>7, <1>8, <1>9, <1>10, <1>11
        DEF Next, LoopStep

LEMMA StrandedNext == IInv /\ [Next]_vars => LinkingBehindHolder' /\ NoStrandedQueue'
<1> SUFFICES ASSUME IInv, [Next]_vars PROVE LinkingBehindHolder' /\ NoStrandedQueue'
  OBVIOUS
<1> USE ThreadAssumption
        DEF IInv, TypeOK, LinkingBehindHolder, NoStrandedQueue, LockOwned, InLoop, Holders, Goto
<1>0. CASE Tick
  BY <1>0 DEF Tick
<1>1. ASSUME NEW t \in Thread, NEW r \in Request, AcquireNow(t, r)
      PROVE  LinkingBehindHolder' /\ NoStrandedQueue'
  BY <1>1 DEF AcquireNow
<1>2. ASSUME NEW t \in Thread, NEW r \in Request, AcquireQueue(t, r)
      PROVE  LinkingBehindHolder' /\ NoStrandedQueue'
  <2>1. Holders # {}
    <3>1. CASE waiters # <<>>
      BY <1>2, <3>1 DEF AcquireQueue
    <3>2. CASE ~fits_locked(r)
      BY <3>2, BlockedByHolder
    <3> QED BY <1>2, <3>1, <3>2 DEF AcquireQueue
  <2> QED BY <1>2, <2>1 DEF AcquireQueue
<1>3. ASSUME NEW t \in Thread, NEW w \in Thread, AgeOne(t, w)
      PROVE  LinkingBehindHolder' /\ NoStrandedQueue'
  BY <1>3 DEF AgeOne
<1>4. ASSUME NEW t \in Thread, Link(t) PROVE LinkingBehindHolder' /\ NoStrandedQueue'
  BY <1>4 DEF Link
<1>5. ASSUME NEW t \in Thread, AgeDone(t) PROVE LinkingBehindHolder' /\ NoStrandedQueue'
  BY <1>5 DEF AgeDone
<1>6. ASSUME NEW t \in Thread, PromoteHead(t) PROVE LinkingBehindHolder' /\ NoStrandedQueue'
  <2>1. Head(waiters) \in Thread /\ pc[Head(waiters)] = "queued"
    BY <1>6, HeadQueued DEF PromoteHead, HeadFits
  <2> QED BY <1>6, <2>1 DEF PromoteHead
<1>7. ASSUME NEW t \in Thread, PromoteDone(t) PROVE LinkingBehindHolder' /\ NoStrandedQueue'
  <2>1. waiters # <<>> => Holders # {}
    <3> SUFFICES ASSUME waiters # <<>> PROVE Holders # {}
      OBVIOUS
    <3>1. Head(waiters) \in Thread
      BY HeadQueued
    <3>2. ~fits_locked(req[Head(waiters)])
      BY <1>7 DEF PromoteDone, HeadFits
    <3> QED BY <3>1, <3>2, BlockedByHolder
  <2>2. \A u \in Thread : pc[u] # "linking"
    BY <1>7 DEF PromoteDone
  <2>3. Holders' = Holders
    BY <1>7 DEF PromoteDone
  <2> QED BY <1>7, <2>1, <2>2, <2>3 DEF PromoteDone
<1>8. ASSUME NEW t \in Thread, Wake(t) PROVE LinkingBehindHolder' /\ NoStrandedQueue'
  BY <1>8 DEF Wake
<1>9. ASSUME NEW t \in Thread, TimeOut(t) PROVE LinkingBehindHolder' /\ NoStrandedQueue'
  BY <1>9 DEF TimeOut
<1>10. ASSUME NEW t \in Thread, Release(t) PROVE LinkingBehindHolder' /\ NoStrandedQueue'
  BY <1>10 DEF Release
<1>11. CASE UNCHANGED vars
  BY <1>11 DEF vars
<1> QED BY <1>0, <1>1, <1>2, <1>3, <1>4, <1>5, <1>6, <1>7, <1>8, <1>9, <1>10, <1>11
        DEF Next, LoopStep

LEMMA Inductive == Spec => []IInv
<1>1. IInv /\ [Next]_vars => IInv'
  BY TypeNext, QueueNext, LockNext, PermitsNext, StrandedNext DEF IInv
<1> QED BY <1>1, IInvInit, PTL DEF Spec

\* However acquires, grants, timeouts racing grants and releases interleave,
\* active and used_slots are exactly the holders and the permits they hold.
THEOREM PermitsAreAccounted == Spec => []PermitsAccounted
<1>1. IInv => PermitsAccounted
  BY DEF IInv
<1> QED BY <1>1, Inductive, PTL

\* The waiter list holds exactly the blocked threads, each once.
THEOREM QueueIsConsistent == Spec => []QueueConsistent
<1>1. IInv => QueueConsistent
  BY DEF IInv
<1> QED BY <1>1, Inductive, PTL

\* The counters and the list of osched.c agree with its callers.
THEOREM BooksAlwaysAgree == Spec => []BooksAgree
<1>1. TypeOK /\ PermitsAccounted /\ QueueConsistent <=> BooksAgree
  BY DEF BooksAgree
<1>2. QED  BY <1>1, TypeCorrect, PermitsAreAccounted, QueueIsConsistent, PTL

\* Nobody sleeps in the queue of an idle device.
THEOREM QueueIsNotStranded == Spec => []NoStrandedQueue
<1>1. IInv => NoStrandedQueue
  BY DEF IInv
<1> QED BY <1>1, Inductive, PTL

LEMMA ExclusiveStep ==
    ASSUME IInv, [Next]_vars,
           NEW u \in Thread, GrantedNow(u), Exclusive(req'[u])
    PROVE  Holders = {}
<1> USE DEF GrantedNow, Holders, IInv, TypeOK, Goto
<1>idle. ASSUME NEW r, fits_locked(r), Exclusive(r) PROVE Holders = {}
  <2>1. Cardinality(Holders) = 0
    BY <1>idle DEF fits_locked, PermitsAccounted
  <2> QED BY <2>1, HoldersFinite, FS_EmptySet
<1>0. CASE Tick
  BY <1>0 DEF Tick
<1>1. ASSUME NEW t \in Thread, NEW r \in Request, AcquireNow(t, r) PROVE Holders = {}
  <2>1. u = t /\ req'[u] = r /\ fits_locked(r)
    BY <1>1 DEF AcquireNow
  <2> QED BY <2>1, <1>idle
<1>2. ASSUME NEW t \in Thread, NEW r \in Request, AcquireQueue(t, r) PROVE Holders = {}
  BY <1>2 DEF AcquireQueue
<1>3. ASSUME NEW t \in Thread, NEW w \in Thread, AgeOne(t, w) PROVE Holders = {}
  BY <1>3 DEF AgeOne
<1>4. ASSUME NEW t \in Thread, Link(t) PROVE Holders = {}
  BY <1>4 DEF Link
<1>5. ASSUME NEW t \in Thread, AgeDone(t) PROVE Holders = {}
  BY <1>5 DEF AgeDone
<1>6. ASSUME NEW t \in Thread, PromoteHead(t) PROVE Holders = {}
  <2>1. u = Head(waiters) /\ req' = req /\ fits_locked(req[Head(waiters)])
    BY <1>6 DEF PromoteHead, HeadFits, fields
  <2> QED BY <2>1, <1>idle
<1>7. ASSUME NEW t \in Thread, PromoteDone(t) PROVE Holders = {}
  BY <1>7 DEF PromoteDone
<1>8. ASSUME NEW t \in Thread, Wake(t) PROVE Holders = {}
  BY <1>8 DEF Wake
<1>9. ASSUME NEW t \in Thread, TimeOut(t) PROVE Holders = {}
  BY <1>9 DEF TimeOut
<1>10. ASSUME NEW t \in Thread, Release(t) PROVE Holders = {}
  BY <1>10 DEF Release
<1>11. CASE UNCHANGED vars
  BY <1>11 DEF vars
<1> QED BY <1>0, <1>1, <1>2, <1>3, <1>4, <1>5, <1>6, <1>7, <1>8, <1>9, <1>10, <1>11
        DEF Next, LoopStep

\* Exclusive background never starts beside a holder, on the fast path or
\* through a promotion.
THEOREM ExclusiveStarts == Spec => ExclusiveStartsAlone
<1>1. IInv /\ [Next]_vars
      => [\A t \in Thread : GrantedNow(t) /\ Exclusive(req'[t]) => Holders = {}]_vars
  BY ExclusiveStep
<1> QED BY <1>1, Inductive, PTL DEF Spec, ExclusiveStartsAlone

-----------------------------------------------------------------------------
(* Service order.  That the list is sorted is not inductive alone: an      *)
(* insertion needs distinct arrival numbers, with whoever links behind all *)
(* the others (ArrivalOrder).  Served in order needs to know what a rank   *)
(* means (RankEarned), that the older of two waiters has the larger age,   *)
(* and that promote_locked starts only when age_locked is done             *)
(* (PromotesAged).                                                         *)

\* t is served before u at the ranks p and the arrivals of seq
Before(p, t, u) == p[t] < p[u] \/ (p[t] = p[u] /\ seq[t] < seq[u])
SortedBy(p, s) == \A i, j \in 1..Len(s) : i < j => Before(p, s[i], s[j])

\* insert_waiter skips a prefix: SkippedBy is exactly the first k positions.
LEMMA SkippedIsPrefix ==
    ASSUME NEW t, NEW pr, NEW s \in Seq(Thread)
    PROVE  SkippedBy(t, pr, s) = 1..Cardinality(SkippedBy(t, pr, s))
<1> DEFINE D == SkippedBy(t, pr, s)  k == Cardinality(D)
<1>1. D \in SUBSET (1..Len(s)) /\ IsFiniteSet(D) /\ k \in 0..Len(s)
  <2>1. D \in SUBSET (1..Len(s)) /\ IsFiniteSet(1..Len(s))
    BY FS_Interval DEF SkippedBy
  <2> QED BY <2>1, FS_Subset, SkippedBound
<1>2. \A i \in D : \A j \in 1..i : j \in D
  BY DEF SkippedBy
<1> HIDE DEF D
<1>3. ASSUME NEW i \in D PROVE i \in 1..k
  <2>1. i \in Nat /\ 1..i \in SUBSET D
    BY <1>1, <1>2
  <2>2. Cardinality(1..i) = i
    BY <2>1, FS_Interval
  <2>3. Cardinality(1..i) <= k
    BY <1>1, <2>1, FS_Subset
  <2> QED BY <1>1, <2>1, <2>2, <2>3
<1>4. ASSUME NEW i \in 1..k, i \notin D PROVE FALSE
  <2>1. D \in SUBSET (1..(i - 1))
    BY <1>1, <1>2, <1>4
  <2>2. IsFiniteSet(1..(i - 1)) /\ Cardinality(1..(i - 1)) = i - 1
    <3>1. i - 1 \in Nat
      BY <1>1
    <3> QED BY <3>1, FS_Interval
  <2>3. k <= i - 1
    BY <2>1, <2>2, FS_Subset
  <2> QED BY <1>1, <2>3
<1>5. \A i \in 1..k : i \in D
  BY <1>4
<1> QED BY <1>3, <1>5 DEF D

\* insert_waiter keeps the list in service order, at the rank it is called with.
LEMMA InsertSorted ==
    ASSUME TypeOK, NEW t \in Thread, NEW pr \in Tier, NEW s \in Seq(Thread),
           NEW ns, ns = insert_waiter(t, pr, s),
           SortedBy(prio, s), \A i \in 1..Len(s) : s[i] # t /\ seq[s[i]] # seq[t]
    PROVE  SortedBy([prio EXCEPT ![t] = pr], ns)
<1> DEFINE k == Cardinality(SkippedBy(t, pr, s))  p == [prio EXCEPT ![t] = pr]
<1>1. k \in 0..Len(s) /\ Len(s) \in Nat
  BY SkippedBound
<1>2. /\ Len(ns) = Len(s) + 1
      /\ \A i \in 1..(Len(s) + 1) :
           ns[i] = IF i <= k THEN s[i] ELSE IF i = k + 1 THEN t ELSE s[i - 1]
  BY InsertList DEF insert_waiter
<1>3. /\ \A i \in 1..Len(s) : s[i] \in Thread /\ p[s[i]] = prio[s[i]]
      /\ p[t] = pr
      /\ \A u \in Thread : p[u] \in Int /\ prio[u] \in Int /\ seq[u] \in Int
  <2>2. prio \in [Thread -> Tier] /\ seq \in [Thread -> Nat]
    BY DEF TypeOK
  <2>4. \A u \in Thread : p[u] = IF u = t THEN pr ELSE prio[u]
    BY <2>2
  <2>3. \A i \in 1..Len(s) : s[i] \in Thread
    OBVIOUS
  <2> HIDE DEF p
  <2>5. \A u \in Thread : p[u] \in Int /\ prio[u] \in Int /\ seq[u] \in Int
    BY <2>2, <2>4 DEF Tier, TIER_PAID, TIER_BACKGROUND
  <2>6. \A i \in 1..Len(s) : s[i] \in Thread /\ p[s[i]] = prio[s[i]]
    BY <2>3, <2>4
  <2> QED BY <2>4, <2>5, <2>6
<1>4. \A i \in 1..Len(s) : i <= k => Before(p, s[i], t)
  <2>1. \A i \in 1..k : i \in SkippedBy(t, pr, s)
    BY SkippedIsPrefix
  <2>2. \A i \in 1..k : prio[s[i]] < pr \/ (prio[s[i]] = pr /\ seq[s[i]] < seq[t])
    BY <1>1, <2>1 DEF SkippedBy
  <2> QED BY <1>1, <1>3, <2>2 DEF Before
<1>5. \A i \in 1..Len(s) : i = k + 1 => Before(p, t, s[i])
  <2> SUFFICES ASSUME k + 1 \in 1..Len(s) PROVE Before(p, t, s[k + 1])
    OBVIOUS
  <2>1. k + 1 \notin SkippedBy(t, pr, s) /\ \A i \in 1..k : i \in SkippedBy(t, pr, s)
    BY <1>1, SkippedIsPrefix
  <2>2. ~(prio[s[k + 1]] < pr \/ (prio[s[k + 1]] = pr /\ seq[s[k + 1]] < seq[t]))
    <3> SUFFICES ASSUME prio[s[k + 1]] < pr \/ (prio[s[k + 1]] = pr /\ seq[s[k + 1]] < seq[t])
                 PROVE  k + 1 \in SkippedBy(t, pr, s)
      BY <2>1
    <3>1. \A j \in 1..k : prio[s[j]] < pr \/ (prio[s[j]] = pr /\ seq[s[j]] < seq[t])
      BY <1>1, <2>1 DEF SkippedBy
    <3> HIDE DEF k
    <3>2. \A j \in 1..(k + 1) : prio[s[j]] < pr \/ (prio[s[j]] = pr /\ seq[s[j]] < seq[t])
      BY <1>1, <3>1
    <3> QED BY <1>1, <3>2 DEF SkippedBy
  <2>3. /\ pr \in Int /\ prio[s[k + 1]] \in Int /\ seq[s[k + 1]] \in Int /\ seq[t] \in Int
        /\ seq[s[k + 1]] # seq[t] /\ p[s[k + 1]] = prio[s[k + 1]] /\ p[t] = pr
    BY <1>3
  <2> HIDE DEF k, p
  <2> QED BY <2>2, <2>3 DEF Before
<1>6. \A i, j \in 1..Len(s) : i < j => Before(p, s[i], s[j])
  BY <1>3 DEF SortedBy, Before
<1>7. \A i \in 1..Len(s) : i > k => Before(p, t, s[i])
  <2> HIDE DEF k, p
  <2> TAKE i \in 1..Len(s)
  <2>1. CASE i = k + 1
    BY <1>5, <2>1
  <2>2. CASE i > k + 1
    <3>1. k + 1 \in 1..Len(s) /\ k + 1 < i
      BY <1>1, <2>2
    <3>2. Before(p, t, s[k + 1]) /\ Before(p, s[k + 1], s[i]) /\ s[k + 1] \in Thread /\ s[i] \in Thread
      BY <1>3, <1>5, <1>6, <3>1
    <3> QED BY <1>3, <3>2 DEF Before
  <2> QED BY <1>1, <2>1, <2>2
<1> HIDE DEF k, p
<1>8. ASSUME NEW i \in 1..Len(ns), NEW j \in 1..Len(ns), i < j PROVE Before(p, ns[i], ns[j])
  <2>1. CASE i <= k /\ j <= k
    BY <1>1, <1>2, <1>6, <1>8, <2>1
  <2>2. CASE i <= k /\ j = k + 1
    BY <1>1, <1>2, <1>4, <2>2
  <2>3. CASE i <= k /\ j > k + 1
    <3>1. ns[i] = s[i] /\ ns[j] = s[j - 1] /\ i \in 1..Len(s) /\ j - 1 \in 1..Len(s) /\ i < j - 1
      BY <1>1, <1>2, <2>3
    <3> QED BY <1>6, <3>1
  <2>4. CASE i = k + 1
    <3>1. ns[i] = t /\ ns[j] = s[j - 1] /\ j - 1 \in 1..Len(s) /\ j - 1 > k
      BY <1>1, <1>2, <1>8, <2>4
    <3> QED BY <1>7, <3>1
  <2>5. CASE i > k + 1
    <3>1. ns[i] = s[i - 1] /\ ns[j] = s[j - 1] /\ i - 1 \in 1..Len(s) /\ j - 1 \in 1..Len(s)
          /\ i - 1 < j - 1
      BY <1>1, <1>2, <1>8, <2>5
    <3> QED BY <1>6, <3>1
  <2> QED BY <1>1, <1>2, <1>8, <2>1, <2>2, <2>3, <2>4, <2>5
<1> QED BY <1>8 DEF SortedBy, p

\* unlink_waiter leaves the others in order.
LEMMA UnlinkSorted ==
    ASSUME NEW t \in Thread, NEW s \in Seq(Thread), NEW p, Linked(t, s), SortedBy(p, s)
    PROVE  SortedBy(p, unlink_waiter(t, s))
<1> DEFINE ns == unlink_waiter(t, s)  q == PositionOf(t, s)
<1>1. q \in 1..Len(s) /\ Len(s) \in Nat
  BY DEF PositionOf, Linked
<1>2. ns = [i \in 1..(Len(s) - 1) |-> IF i < q THEN s[i] ELSE s[i + 1]]
  BY DEF unlink_waiter
<1> HIDE DEF q
<1>3. Len(ns) = Len(s) - 1
  BY <1>1, <1>2
<1>4. \A i \in 1..Len(ns) : ns[i] = IF i < q THEN s[i] ELSE s[i + 1]
  BY <1>2, <1>3
<1> HIDE DEF ns
<1>5. ASSUME NEW i \in 1..Len(ns), NEW j \in 1..Len(ns), i < j PROVE Before(p, ns[i], ns[j])
  <2>1. PICK a \in 1..Len(s), b \in 1..Len(s) : a < b /\ ns[i] = s[a] /\ ns[j] = s[b]
    BY <1>1, <1>3, <1>4, <1>5
  <2> QED BY <2>1 DEF SortedBy
<1> QED BY <1>5 DEF SortedBy, ns

LEMMA TailSorted ==
    ASSUME NEW s \in Seq(Thread), s # <<>>, NEW p, SortedBy(p, s)
    PROVE  SortedBy(p, Tail(s))
<1>1. /\ Len(s) \in Nat /\ Len(Tail(s)) = Len(s) - 1
      /\ \A i \in 1..Len(Tail(s)) : Tail(s)[i] = s[i + 1]
  OBVIOUS
<1>2. \A i, j \in 1..Len(Tail(s)) : i < j =>
         i + 1 \in 1..Len(s) /\ j + 1 \in 1..Len(s) /\ i + 1 < j + 1
  BY <1>1
<1> QED BY <1>1, <1>2 DEF SortedBy

\* The order of arrival: nobody queued shares a number, whoever links is the last,
\* and of two waiters the earlier is the older.  A thread outside the queue has no age.
ArrivalOrder ==
    /\ \A t, u \in Queued : t # u => seq[t] # seq[u]
    /\ \A t, u \in Thread : pc[t] = "linking" /\ u \in Queued => seq[u] < seq[t]
    /\ \A t, u \in Queued : seq[t] < seq[u] => age[u] <= age[t]
    /\ \A t \in Thread : pc[t] \notin {"queued", "granted"} => age[t] = 0

\* The rank of a waiter is its tier, or what its age has earned it
Ranked(t) ==
    \/ prio[t] = req[t].tier
    \/ BgAgeS > 0 /\ Background(t) /\ prio[t] = TIER_FREE /\ age[t] >= BgAgeS
    \/ BgAgeS > 0 /\ Background(t) /\ prio[t] = TIER_PAID /\ age[t] >= 2 * BgAgeS
RankEarned == \A t \in Thread : pc[t] \in {"linking", "queued"} => Ranked(t)

\* promote_locked serves nobody while age_locked has a waiter left to re-rank
PromotesAged == \A t \in Thread : pc[t] = "promoting" => Overdue = {}

OrderInv == IInv /\ ArrivalOrder /\ RankEarned /\ PromotesAged /\ SortedBy(prio, waiters)

\* NextSeq renumbers the queued threads in their order and puts t behind them.
LEMMA NextSeqOrder ==
    ASSUME TypeOK, ArrivalOrder, NEW t \in Thread, t \notin Queued, NEW ns, ns = NextSeq(t)
    PROVE  /\ \A u, v \in Queued : seq[u] < seq[v] <=> ns[u] < ns[v]
           /\ \A u \in Queued : ns[u] < ns[t]
           /\ \A u \in Thread : ns[u] \in Nat
<1> DEFINE Upto(u) == {v \in Queued : seq[v] <= seq[u]}
<1>1. IsFiniteSet(Queued) /\ Queued \in SUBSET Thread
  BY ThreadAssumption, FS_Subset DEF Queued
<1>2. \A u \in Queued : /\ Upto(u) \in SUBSET Queued
                        /\ ns[u] = Cardinality(Upto(u)) /\ ns[t] = Cardinality(Queued) + 1
  BY <1>1 DEF NextSeq
<1>3. \A u \in Queued : IsFiniteSet(Upto(u)) /\ ns[u] \in Nat /\ ns[u] <= Cardinality(Queued)
  BY <1>1, <1>2, FS_Subset, FS_CardinalityType
<1>4. Cardinality(Queued) \in Nat /\ \A u \in Thread : ns[u] \in Nat
  BY <1>1, NextSeqType, FS_CardinalityType
<1>5. ASSUME NEW u \in Queued, NEW v \in Queued, seq[u] < seq[v] PROVE ns[u] < ns[v]
  <2>1. seq \in [Thread -> Nat]
    BY DEF TypeOK
  <2>2. Upto(u) \in SUBSET Upto(v) /\ v \in Upto(v) /\ v \notin Upto(u)
    BY <1>1, <1>5, <2>1
  <2> HIDE DEF Upto
  <2>3. Upto(u) # Upto(v)
    BY <2>2
  <2> QED BY <1>2, <1>3, <2>2, <2>3, FS_Subset
<1>6. ASSUME NEW u \in Queued, NEW v \in Queued, ~(seq[u] < seq[v]) PROVE ~(ns[u] < ns[v])
  <2>1. u = v \/ seq[v] < seq[u]
    BY <1>1, <1>6 DEF TypeOK, ArrivalOrder
  <2>2. ns[u] \in Nat /\ ns[v] \in Nat /\ (u = v \/ ns[v] < ns[u])
    BY <1>3, <1>5, <2>1
  <2> QED BY <2>2
<1>7. \A u \in Queued : ns[u] < ns[t]
  <2> HIDE DEF Upto
  <2> TAKE u \in Queued
  <2>1. ns[u] \in Nat /\ ns[u] <= Cardinality(Queued) /\ ns[t] = Cardinality(Queued) + 1
    BY <1>2, <1>3
  <2> QED BY <1>4, <2>1
<1> QED BY <1>4, <1>5, <1>6, <1>7

\* The list holds queued threads only, so the linking thread is not in it.
LEMMA ListedAreQueued ==
    ASSUME IInv
    PROVE  \A i \in 1..Len(waiters) : waiters[i] \in Queued
BY DEF IInv, TypeOK, QueueConsistent, Linked, Queued

LEMMA ArrivalNext == OrderInv /\ [Next]_vars => ArrivalOrder'
<1> SUFFICES ASSUME OrderInv, [Next]_vars PROVE ArrivalOrder'
  OBVIOUS
<1> USE DEF OrderInv, IInv, TypeOK, ArrivalOrder, Queued, Goto, fields
<1>0. CASE Tick
  <2>1. /\ pc' = pc /\ seq' = seq
        /\ age' = [t \in Thread |-> IF t \in Queued /\ age[t] < AgeCap THEN age[t] + 1 ELSE age[t]]
    BY <1>0 DEF Tick
  <2>2. AgeCap \in Nat
    BY TimesAssumption DEF AgeCap
  <2> QED BY <2>1, <2>2
<1>1. ASSUME NEW t \in Thread, NEW r \in Request, AcquireNow(t, r) PROVE ArrivalOrder'
  BY <1>1 DEF AcquireNow
<1>2. ASSUME NEW t \in Thread, NEW r \in Request, AcquireQueue(t, r) PROVE ArrivalOrder'
  <2>1. /\ t \notin Queued /\ Queued' = Queued /\ pc[t] = "idle" /\ lock = NoThread
        /\ pc' = [pc EXCEPT ![t] = "linking"] /\ seq' = NextSeq(t) /\ age' = age
    BY <1>2 DEF AcquireQueue
  <2>2. \A u \in Thread : pc[u] # "linking"
    BY <2>1, ThreadAssumption DEF LockOwned, InLoop
  <2>3. /\ \A u, v \in Queued : seq[u] < seq[v] <=> seq'[u] < seq'[v]
        /\ \A u \in Queued : seq'[u] < seq'[t]
        /\ \A u \in Thread : seq'[u] \in Nat
    BY <2>1, NextSeqOrder
  <2>4. \A u, v \in Queued : u # v => seq'[u] # seq'[v]
    BY <2>3
  <2> QED BY <2>1, <2>2, <2>3, <2>4
<1>3. ASSUME NEW t \in Thread, NEW w \in Thread, AgeOne(t, w) PROVE ArrivalOrder'
  BY <1>3 DEF AgeOne
<1>4. ASSUME NEW t \in Thread, Link(t) PROVE ArrivalOrder'
  <2>1. \A u \in Thread : pc[u] = "linking" <=> u = t
    BY <1>4 DEF Link, LockOwned, InLoop
  <2>2. \A u \in Thread : pc'[u] = IF u = t THEN "queued" ELSE pc[u]
    BY <1>4 DEF Link
  <2>3. age[t] = 0 /\ UNCHANGED <<seq, age>>
    BY <1>4 DEF Link
  <2>4. \A u \in Thread : age[u] \in Nat /\ seq[u] \in Nat
    BY TimesAssumption DEF AgeCap
  <2>5. \A u \in Queued : u # t /\ seq[u] < seq[t]
    BY <1>4 DEF Link
  <2>6. \A u \in Queued : ~(seq[t] < seq[u]) /\ seq[u] # seq[t] /\ age[t] <= age[u]
    BY <2>3, <2>4, <2>5
  <2>7. Queued' = Queued \cup {t}
    BY <2>2
  <2>8. \A u, v \in Queued' : u # v => seq'[u] # seq'[v]
    BY <2>3, <2>6, <2>7
  <2>9. \A u, v \in Queued' : seq'[u] < seq'[v] => age'[v] <= age'[u]
    <3>1. \A u, v \in Queued : seq[u] < seq[v] => age[v] <= age[u]
      OBVIOUS
    <3>2. ~(seq[t] < seq[t])
      BY <2>4
    <3> HIDE DEF Queued, ArrivalOrder, OrderInv
    <3> QED BY <2>3, <2>6, <2>7, <3>1, <3>2
  <2> QED BY <2>1, <2>2, <2>3, <2>8, <2>9
<1>5. ASSUME NEW t \in Thread, AgeDone(t) PROVE ArrivalOrder'
  BY <1>5 DEF AgeDone
<1>6. ASSUME NEW t \in Thread, PromoteHead(t) PROVE ArrivalOrder'
  <2>1. Head(waiters) \in Queued
    BY <1>6, HeadQueued DEF PromoteHead, HeadFits
  <2>2. \A u \in Thread : pc'[u] = IF u = Head(waiters) THEN "granted" ELSE pc[u]
    BY <1>6, <2>1 DEF PromoteHead
  <2>3. UNCHANGED <<seq, age>>
    BY <1>6 DEF PromoteHead
  <2> QED BY <2>1, <2>2, <2>3
<1>7. ASSUME NEW t \in Thread, PromoteDone(t) PROVE ArrivalOrder'
  BY <1>7 DEF PromoteDone
<1>8. ASSUME NEW t \in Thread, Wake(t) PROVE ArrivalOrder'
  BY <1>8 DEF Wake, DropWaiter
<1>9. ASSUME NEW t \in Thread, TimeOut(t) PROVE ArrivalOrder'
  BY <1>9 DEF TimeOut, DropWaiter
<1>10. ASSUME NEW t \in Thread, Release(t) PROVE ArrivalOrder'
  BY <1>10 DEF Release
<1>11. CASE UNCHANGED vars
  BY <1>11 DEF vars
<1> QED BY <1>0, <1>1, <1>2, <1>3, <1>4, <1>5, <1>6, <1>7, <1>8, <1>9, <1>10, <1>11
        DEF Next, LoopStep

LEMMA RankNext == OrderInv /\ [Next]_vars => RankEarned' /\ PromotesAged'
<1> SUFFICES ASSUME OrderInv, [Next]_vars PROVE RankEarned' /\ PromotesAged'
  OBVIOUS
<1> USE DEF OrderInv, IInv, TypeOK, RankEarned, Ranked, PromotesAged, Goto, fields, Background
<1>t. BgAgeS \in Nat /\ AgeCap \in Nat
  BY TimesAssumption DEF AgeCap
<1>l. lock = NoThread => \A u \in Thread : pc[u] \notin {"linking", "promoting", "aging"}
  BY ThreadAssumption DEF LockOwned, InLoop
<1>0. CASE Tick
  BY <1>0, <1>t, <1>l DEF Tick
<1>1. ASSUME NEW t \in Thread, NEW r \in Request, AcquireNow(t, r)
      PROVE  RankEarned' /\ PromotesAged'
  BY <1>1, <1>l DEF AcquireNow
<1>2. ASSUME NEW t \in Thread, NEW r \in Request, AcquireQueue(t, r)
      PROVE  RankEarned' /\ PromotesAged'
  <2>1. req'[t] = r /\ prio'[t] = r.tier
    BY <1>2 DEF AcquireQueue
  <2> QED BY <1>2, <1>l, <2>1 DEF AcquireQueue
<1>3. ASSUME NEW t \in Thread, NEW w \in Thread, AgeOne(t, w) PROVE RankEarned' /\ PromotesAged'
  <2>1. \A u \in Thread : pc[u] # "promoting"
    BY <1>3 DEF AgeOne, LockOwned, InLoop
  <2>2. BgAgeS > 0 /\ Background(w) /\ AgedRank(w) < prio[w]
    BY <1>3 DEF AgeOne, Overdue
  <2>3. AgedRank(w) # prio[w]
    <3>1. AgedRank(w) \in Tier /\ prio[w] \in Tier
      BY AgedRankType
    <3> QED BY <2>2, <3>1 DEF Tier, TIER_PAID, TIER_BACKGROUND
  <2>4. /\ \A u \in Thread : prio'[u] = IF u = w THEN AgedRank(w) ELSE prio[u]
        /\ UNCHANGED <<pc, req, age>>
    BY <1>3 DEF AgeOne
  <2>5. \/ AgedRank(w) = TIER_FREE /\ age[w] >= BgAgeS
        \/ AgedRank(w) = TIER_PAID /\ age[w] >= 2 * BgAgeS
    BY <1>t, <2>3 DEF AgedRank
  <2> QED BY <2>1, <2>2, <2>4, <2>5
<1>4. ASSUME NEW t \in Thread, Link(t) PROVE RankEarned' /\ PromotesAged'
  <2>1. \A u \in Thread : pc'[u] # "promoting"
    BY <1>4 DEF Link, LockOwned, InLoop
  <2> QED BY <1>4, <2>1 DEF Link
<1>5. ASSUME NEW t \in Thread, AgeDone(t) PROVE RankEarned' /\ PromotesAged'
  BY <1>5 DEF AgeDone, Overdue, Queued, AgedRank
<1>6. ASSUME NEW t \in Thread, PromoteHead(t) PROVE RankEarned' /\ PromotesAged'
  <2>1. Head(waiters) \in Queued
    BY <1>6, HeadQueued DEF PromoteHead, HeadFits, Queued
  <2> QED BY <1>6, <2>1 DEF PromoteHead, Overdue, Queued, AgedRank
<1>7. ASSUME NEW t \in Thread, PromoteDone(t) PROVE RankEarned' /\ PromotesAged'
  <2>1. \A u \in Thread : pc'[u] # "promoting"
    BY <1>7 DEF PromoteDone, LockOwned, InLoop
  <2> QED BY <1>7, <2>1 DEF PromoteDone
<1>8. ASSUME NEW t \in Thread, Wake(t) PROVE RankEarned' /\ PromotesAged'
  BY <1>8, <1>l DEF Wake, DropWaiter
<1>9. ASSUME NEW t \in Thread, TimeOut(t) PROVE RankEarned' /\ PromotesAged'
  BY <1>9, <1>l DEF TimeOut, DropWaiter
<1>10. ASSUME NEW t \in Thread, Release(t) PROVE RankEarned' /\ PromotesAged'
  BY <1>10, <1>l DEF Release
<1>11. CASE UNCHANGED vars
  BY <1>11 DEF vars, Overdue, Queued, AgedRank
<1> QED BY <1>0, <1>1, <1>2, <1>3, <1>4, <1>5, <1>6, <1>7, <1>8, <1>9, <1>10, <1>11
        DEF Next, LoopStep

\* Whatever re-ranks or re-numbers only threads outside the list leaves it sorted.
LEMMA SortedSame ==
    ASSUME NEW s, NEW p, NEW q, NEW n, SortedBy(p, s),
           \A i \in 1..Len(s) : q[s[i]] = p[s[i]],
           \A i, j \in 1..Len(s) : seq[s[i]] < seq[s[j]] => n[s[i]] < n[s[j]]
    PROVE  \A i, j \in 1..Len(s) : i < j =>
              \/ q[s[i]] < q[s[j]]
              \/ q[s[i]] = q[s[j]] /\ n[s[i]] < n[s[j]]
BY DEF SortedBy, Before

LEMMA SortedNext == OrderInv /\ [Next]_vars => QueueSorted'
<1> SUFFICES ASSUME OrderInv, [Next]_vars PROVE QueueSorted'
  OBVIOUS
<1>t. /\ IInv /\ TypeOK /\ SortedBy(prio, waiters) /\ waiters \in Seq(Thread)
      /\ \A i \in 1..Len(waiters) : waiters[i] \in Queued /\ waiters[i] \in Thread
  BY ListedAreQueued DEF OrderInv, IInv, TypeOK
<1>s. ASSUME UNCHANGED <<waiters, prio, seq>> PROVE QueueSorted'
  BY <1>t, <1>s DEF QueueSorted, SortedBy, Before, Precedes
<1>0. CASE Tick
  BY <1>0, <1>s DEF Tick
<1>1. ASSUME NEW t \in Thread, NEW r \in Request, AcquireNow(t, r) PROVE QueueSorted'
  BY <1>1, <1>s DEF AcquireNow
<1>2. ASSUME NEW t \in Thread, NEW r \in Request, AcquireQueue(t, r) PROVE QueueSorted'
  <2>1. /\ t \notin Queued /\ waiters' = waiters /\ seq' = NextSeq(t)
        /\ \A u \in Thread : u # t => prio'[u] = prio[u]
    BY <1>2, <1>t DEF AcquireQueue, Queued, TypeOK
  <2>2. \A u, v \in Queued : seq[u] < seq[v] => seq'[u] < seq'[v]
    BY <1>t, <2>1, NextSeqOrder DEF OrderInv
  <2>3. \A i \in 1..Len(waiters) : prio'[waiters[i]] = prio[waiters[i]]
    BY <1>t, <2>1
  <2>4. \A i, j \in 1..Len(waiters) : seq[waiters[i]] < seq[waiters[j]]
                                      => seq'[waiters[i]] < seq'[waiters[j]]
    BY <1>t, <2>2
  <2> QED BY <1>t, <2>1, <2>3, <2>4, SortedSame DEF QueueSorted, Precedes
<1>3. ASSUME NEW t \in Thread, NEW w \in Thread, AgeOne(t, w) PROVE QueueSorted'
  <2> DEFINE s == unlink_waiter(w, waiters)
  <2>1. /\ w \in Queued /\ Linked(w, waiters) /\ AgedRank(w) \in Tier /\ seq' = seq
        /\ prio' = [prio EXCEPT ![w] = AgedRank(w)]
        /\ waiters' = insert_waiter(w, AgedRank(w), s)
    BY <1>3, <1>t, AgedRankType DEF AgeOne, Overdue, IInv, QueueConsistent, Queued
  <2>2. /\ s \in Seq(Thread) /\ SortedBy(prio, s)
        /\ \A u \in Thread : Linked(u, s) <=> u # w /\ Linked(u, waiters)
    BY <1>t, <2>1, UnlinkSorted, UnlinkList DEF IInv, QueueConsistent
  <2>3. \A i \in 1..Len(s) : s[i] # w /\ seq[s[i]] # seq[w]
    <3>1. \A i \in 1..Len(s) : s[i] \in Thread /\ Linked(s[i], s)
      BY <2>2 DEF Linked
    <3>2. \A i \in 1..Len(s) : s[i] # w /\ s[i] \in Queued
      BY <1>t, <2>2, <3>1 DEF IInv, QueueConsistent, Queued
    <3> QED BY <2>1, <3>2 DEF OrderInv, ArrivalOrder
  <2> HIDE DEF s
  <2>4. SortedBy(prio', waiters')
    BY <1>t, <2>1, <2>2, <2>3, InsertSorted
  <2> QED BY <2>1, <2>4 DEF QueueSorted, SortedBy, Before, Precedes
<1>4. ASSUME NEW t \in Thread, Link(t) PROVE QueueSorted'
  <2>1. /\ t \notin Queued /\ prio' = prio /\ seq' = seq /\ prio[t] \in Tier
        /\ waiters' = insert_waiter(t, prio[t], waiters) /\ pc[t] = "linking"
    BY <1>4, <1>t DEF Link, Queued, TypeOK, fields
  <2>2. \A i \in 1..Len(waiters) : seq[waiters[i]] < seq[t]
    BY <1>t, <2>1 DEF OrderInv, ArrivalOrder
  <2>3. \A i \in 1..Len(waiters) : waiters[i] # t /\ seq[waiters[i]] # seq[t]
    BY <1>t, <2>1, <2>2 DEF TypeOK
  <2>4. SortedBy([prio EXCEPT ![t] = prio[t]], waiters')
    BY <1>t, <2>1, <2>3, InsertSorted
  <2>5. [prio EXCEPT ![t] = prio[t]] = prio
    BY <1>t DEF TypeOK
  <2> QED BY <2>1, <2>4, <2>5 DEF QueueSorted, SortedBy, Before, Precedes
<1>5. ASSUME NEW t \in Thread, AgeDone(t) PROVE QueueSorted'
  BY <1>5, <1>s DEF AgeDone, fields
<1>6. ASSUME NEW t \in Thread, PromoteHead(t) PROVE QueueSorted'
  <2>1. waiters # <<>> /\ waiters' = Tail(waiters) /\ UNCHANGED <<prio, seq>>
    BY <1>6 DEF PromoteHead, HeadFits, fields
  <2>2. SortedBy(prio, waiters')
    BY <1>t, <2>1, TailSorted
  <2> QED BY <2>1, <2>2 DEF QueueSorted, SortedBy, Before, Precedes
<1>7. ASSUME NEW t \in Thread, PromoteDone(t) PROVE QueueSorted'
  BY <1>7, <1>s DEF PromoteDone, fields
<1>d. ASSUME NEW t \in Thread, DropWaiter(t), waiters' \in Seq(Thread),
             SortedBy(prio, waiters'), ~Linked(t, waiters')
      PROVE  QueueSorted'
  <2>1. \A i \in 1..Len(waiters') : waiters'[i] \in Thread /\ waiters'[i] # t
    BY <1>d DEF Linked
  <2>2. \A u \in Thread : u # t => prio'[u] = prio[u] /\ seq'[u] = seq[u]
    BY <1>d, <1>t DEF DropWaiter, TypeOK
  <2> QED BY <1>d, <2>1, <2>2 DEF QueueSorted, Precedes, SortedBy, Before
<1>8. ASSUME NEW t \in Thread, Wake(t) PROVE QueueSorted'
  <2>1. DropWaiter(t) /\ waiters' = waiters /\ ~Linked(t, waiters)
    BY <1>8, <1>t DEF Wake, IInv, QueueConsistent
  <2> QED BY <1>d, <1>t, <2>1
<1>9. ASSUME NEW t \in Thread, TimeOut(t) PROVE QueueSorted'
  <2>1. DropWaiter(t) /\ waiters' = unlink_waiter(t, waiters) /\ Linked(t, waiters)
    BY <1>9, <1>t DEF TimeOut, IInv, QueueConsistent
  <2>2. waiters' \in Seq(Thread) /\ SortedBy(prio, waiters') /\ ~Linked(t, waiters')
    BY <1>t, <2>1, UnlinkSorted, UnlinkList DEF IInv, QueueConsistent
  <2> QED BY <1>d, <2>1, <2>2
<1>10. ASSUME NEW t \in Thread, Release(t) PROVE QueueSorted'
  BY <1>10, <1>s DEF Release
<1>11. CASE UNCHANGED vars
  BY <1>11, <1>s DEF vars
<1> QED BY <1>0, <1>1, <1>2, <1>3, <1>4, <1>5, <1>6, <1>7, <1>8, <1>9, <1>10, <1>11
        DEF Next, LoopStep

LEMMA OrderInductive == Spec => []OrderInv
<1>1. Init => OrderInv
  <2>1. Init => ArrivalOrder /\ RankEarned /\ PromotesAged
    BY DEF Init, ArrivalOrder, RankEarned, PromotesAged, Queued
  <2>2. Init => SortedBy(prio, waiters)
    BY DEF Init, SortedBy
  <2> QED BY <2>1, <2>2, IInvInit DEF OrderInv
<1>2. OrderInv /\ [Next]_vars => OrderInv'
  <2>1. OrderInv /\ [Next]_vars => IInv'
    BY TypeNext, QueueNext, LockNext, PermitsNext, StrandedNext DEF OrderInv, IInv
  <2>2. QueueSorted' => SortedBy(prio, waiters)'
    BY DEF QueueSorted, SortedBy, Before, Precedes
  <2> QED BY <2>1, <2>2, ArrivalNext, RankNext, SortedNext DEF OrderInv
<1> QED BY <1>1, <1>2, PTL DEF Spec

\* Who can be granted: a thread outside the queue when the list is empty, or the head
\* of the list once nobody is overdue.
LEMMA GrantForm ==
    ASSUME OrderInv, [Next]_vars, NEW u \in Thread, GrantedNow(u)
    PROVE  \/ waiters = <<>> /\ u \notin Queued
           \/ waiters # <<>> /\ u = Head(waiters) /\ u \in Queued /\ Overdue = {}
<1> USE DEF GrantedNow, Holders, Queued, OrderInv, IInv, TypeOK, Goto
<1>0. CASE Tick
  BY <1>0 DEF Tick
<1>1. ASSUME NEW t \in Thread, NEW r \in Request, AcquireNow(t, r)
      PROVE  waiters = <<>> /\ u \notin Queued
  BY <1>1 DEF AcquireNow
<1>2. ASSUME NEW t \in Thread, NEW r \in Request, AcquireQueue(t, r) PROVE FALSE
  BY <1>2 DEF AcquireQueue
<1>3. ASSUME NEW t \in Thread, NEW w \in Thread, AgeOne(t, w) PROVE FALSE
  BY <1>3 DEF AgeOne
<1>4. ASSUME NEW t \in Thread, Link(t) PROVE FALSE
  BY <1>4 DEF Link
<1>5. ASSUME NEW t \in Thread, AgeDone(t) PROVE FALSE
  BY <1>5 DEF AgeDone
<1>6. ASSUME NEW t \in Thread, PromoteHead(t)
      PROVE  waiters # <<>> /\ u = Head(waiters) /\ u \in Queued /\ Overdue = {}
  <2>1. Head(waiters) \in Thread /\ pc[Head(waiters)] = "queued" /\ waiters # <<>>
    BY <1>6, HeadQueued DEF PromoteHead, HeadFits
  <2>2. u = Head(waiters)
    BY <1>6, <2>1 DEF PromoteHead
  <2> QED BY <1>6, <2>1, <2>2 DEF PromoteHead, PromotesAged
<1>7. ASSUME NEW t \in Thread, PromoteDone(t) PROVE FALSE
  BY <1>7 DEF PromoteDone
<1>8. ASSUME NEW t \in Thread, Wake(t) PROVE FALSE
  BY <1>8 DEF Wake
<1>9. ASSUME NEW t \in Thread, TimeOut(t) PROVE FALSE
  BY <1>9 DEF TimeOut
<1>10. ASSUME NEW t \in Thread, Release(t) PROVE FALSE
  BY <1>10 DEF Release
<1>11. CASE UNCHANGED vars
  BY <1>11 DEF vars
<1> QED BY <1>0, <1>1, <1>2, <1>3, <1>4, <1>5, <1>6, <1>7, <1>8, <1>9, <1>10, <1>11
        DEF Next, LoopStep

\* The head of the list comes before every other waiter.
LEMMA HeadFirst ==
    ASSUME OrderInv, waiters # <<>>, NEW t \in Queued, t # Head(waiters)
    PROVE  /\ Before(prio, Head(waiters), t)
           /\ prio[t] \in Tier /\ prio[Head(waiters)] \in Tier
           /\ seq[t] \in Nat /\ seq[Head(waiters)] \in Nat
<1>1. /\ waiters \in Seq(Thread) /\ Head(waiters) = waiters[1]
      /\ Len(waiters) \in Nat /\ 1 \in 1..Len(waiters)
  BY DEF OrderInv, IInv, TypeOK
<1>2. PICK i \in 1..Len(waiters) : waiters[i] = t
  BY DEF OrderInv, IInv, QueueConsistent, Linked, Queued
<1>3. 1 < i
  BY <1>1, <1>2
<1>4. t \in Thread /\ Head(waiters) \in Thread
  BY <1>1, <1>2
<1> QED BY <1>1, <1>2, <1>3, <1>4 DEF OrderInv, SortedBy, IInv, TypeOK

LEMMA TierOrderStep == OrderInv /\ [Next]_vars => SameTierInOrder
<1> SUFFICES ASSUME OrderInv, [Next]_vars, NEW t \in Queued, NEW u \in Queued,
                    GrantedNow(u), req[t].tier = req[u].tier
             PROVE  seq[u] <= seq[t]
  BY DEF SameTierInOrder
<1>1. /\ t \in Thread /\ u \in Thread /\ pc[t] = "queued" /\ pc[u] = "queued"
      /\ seq[t] \in Nat /\ seq[u] \in Nat
  BY DEF Queued, OrderInv, IInv, TypeOK
<1>2. waiters # <<>> /\ u = Head(waiters) /\ Overdue = {}
  BY <1>1, GrantForm
<1>3. CASE t = u
  BY <1>1, <1>3
<1>4. CASE t # u
  <2>1. Before(prio, u, t) /\ prio[t] \in Tier /\ prio[u] \in Tier
    BY <1>2, <1>4, HeadFirst
  <2>2. CASE prio[t] = prio[u]
    BY <1>1, <2>1, <2>2 DEF Before, Tier, TIER_PAID, TIER_BACKGROUND
  <2>3. CASE prio[u] < prio[t] /\ seq[t] < seq[u]
    <3>1. age[u] <= age[t] /\ age[u] \in Nat /\ age[t] \in Nat /\ BgAgeS \in Nat
      <4>1. age[u] <= age[t]
        BY <2>3 DEF OrderInv, ArrivalOrder
      <4>2. age \in [Thread -> Nat] /\ BgAgeS \in Nat
        BY TimesAssumption DEF OrderInv, IInv, TypeOK, AgeCap
      <4> QED BY <1>1, <4>1, <4>2
    <3>2. req[t].tier \in Tier
      <4>1. req[t] \in Request \/ req[t] = NoRequest
        BY <1>1 DEF OrderInv, IInv, TypeOK
      <4> QED BY <4>1, RequestAssumption
              DEF NoRequest, Tier, TIER_PAID, TIER_BACKGROUND, TIER_FREE
    <3>3. /\ Ranked(t) /\ Ranked(u)
          /\ req[t].tier \in 0..3 /\ req[u].tier = req[t].tier
          /\ prio[t] \in 0..3 /\ prio[u] \in 0..3
      BY <1>1, <2>1, <3>2 DEF OrderInv, RankEarned, Ranked, Tier, TIER_PAID, TIER_BACKGROUND
    <3>4. /\ BgAgeS > 0 /\ Background(u) /\ Background(t)
          /\ \/ prio[u] = TIER_FREE /\ age[u] >= BgAgeS
             \/ prio[u] = TIER_PAID /\ age[u] >= 2 * BgAgeS
      BY <2>3, <3>3 DEF Ranked, Background, TIER_PAID, TIER_BACKGROUND, TIER_FREE
    <3>5. AgedRank(t) < prio[t]
      BY <2>1, <2>3, <3>1, <3>4
         DEF AgedRank, Tier, TIER_PAID, TIER_BACKGROUND, TIER_FREE
    <3> QED BY <1>2, <3>4, <3>5 DEF Overdue
  <2> QED BY <1>1, <2>1, <2>2, <2>3 DEF Before, Tier, TIER_PAID, TIER_BACKGROUND
<1> QED BY <1>3, <1>4

\* The waiter list of osched.c stays in service order through every insertion, removal
\* and re-ranking, and of two waiters of one tier the earlier is served first: age_locked
\* re-ranks the older of two background waiters no later than the younger, and it runs to
\* its end before promote_locked looks at the head.
THEOREM ServedInOrder == Spec => ServiceOrder
<1>1. OrderInv /\ [Next]_vars => [QueueSorted' /\ SameTierInOrder]_vars
  BY SortedNext, TierOrderStep
<1> QED BY <1>1, OrderInductive, PTL DEF Spec, ServiceOrder

LEMMA AgedStep ==
    ASSUME OrderInv, [Next]_vars, NEW t \in Queued, NEW u \in Thread,
           BgAgeS > 0, Background(t), age[t] >= 2 * BgAgeS, GrantedNow(u)
    PROVE  u \in Queued /\ seq[u] <= seq[t]
<1>1. t \in Thread /\ Linked(t, waiters) /\ waiters \in Seq(Thread)
  BY DEF Queued, OrderInv, IInv, QueueConsistent, TypeOK
<1>2. waiters # <<>> /\ u = Head(waiters) /\ u \in Queued /\ Overdue = {}
  <2>1. waiters # <<>>
    BY <1>1 DEF Linked
  <2> QED BY <2>1, GrantForm
<1>3. prio[t] = TIER_PAID
  <2>1. prio[t] \in Tier /\ ~(AgedRank(t) < prio[t])
    BY <1>1, <1>2 DEF Overdue, OrderInv, IInv, TypeOK
  <2> QED BY <2>1 DEF AgedRank, Tier, TIER_PAID, TIER_BACKGROUND
<1>4. CASE t = u
  BY <1>1, <1>2, <1>4 DEF OrderInv, IInv, TypeOK
<1>5. CASE t # u
  <2>1. Before(prio, u, t) /\ prio[u] \in Tier /\ seq[t] \in Nat /\ seq[u] \in Nat
    BY <1>2, <1>5, HeadFirst
  <2> QED BY <1>2, <1>3, <2>1 DEF Before, Tier, TIER_PAID, TIER_BACKGROUND
<1> QED BY <1>4, <1>5

\* The starvation bound: once a background waiter has waited 2 * max_wait_s, nobody that
\* arrived later is admitted before it, for every load and every choice of the times.
THEOREM AgedAreServedFirst == Spec => AgedNotOvertaken
<1>1. OrderInv /\ [Next]_vars
      => [\A t \in Queued, u \in Thread :
            BgAgeS > 0 /\ Background(t) /\ age[t] >= 2 * BgAgeS /\ GrantedNow(u)
            => u \in Queued /\ seq[u] <= seq[t]]_vars
  BY AgedStep
<1> QED BY <1>1, OrderInductive, PTL DEF Spec, AgedNotOvertaken

-----------------------------------------------------------------------------
(* OSched implements Admission.                                            *)

\* Whoever is inside acquire or holds permits has a request that acquire
\* accepted, so its permit count is at least one.
Asked == \A t \in Thread :
           pc[t] \in {"linking", "queued", "granted", "held"} => req[t] \in Request

LEMMA AskedAlways == Spec => []Asked
<1>1. Init => Asked
  BY DEF Init, Asked
<1>2. IInv /\ Asked /\ [Next]_vars => Asked'
  <2> SUFFICES ASSUME IInv, Asked, [Next]_vars PROVE Asked'
    OBVIOUS
  <2> USE DEF IInv, TypeOK, Asked, Goto, fields
  <2>0. CASE Tick
    BY <2>0 DEF Tick
  <2>1. ASSUME NEW t \in Thread, NEW r \in Request, AcquireNow(t, r) PROVE Asked'
    BY <2>1 DEF AcquireNow
  <2>2. ASSUME NEW t \in Thread, NEW r \in Request, AcquireQueue(t, r) PROVE Asked'
    BY <2>2 DEF AcquireQueue
  <2>3. ASSUME NEW t \in Thread, NEW w \in Thread, AgeOne(t, w) PROVE Asked'
    BY <2>3 DEF AgeOne
  <2>4. ASSUME NEW t \in Thread, Link(t) PROVE Asked'
    BY <2>4 DEF Link
  <2>5. ASSUME NEW t \in Thread, AgeDone(t) PROVE Asked'
    BY <2>5 DEF AgeDone
  <2>6. ASSUME NEW t \in Thread, PromoteHead(t) PROVE Asked'
    BY <2>6, HeadQueued DEF PromoteHead, HeadFits
  <2>7. ASSUME NEW t \in Thread, PromoteDone(t) PROVE Asked'
    BY <2>7 DEF PromoteDone
  <2>8. ASSUME NEW t \in Thread, Wake(t) PROVE Asked'
    BY <2>8 DEF Wake
  <2>9. ASSUME NEW t \in Thread, TimeOut(t) PROVE Asked'
    BY <2>9 DEF TimeOut
  <2>10. ASSUME NEW t \in Thread, Release(t) PROVE Asked'
    BY <2>10 DEF Release
  <2>11. CASE UNCHANGED vars
    BY <2>11 DEF vars
  <2> QED BY <2>0, <2>1, <2>2, <2>3, <2>4, <2>5, <2>6, <2>7, <2>8, <2>9, <2>10, <2>11
          DEF Next, LoopStep
<1> QED BY <1>1, <1>2, Inductive, PTL DEF Spec

\* The permits that are out are the ones the holders hold.
LEMMA OutIsHeld == A!Out = HeldUnits
<1>1. ASSUME NEW u \in Thread \X (1..Slots)
      PROVE  u[2] <= permits_held[u[1]] <=> u[1] \in Holders /\ u[2] <= req[u[1]].permits
  <2>1. u[1] \in Thread /\ u[2] \in 1..Slots
    OBVIOUS
  <2>2. permits_held[u[1]] = IF u[1] \in Holders THEN req[u[1]].permits ELSE 0
    BY <2>1 DEF permits_held
  <2>3. ~(u[2] <= 0)
    BY <2>1, SlotsAssumption
  <2> QED BY <2>2, <2>3
<1> QED BY <1>1 DEF A!Out, HeldUnits

\* fits_locked answers what the abstract device answers.
LEMMA FitsIsFits ==
    ASSUME IInv, Asked, NEW r \in Request
    PROVE  fits_locked(r) <=> A!Fits(r.permits, Exclusive(r))
<1>1. active = Cardinality(Holders) /\ used_slots = Cardinality(A!Out)
  BY OutIsHeld DEF IInv, PermitsAccounted
<1>2. CASE ~Exclusive(r)
  <2>1. fits_locked(r) <=> used_slots + r.permits <= Slots
    BY <1>2 DEF fits_locked
  <2>2. A!Fits(r.permits, Exclusive(r)) <=> Cardinality(A!Out) + r.permits <= Slots
    BY <1>2, Zenon DEF A!Fits, A!Cardinality, Cardinality
  <2> QED BY <1>1, <2>1, <2>2
<1>3. CASE Exclusive(r)
  <2>1. active = 0 <=> Holders = {}
    BY <1>1, HoldersFinite, FS_EmptySet
  <2>2. Holders = {} => HeldUnits = {}
    BY DEF HeldUnits
  <2>3. Holders = {} => used_slots = 0
    BY <1>1, <2>2, OutIsHeld, FS_EmptySet
  <2>4. ASSUME NEW t \in Holders PROVE permits_held[t] # 0
    <3>1. t \in Thread /\ req[t] \in Request
      BY <2>4 DEF Holders, Asked
    <3>2. req[t].permits # 0
      BY <3>1, RequestAssumption, SlotsAssumption
    <3> QED BY <3>1, <3>2 DEF permits_held
  <2>5. Holders = {} <=> \A t \in Thread : permits_held[t] = 0
    BY <2>4 DEF permits_held, Holders
  <2>6. fits_locked(r) <=> active = 0 /\ used_slots = 0
    BY <1>3 DEF fits_locked
  <2>7. A!Fits(r.permits, Exclusive(r)) <=> \A t \in Thread : permits_held[t] = 0
    BY <1>3 DEF A!Fits
  <2> QED BY <2>1, <2>3, <2>5, <2>6, <2>7
<1> QED BY <1>2, <1>3

\* Nobody waits, as callers see it, when the list is empty and the mutex free.
LEMMA WaitingIsQueue ==
    ASSUME IInv, lock = NoThread
    PROVE  Waiting = {} <=> waiters = <<>>
<1>1. \A t \in Thread : pc[t] # "linking"
  BY ThreadAssumption DEF IInv, LockOwned, InLoop
<1>2. waiters = <<>> => \A t \in Thread : pc[t] # "queued"
  BY DEF IInv, QueueConsistent, Linked
<1>3. waiters # <<>> => Head(waiters) \in Waiting
  BY HeadQueued DEF Waiting
<1> QED BY <1>1, <1>2, <1>3 DEF Waiting

\* A step that changes neither the holders and their requests nor who waits is
\* invisible.
LEMMA Invisible ==
    ASSUME Holders' = Holders, \A t \in Holders : req'[t] = req[t], Waiting' = Waiting
    PROVE  UNCHANGED A!adm
<1>1. permits_held' = permits_held
  BY DEF permits_held
<1>2. Alone' = Alone
  BY DEF Alone, Exclusive
<1> QED BY <1>1, <1>2 DEF A!adm

\* A thread that becomes a holder is given its permits.
LEMMA GiveStep ==
    ASSUME NEW t \in Thread, t \notin Holders, Holders' = Holders \cup {t},
           \A u \in Holders : req'[u] = req[u], req'[t] \in Request
    PROVE  A!Give(t, req'[t].permits, Exclusive(req'[t]))
<1>1. permits_held[t] = 0
  BY DEF permits_held
<1>2. ASSUME NEW u \in Thread
      PROVE  permits_held'[u] = IF u = t THEN req'[t].permits ELSE permits_held[u]
  BY DEF permits_held
<1>3. Alone' = IF Exclusive(req'[t]) THEN Alone \cup {t} ELSE Alone
  BY DEF Alone, Exclusive
<1>4. req'[t].permits \in Int
  BY RequestAssumption, SlotsAssumption
<1>5. permits_held' = [permits_held EXCEPT ![t] = @ + req'[t].permits]
  <2>1. permits_held[t] + req'[t].permits = req'[t].permits
    BY <1>1, <1>4
  <2> QED BY <1>2, <2>1 DEF permits_held
<1> QED BY <1>3, <1>5 DEF A!Give

\* Every step of the scheduler is a step of Admission or invisible.
LEMMA StepSimulation ==
    ASSUME IInv, Asked, [Next]_vars
    PROVE  [A!AdmissionNext]_(A!adm)
<1> USE DEF IInv, TypeOK, Goto, fields
<1>c. \A r \in Request : r.permits \in 1..Slots /\ Exclusive(r) \in BOOLEAN
  BY RequestAssumption DEF Exclusive
<1>0. CASE Tick
  BY <1>0, Invisible DEF Tick, Holders, Waiting
<1>1. ASSUME NEW t \in Thread, NEW r \in Request, AcquireNow(t, r) PROVE A!AdmissionNext
  <2>1. t \notin Holders /\ Holders' = Holders \cup {t} /\ Waiting' = Waiting
    BY <1>1 DEF AcquireNow, Holders, Waiting
  <2>2. req'[t] = r /\ \A u \in Holders : req'[u] = req[u]
    BY <1>1, <2>1 DEF AcquireNow
  <2>3. Waiting = {} /\ A!Fits(r.permits, Exclusive(r))
    BY <1>1, WaitingIsQueue, FitsIsFits DEF AcquireNow
  <2>4. A!Give(t, r.permits, Exclusive(r))
    BY <2>1, <2>2, GiveStep
  <2>5. A!TryGrant(t, r.permits, Exclusive(r))
    BY <2>1, <2>3, <2>4 DEF A!TryGrant
  <2> QED BY <1>c, <2>5 DEF A!AdmissionNext
<1>2. ASSUME NEW t \in Thread, NEW r \in Request, AcquireQueue(t, r) PROVE A!AdmissionNext
  <2>1. t \notin Holders /\ Holders' = Holders /\ Waiting' = Waiting \cup {t}
    BY <1>2 DEF AcquireQueue, Holders, Waiting
  <2>2. \A u \in Holders : req'[u] = req[u]
    BY <1>2, <2>1 DEF AcquireQueue
  <2>3. ~(Waiting = {} /\ A!Fits(r.permits, Exclusive(r)))
    BY <1>2, WaitingIsQueue, FitsIsFits DEF AcquireQueue
  <2>4. permits_held' = permits_held /\ Alone' = Alone
    BY <2>1, <2>2 DEF permits_held, Alone, Exclusive
  <2>5. A!Enqueue(t, r.permits, Exclusive(r))
    BY <2>1, <2>3, <2>4 DEF A!Enqueue
  <2> QED BY <1>c, <2>5 DEF A!AdmissionNext
<1>3. ASSUME NEW t \in Thread, NEW w \in Thread, AgeOne(t, w) PROVE UNCHANGED A!adm
  BY <1>3, Invisible DEF AgeOne, Holders, Waiting
<1>4. ASSUME NEW t \in Thread, Link(t) PROVE UNCHANGED A!adm
  BY <1>4, Invisible DEF Link, Holders, Waiting
<1>5. ASSUME NEW t \in Thread, AgeDone(t) PROVE UNCHANGED A!adm
  BY <1>5, Invisible DEF AgeDone, Holders, Waiting
<1>6. ASSUME NEW t \in Thread, PromoteHead(t) PROVE A!AdmissionNext
  <2> DEFINE h == Head(waiters)
  <2>1. h \in Thread /\ pc[h] = "queued"
    BY <1>6, HeadQueued DEF PromoteHead, HeadFits
  <2>2. fits_locked(req[h]) /\ pc' = [pc EXCEPT ![h] = "granted"] /\ req' = req
    BY <1>6 DEF PromoteHead, HeadFits
  <2> HIDE DEF h
  <2>3. h \notin Holders /\ Holders' = Holders \cup {h} /\ h \in Waiting
    BY <2>1, <2>2 DEF Holders, Waiting
  <2>4. Waiting' = Waiting \ {h}
    BY <2>1, <2>2 DEF Waiting
  <2>5. req[h] \in Request
    BY <2>1 DEF Asked
  <2>6. A!Fits(req[h].permits, Exclusive(req[h]))
    BY <2>2, <2>5, FitsIsFits
  <2>7. A!Give(h, req[h].permits, Exclusive(req[h]))
    <3>1. \A u \in Holders : req'[u] = req[u]
      BY <2>2
    <3>2. A!Give(h, req'[h].permits, Exclusive(req'[h]))
      BY <2>1, <2>2, <2>3, <2>5, <3>1, GiveStep
    <3> QED BY <3>2, <2>2
  <2>8. A!Grant(h, req[h].permits, Exclusive(req[h]))
    BY <2>3, <2>4, <2>6, <2>7 DEF A!Grant
  <2> QED BY <1>c, <2>1, <2>5, <2>8 DEF A!AdmissionNext
<1>7. ASSUME NEW t \in Thread, PromoteDone(t) PROVE UNCHANGED A!adm
  BY <1>7, Invisible DEF PromoteDone, Holders, Waiting
<1>8. ASSUME NEW t \in Thread, Wake(t) PROVE UNCHANGED A!adm
  BY <1>8, Invisible DEF Wake, Holders, Waiting
<1>9. ASSUME NEW t \in Thread, TimeOut(t) PROVE A!AdmissionNext
  <2>1. t \notin Holders /\ Holders' = Holders /\ t \in Waiting /\ Waiting' = Waiting \ {t}
    BY <1>9 DEF TimeOut, Holders, Waiting
  <2>2. \A u \in Holders : req'[u] = req[u]
    BY <1>9, <2>1 DEF TimeOut
  <2>3. permits_held' = permits_held /\ Alone' = Alone
    BY <2>1, <2>2 DEF permits_held, Alone, Exclusive
  <2>4. A!Expire(t)
    BY <2>1, <2>3 DEF A!Expire
  <2> QED BY <2>4 DEF A!AdmissionNext
<1>10. ASSUME NEW t \in Thread, Release(t) PROVE A!AdmissionNext
  <2>1. t \in Holders /\ Holders' = Holders \ {t} /\ Waiting' = Waiting /\ req[t] \in Request
    BY <1>10 DEF Release, Holders, Waiting, Asked
  <2>2. \A u \in Holders \ {t} : req'[u] = req[u]
    BY <1>10 DEF Release, Holders
  <2>3. req[t].permits \in 1..Slots /\ permits_held[t] = req[t].permits
    BY <1>c, <2>1 DEF permits_held
  <2>4. permits_held' = [permits_held EXCEPT ![t] = @ - req[t].permits]
    <3>1. ASSUME NEW u \in Thread
          PROVE  permits_held'[u] = IF u = t THEN 0 ELSE permits_held[u]
      BY <2>1, <2>2 DEF permits_held
    <3>2. permits_held[t] - req[t].permits = 0
      BY <2>3, SlotsAssumption
    <3> QED BY <3>1, <3>2 DEF permits_held
  <2>5. Alone' = Alone \ {t}
    BY <2>1, <2>2 DEF Alone, Exclusive
  <2>6. A!Return(t, req[t].permits)
    BY <2>1, <2>3, <2>4, <2>5, SlotsAssumption DEF A!Return
  <2> QED BY <2>3, <2>6 DEF A!AdmissionNext
<1>11. CASE UNCHANGED vars
  BY <1>11, Invisible DEF vars, Holders, Waiting
<1> QED BY <1>0, <1>1, <1>2, <1>3, <1>4, <1>5, <1>6, <1>7, <1>8, <1>9, <1>10, <1>11,
           Invisible DEF Next, LoopStep, Tick, Holders, Waiting

\* The mutex, the ordered list, the condition variables, timeouts and aging of
\* osched.c implement the abstract scheduler, for any number of threads and
\* slots, any request classes and any times.
THEOREM SchedulerImplementsAdmission == Spec => ImplementsAdmission
<1>1. Init => A!AdmissionInit
  BY DEF Init, A!AdmissionInit, permits_held, Alone, Waiting, Holders
<1>2. IInv /\ Asked /\ [Next]_vars => [A!AdmissionNext]_(A!adm)
  BY StepSimulation
<1> QED BY <1>1, <1>2, Inductive, AskedAlways, PTL
        DEF Spec, ImplementsAdmission, A!AdmissionSpec
=============================================================================
