---------------------------- MODULE Device_proofs ----------------------------
(***************************************************************************)
(* Proofs about who may use the device's memory: the broker's tables and   *)
(* the life of a lease (OVram), and the embedded models (EmbeddedModels,   *)
(* in the two instances of MC_Device).                                     *)
(***************************************************************************)
EXTENDS MC_Device, CollectionTheorems

-----------------------------------------------------------------------------
(* The broker.  The inductive invariant adds to TablesSound what its        *)
(* arithmetic and its ids rest on: the requests are requests, a lease with  *)
(* a base is of a tenant that reports its process, an id names its owner,   *)
(* and what is allocated fits the device.                                   *)

LeasesSound(ls) ==
    /\ ls \in Seq(Lease) /\ Len(ls) <= NLeases
    /\ \A i, j \in DOMAIN ls : ls[i].id = ls[j].id => i = j
    /\ \A i \in DOMAIN ls : ls[i].base >= 0 => ls[i].owner \in Reported
    /\ \A i \in DOMAIN ls : ls[i].id[1] = ls[i].owner
IdsSound ==
    /\ lid \in [Tenant -> (Tenant \X Nat) \cup {NoId}]
    /\ \A t \in Tenant : lid[t] # NoId => lid[t][1] = t
CallsSound == req \in [Tenant -> Request \cup {NoRequest}]
ProcsSound ==
    /\ procs \in [valid : BOOLEAN, used : [Listed -> Nat]]
    /\ table \in [Tenant -> [Listed -> Nat]]
QueueSound ==
    /\ waiters \in Seq(Tenant) /\ Len(waiters) <= NWaiters
    /\ waiting \in [Tier -> Nat] /\ registered \subseteq Tenant
    /\ pc \in [Tenant -> PC]
    /\ WaitersMatch
MemorySound ==
    /\ mat \in [Tenant -> Nat] /\ idle \in Nat /\ scratch \in Nat
    /\ Allocated <= Total
MiscSound ==
    /\ reserved \in [Reserver -> Nat]
    /\ dfree \in [Tenant -> Nat \cup {-1}]
    /\ waited \in [Tenant -> 0..WaitCap]
BrokerInv ==
    /\ LeasesSound(leases) /\ IdsSound /\ CallsSound /\ ProcsSound
    /\ QueueSound /\ MemorySound /\ MiscSound

LEMMA BrokerInvSound == BrokerInv => TablesSound
BY DEF BrokerInv, TablesSound, TypeOK, LeasesSound, IdsSound, ProcsSound, QueueSound,
       MemorySound, MiscSound

\* What a call asks for is well-typed.
LEMMA RequestFields ==
    ASSUME CallsSound, NEW t \in Tenant
    PROVE  /\ req[t].tier \in Tier /\ req[t].mb \in Nat \ {0}
           /\ req[t].min \in 0..req[t].mb /\ req[t].wait \in Nat
<1>1. CASE req[t] \in Request
  BY <1>1, RequestAssumption
<1>2. CASE req[t] = NoRequest
  BY <1>2 DEF NoRequest, Tier, TIER_PAID, TIER_BACKGROUND
<1> QED BY <1>1, <1>2 DEF CallsSound

\* The table the driver reports, and the device's free memory, are amounts.
LEMMA UsageNat == MemorySound => Usage \in [Listed -> Nat] /\ Free \in Nat
<1> SUFFICES ASSUME MemorySound PROVE Usage \in [Listed -> Nat] /\ Free \in Nat
  OBVIOUS
<1>1. \A S \in SUBSET Tenant : Sum(mat, S) \in Nat
  <2> TAKE S \in SUBSET Tenant
  <2>1. IsFiniteSet(S) /\ \A x \in S : mat[x] \in Nat
    BY FS_Subset, SizesAssumption DEF MemorySound
  <2> QED BY <2>1, SumNat
<1>2. \A p \in Listed : Sum(mat, {t \in Tenant : PidOf[t] = p}) \in Nat
  BY <1>1
<1>3. Sum(mat, Tenant) \in Nat
  BY <1>1
<1>4. Usage \in [Listed -> Nat]
  BY <1>2 DEF Usage, MemorySound
<1>5. Free \in Nat
  BY <1>3, SizesAssumption DEF Free, Allocated, MemorySound
<1> QED BY <1>4, <1>5

-----------------------------------------------------------------------------
(* The broker's arithmetic yields integers                                  *)

LEMMA SelectSound ==
    ASSUME NEW ss, LeasesSound(ss), NEW I \in SUBSET DOMAIN ss, NEW ls, ls = SelectAt(ss, I)
    PROVE  /\ LeasesSound(ls)
           /\ \A i \in I : \E k \in DOMAIN ls : ls[k] = ss[i]
           /\ \A k \in DOMAIN ls : \E i \in I : ls[k] = ss[i]
<1>1. ss \in Seq(Lease) /\ I \in SUBSET (1..Len(ss)) /\ DOMAIN ss = 1..Len(ss)
  BY DEF LeasesSound
<1>2. ls = SelectAt(ss, I)
  OBVIOUS
<1>3. /\ ls \in Seq(Lease) /\ Len(ls) <= Len(ss)
      /\ \A i \in I : \E k \in DOMAIN ls : ls[k] = ss[i]
      /\ \A k \in DOMAIN ls : \E i \in I : ls[k] = ss[i]
      /\ \A k, m \in DOMAIN ls : k # m => \E i, j \in I : i # j /\ ls[k] = ss[i] /\ ls[m] = ss[j]
  <2>1. Selection(Lease, ss, I, ls)
    BY <1>1, <1>2, SelectAtElements
  <2> QED BY <2>1 DEF Selection
<1>4. DOMAIN ls = 1..Len(ls) /\ Len(ls) \in Nat /\ Len(ss) \in Nat
  BY <1>1, <1>3
<1>5. Len(ls) <= NLeases
  BY <1>3, <1>4, SizesAssumption DEF LeasesSound
<1>a. \A i \in I : i \in DOMAIN ss
  BY <1>1
<1>6. \A i, j \in DOMAIN ls : ls[i].id = ls[j].id => i = j
  <2> TAKE i, j \in DOMAIN ls
  <2> SUFFICES ASSUME i # j PROVE ls[i].id # ls[j].id
    OBVIOUS
  <2>1. PICK k, m \in I : k # m /\ ls[i] = ss[k] /\ ls[j] = ss[m]
    BY <1>3, <1>4
  <2> QED BY <2>1, <1>a DEF LeasesSound
<1>7. \A i \in DOMAIN ls : /\ ls[i].base >= 0 => ls[i].owner \in Reported
                           /\ ls[i].id[1] = ls[i].owner
  <2> TAKE i \in DOMAIN ls
  <2>1. PICK k \in I : ls[i] = ss[k]
    BY <1>3, <1>4
  <2> QED BY <2>1, <1>a DEF LeasesSound
<1> QED BY <1>3, <1>5, <1>6, <1>7 DEF LeasesSound

LEMMA LiveSound ==
    ASSUME LeasesSound(leases), NEW ls, ls = Live(leases)
    PROVE  /\ LeasesSound(ls)
           /\ \A i \in DOMAIN leases : leases[i].ttl > 0 => \E k \in DOMAIN ls : ls[k] = leases[i]
           /\ \A k \in DOMAIN ls : \E i \in DOMAIN leases : leases[i].ttl > 0 /\ ls[k] = leases[i]
<1> DEFINE I == {i \in DOMAIN leases : leases[i].ttl > 0}
<1>1. I \in SUBSET DOMAIN leases /\ ls = SelectAt(leases, I)
  BY DEF Live
<1>2. /\ LeasesSound(ls) /\ \A i \in I : \E k \in DOMAIN ls : ls[k] = leases[i]
      /\ \A k \in DOMAIN ls : \E i \in I : ls[k] = leases[i]
  <2> HIDE DEF I
  <2> QED BY <1>1, SelectSound
<1> QED BY <1>2

\* The growth of a process is a number: its table has an entry, and the set of
\* bases has a least element.
LEMMA GrowthInt ==
    ASSUME ProcsSound, NEW ls, LeasesSound(ls), NEW i \in DOMAIN ls, ls[i].base >= 0
    PROVE  Growth(ls, ls[i]) \in Int
<1> DEFINE l == ls[i]  sharing == {j \in DOMAIN ls : SharesGrowth(l, ls[j])}
           bases == {ls[j].base : j \in sharing}
<1>1. DOMAIN ls = 1..Len(ls) /\ Len(ls) \in Nat /\ \A j \in DOMAIN ls : ls[j] \in Lease
  BY DEF LeasesSound
<1>2. \A j \in sharing : ls[j].base \in Int
  BY <1>1 DEF Lease
<1>3. i \in sharing
  BY DEF SharesGrowth
<1>4. IsFiniteSet(sharing)
  <2>1. IsFiniteSet(DOMAIN ls)
    BY <1>1, FS_Interval
  <2> QED BY <2>1, FS_Subset
<1>5. IsFiniteSet(bases)
  <2> DEFINE f == [j \in sharing |-> ls[j].base]
  <2>1. f \in Surjection(sharing, bases)
    BY DEF Surjection
  <2> QED BY <2>1, <1>4, FS_Surjection
<1>6. bases # {} /\ \A b \in bases : b \in Int
  BY <1>2, <1>3
<1> HIDE DEF bases
<1>7. Min(bases) \in Int
  BY <1>5, <1>6, LeastElement
<1>8. procs.used[PidOf[l.owner]] \in Nat
  BY <1>1 DEF LeasesSound, ProcsSound, Listed
<1> QED BY <1>7, <1>8 DEF Growth, Max0, bases

LEMMA ChargesInt ==
    ASSUME ProcsSound, NEW ls, LeasesSound(ls)
    PROVE  \A i \in DOMAIN ls : charges_locked(ls)[i] \in Int
<1> TAKE i \in DOMAIN ls
<1> DEFINE earlier == {j \in 1..(i - 1) : SharesGrowth(ls[i], ls[j])}
<1>1. DOMAIN ls = 1..Len(ls) /\ Len(ls) \in Nat /\ \A j \in DOMAIN ls : ls[j] \in Lease
  BY DEF LeasesSound
<1>2. ls[i].mb \in Int /\ ls[i].base \in Int
  BY <1>1 DEF Lease
<1>3. IsFiniteSet(earlier)
  <2>1. i \in Int /\ earlier \in SUBSET (1..(i - 1))
    BY <1>1
  <2>2. IsFiniteSet(1..(i - 1))
    BY <2>1, FS_Interval
  <2> QED BY <2>1, <2>2, FS_Subset
<1>4. \A j \in earlier : Amounts(ls)[j] \in Int
  BY <1>1 DEF Amounts, Lease
<1>5. Sum(Amounts(ls), earlier) \in Int
  <2> HIDE DEF earlier
  <2> QED BY <1>3, <1>4, SumInt
<1>6. Credit(ls, i) \in Int
  <2>1. CASE ls[i].base < 0
    BY <2>1 DEF Credit
  <2>2. CASE ~(ls[i].base < 0)
    <3>1. Growth(ls, ls[i]) \in Int
      BY <2>2, <1>2, GrowthInt
    <3> QED BY <3>1, <2>2, <1>2, <1>5 DEF Credit, Least, Max0
  <2> QED BY <2>1, <2>2
<1> QED BY <1>2, <1>6 DEF charges_locked

LEMMA HeadroomNat ==
    ASSUME ProcsSound, MiscSound, NEW ls, LeasesSound(ls), NEW tier \in Tier,
           NEW free \in Nat \cup {-1}
    PROVE  headroom_locked(ls, tier, free) \in Nat
<1>1. reserved_mb_locked \in Int
  <2>1. \A o \in Reserver : reserved[o] \in Int
    BY DEF MiscSound
  <2> QED BY <2>1, SumInt, SizesAssumption DEF reserved_mb_locked
<1>2. leased_mb_for_tier_locked(ls, tier) \in Int
  <2> DEFINE S == {i \in DOMAIN ls : ls[i].tier <= tier \/ Young(ls[i])}
  <2>1. DOMAIN ls = 1..Len(ls) /\ Len(ls) \in Nat
    BY DEF LeasesSound
  <2>2. IsFiniteSet(DOMAIN ls)
    BY <2>1, FS_Interval
  <2>3. IsFiniteSet(S)
    BY <2>2, FS_Subset
  <2>4. \A i \in S : charges_locked(ls)[i] \in Int
    BY ChargesInt
  <2> HIDE DEF S
  <2>5. Sum(charges_locked(ls), S) \in Int
    BY <2>3, <2>4, SumInt
  <2> QED BY <2>5 DEF leased_mb_for_tier_locked, S
<1>3. floor_for_tier(tier) \in Int
  BY SizesAssumption DEF floor_for_tier, Tier, TIER_PAID, TIER_SUB, TIER_FREE, TIER_BACKGROUND
<1> QED BY <1>1, <1>2, <1>3 DEF headroom_locked, Max0

\* A grant is a positive amount and finds a slot, or it is 0.
LEMMA GrantedNat ==
    ASSUME BrokerInv, NEW ls, LeasesSound(ls), NEW t \in Tenant
    PROVE  /\ Granted(ls, t) \in Nat
           /\ Granted(ls, t) > 0 => SlotFree(ls)
<1>1. dfree[t] \in Nat \cup {-1}
  BY DEF BrokerInv, MiscSound
<1>2. req[t].tier \in Tier /\ req[t].mb \in Nat
  BY RequestFields DEF BrokerInv
<1>3. headroom_locked(ls, req[t].tier, dfree[t]) \in Nat
  BY <1>1, <1>2, HeadroomNat DEF BrokerInv
<1> QED BY <1>2, <1>3 DEF Granted, grant_locked, Least
\* Among NLeases + 1 numbers one is free for a new lease of t.
LEMMA NewIdFresh ==
    ASSUME NEW ls, LeasesSound(ls), NEW t \in Tenant
    PROVE  \E n \in 1..(NLeases + 1) :
                NewId(ls, t) = <<t, n>> /\ \A k \in DOMAIN ls : ls[k].id # <<t, n>>
<1> DEFINE Used(n, k) == ls[k].id = <<t, n>>  N == 1..(NLeases + 1)
<1>1. ls \in Seq(Lease) /\ NLeases \in Nat /\ Len(ls) <= NLeases /\ Len(ls) \in Nat /\ DOMAIN ls = 1..Len(ls)
  BY SizesAssumption DEF LeasesSound
<1>3. IsFiniteSet(1..Len(ls)) /\ Cardinality(1..Len(ls)) = Len(ls)
  <2>1. \A m \in Nat : IsFiniteSet(1..m) /\ Cardinality(1..m) = m
    BY FS_Interval
  <2> QED BY <1>1, <2>1
<1>2. \E n \in N : \A k \in DOMAIN ls : ~Used(n, k)
  <2> SUFFICES ASSUME \A n \in N : \E k \in DOMAIN ls : Used(n, k) PROVE FALSE
    OBVIOUS
  <2> DEFINE f == [n \in N |-> CHOOSE k \in DOMAIN ls : Used(n, k)]
  <2>1. \A n \in N : f[n] \in DOMAIN ls /\ Used(n, f[n])
    OBVIOUS
  <2>2. IsFiniteSet(N) /\ Cardinality(N) = NLeases + 1
    BY <1>1, FS_Interval
  <2>3. IsFiniteSet(DOMAIN ls) /\ Cardinality(DOMAIN ls) = Len(ls)
    BY <1>1, <1>3, Zenon
  <2>4. Cardinality(DOMAIN ls) < Cardinality(N)
    BY <1>1, <2>2, <2>3
  <2>5. f \in [N -> DOMAIN ls]
    BY <2>1
  <2> DEFINE D == DOMAIN ls
  <2> HIDE DEF f, N, D
  <2>6. PICK m, n \in N : m # n /\ f[m] = f[n]
    <3>1. IsFiniteSet(D) /\ Cardinality(D) < Cardinality(N) /\ f \in [N -> D]
      BY <2>3, <2>4, <2>5 DEF D
    <3> QED BY <2>2, <3>1, FS_PigeonHole
  <2>7. ls[f[m]].id = <<t, m>> /\ ls[f[m]].id = <<t, n>>
    BY <2>1, <2>6
  <2> QED BY <2>6, <2>7
<1> QED BY <1>2 DEF NewId

\* A grant or a forced lease keeps the table sound.
LEMMA AppendSound ==
    ASSUME BrokerInv, NEW ls, LeasesSound(ls), SlotFree(ls), NEW t \in Tenant,
           NEW mb \in Nat \ {0}
    PROVE  LeasesSound(Append(ls, NewLease(ls, t, mb)))
<1> DEFINE l == NewLease(ls, t, mb)  as == Append(ls, l)
<1>1. PICK n \in 1..(NLeases + 1) :
        NewId(ls, t) = <<t, n>> /\ \A k \in DOMAIN ls : ls[k].id # <<t, n>>
  BY NewIdFresh
<1>2. n \in Nat
  BY SizesAssumption
<1>3. l.id = <<t, n>> /\ l.owner = t /\ l.base = proc_used_locked(t)
  BY <1>1 DEF NewLease
<1>4. proc_used_locked(t) \in Nat \cup {-1} /\ (proc_used_locked(t) >= 0 => t \in Reported)
  BY DEF proc_used_locked, BrokerInv, ProcsSound, Listed
<1>5. l \in Lease
  <2>1. req[t].tier \in Tier
    BY RequestFields DEF BrokerInv
  <2>2. Ttl \in 0..Ttl /\ 0 \in 0..JobLease
    BY SizesAssumption
  <2>3. NewId(ls, t) \in Tenant \X Nat
    BY <1>1, <1>2
  <2> QED BY <2>1, <2>2, <2>3, <1>4 DEF NewLease, Lease
<1> HIDE DEF l
<1>6. ls \in Seq(Lease) /\ Len(ls) \in Nat /\ DOMAIN ls = 1..Len(ls)
  BY DEF LeasesSound
<1>7. as \in Seq(Lease) /\ Len(as) = Len(ls) + 1 /\ DOMAIN as = 1..(Len(ls) + 1)
  BY <1>5, <1>6
<1>8. \A i \in DOMAIN as : IF i \in DOMAIN ls THEN as[i] = ls[i] ELSE as[i] = l /\ i = Len(ls) + 1
  BY <1>5, <1>6, <1>7
<1>9. Len(as) <= NLeases
  BY <1>6, <1>7, SizesAssumption DEF SlotFree
<1> HIDE DEF as
<1>10. \A i, j \in DOMAIN as : as[i].id = as[j].id => i = j
  <2> TAKE i, j \in DOMAIN as
  <2>1. CASE i \in DOMAIN ls /\ j \in DOMAIN ls
    BY <2>1, <1>8 DEF LeasesSound
  <2>2. CASE i \in DOMAIN ls /\ j \notin DOMAIN ls
    BY <2>2, <1>1, <1>3, <1>8
  <2>3. CASE i \notin DOMAIN ls /\ j \in DOMAIN ls
    BY <2>3, <1>1, <1>3, <1>8
  <2>4. CASE i \notin DOMAIN ls /\ j \notin DOMAIN ls
    BY <2>4, <1>8
  <2> QED BY <2>1, <2>2, <2>3, <2>4
<1>11. \A i \in DOMAIN as : as[i].base >= 0 => as[i].owner \in Reported
  BY <1>3, <1>4, <1>8 DEF LeasesSound
<1>12. \A i \in DOMAIN as : as[i].id[1] = as[i].owner
  <2> TAKE i \in DOMAIN as
  <2>1. CASE i \in DOMAIN ls
    BY <2>1, <1>8 DEF LeasesSound
  <2>2. CASE i \notin DOMAIN ls
    <3>1. as[i] = l
      BY <2>2, <1>8
    <3>2. <<t, n>>[1] = t
      OBVIOUS
    <3> QED BY <3>1, <3>2, <1>3, Zenon
  <2> QED BY <2>1, <2>2
<1> QED BY <1>7, <1>9, <1>10, <1>11, <1>12 DEF LeasesSound, as, l

-----------------------------------------------------------------------------
(* What a step does to the leases: nothing, an expiry sweep, a new lease    *)
(* after the sweep, a release, a renewal after the sweep, or a tick.        *)

Granting(t) ==
    \E mb \in Nat \ {0} :
        LET ls == Live(leases)
        IN  /\ SlotFree(ls)
            /\ leases' = Append(ls, NewLease(ls, t, mb))
            /\ lid' = [lid EXCEPT ![t] = NewId(ls, t)]
LeaseEffect ==
    \/ leases' = leases /\ (lid' = lid \/ \E t \in Tenant : lid' = [lid EXCEPT ![t] = NoId])
    \/ leases' = Live(leases) /\ lid' = lid
    \/ \E t \in Tenant : Granting(t)
    \/ \E t \in Tenant : ovram_release(t)
    \/ \E t \in Tenant : ovram_renew(t)
    \/ Tick

LEMMA LeaseEffects == BrokerInv /\ [Next]_vars => LeaseEffect
<1> SUFFICES ASSUME BrokerInv, [Next]_vars PROVE LeaseEffect
  OBVIOUS
<1> USE DEF broker, device, locals
<1>1. ASSUME NEW t \in Tenant, NEW r \in Request, Ask(t, r) PROVE LeaseEffect
  BY <1>1 DEF Ask, LeaseEffect
<1>2. ASSUME NEW t \in Tenant, Step(t) PROVE LeaseEffect
  <2>1. CASE \/ RefreshRead(t) \/ RefreshFails(t) \/ ovram_set_procs(t) \/ device_free_mb_now(t)
             \/ PressureFrees(t) \/ PressureFreesNothing(t) \/ Wake(t)
             \/ ForceStart(t) \/ GiveUp(t)
    BY <2>1 DEF RefreshRead, RefreshFails, ovram_set_procs, device_free_mb_now, PressureFrees,
                PressureFreesNothing, Wake, ForceStart, GiveUp, LeaseEffect
  <2>2. CASE LeaseGranted(t)
    <3> DEFINE ls == Live(leases)
    <3>1. LeasesSound(ls)
      BY LiveSound DEF BrokerInv
    <3>2. Granted(ls, t) \in Nat \ {0} /\ SlotFree(ls)
      BY <2>2, <3>1, GrantedNat DEF LeaseGranted
    <3>3. leases' = Append(ls, NewLease(ls, t, Granted(ls, t))) /\ lid' = [lid EXCEPT ![t] = NewId(ls, t)]
      BY <2>2 DEF LeaseGranted, NewLease
    <3>4. Granting(t)
      BY <3>2, <3>3 DEF Granting
    <3> QED BY <3>4 DEF LeaseEffect
  <2>3. CASE LeaseRefused(t) \/ LeaseWaits(t)
    BY <2>3 DEF LeaseRefused, LeaseWaits, LeaseEffect
  <2>4. CASE ovram_lease_force(t)
    <3> DEFINE ls == Live(leases)
    <3>1. CASE SlotFree(ls)
      <4>1. req[t].mb \in Nat \ {0}
        BY RequestFields DEF BrokerInv
      <4>2. leases' = Append(ls, NewLease(ls, t, req[t].mb)) /\ lid' = [lid EXCEPT ![t] = NewId(ls, t)]
        BY <2>4, <3>1 DEF ovram_lease_force, NewLease
      <4>3. Granting(t)
        BY <3>1, <4>1, <4>2 DEF Granting
      <4> QED BY <4>3 DEF LeaseEffect
    <3>2. CASE ~SlotFree(ls)
      BY <2>4, <3>2 DEF ovram_lease_force, LeaseEffect
    <3> QED BY <3>1, <3>2
  <2> QED BY <1>2, <2>1, <2>2, <2>3, <2>4 DEF Step
<1>3. ASSUME NEW t \in Tenant, HolderStep(t) \/ ovram_renew(t) \/ Materialise(t) \/ Crash(t)
      PROVE  LeaseEffect
  BY <1>3 DEF HolderStep, FreeMemory, Materialise, Crash, LeaseEffect
<1>4. ASSUME NEW o \in Reserver, NEW mb \in ReserveMb, ovram_reserve(o, mb) PROVE LeaseEffect
  BY <1>4 DEF ovram_reserve, LeaseEffect
<1>5. CASE ovram_snapshot \/ ScratchChanges \/ Tick \/ UNCHANGED vars
  BY <1>5 DEF ovram_snapshot, ScratchChanges, vars, LeaseEffect
<1> QED BY <1>1, <1>2, <1>3, <1>4, <1>5 DEF Next

\* A table whose entries keep their id, owner and base stays sound.
LEMMA UpdateSound ==
    ASSUME NEW ls, LeasesSound(ls), NEW ms, ms = [i \in DOMAIN ls |-> ms[i]],
           \A i \in DOMAIN ls : /\ ms[i] \in Lease /\ ms[i].id = ls[i].id
                                 /\ ms[i].owner = ls[i].owner /\ ms[i].base = ls[i].base
    PROVE  LeasesSound(ms)
<1>1. ls \in Seq(Lease) /\ Len(ls) \in Nat /\ DOMAIN ls = 1..Len(ls)
  BY DEF LeasesSound
<1>2. DOMAIN ms = DOMAIN ls
  OBVIOUS
<1>3. ms \in Seq(Lease) /\ Len(ms) = Len(ls)
  BY <1>1
<1> QED BY <1>2, <1>3 DEF LeasesSound

\* What happens to the entries of the table in a renewal and in a tick.
LEMMA RenewSound ==
    ASSUME BrokerInv, NEW t \in Tenant, ovram_renew(t)
    PROVE  /\ LeasesSound(leases') /\ lid' = lid
           /\ DOMAIN leases' = DOMAIN Live(leases)
           /\ \A i \in DOMAIN Live(leases) : leases'[i].id = Live(leases)[i].id
<1> DEFINE ls == Live(leases)
           e(i) == IF ls[i].id = lid[t] THEN [ls[i] EXCEPT !.ttl = Ttl] ELSE ls[i]
<1>1. LeasesSound(ls)
  BY LiveSound DEF BrokerInv
<1>2. leases' = [i \in DOMAIN ls |-> e(i)] /\ lid' = lid
  BY DEF ovram_renew, locals
<1> HIDE DEF ls
<1>3. \A i \in DOMAIN ls : ls[i] \in Lease
  BY <1>1 DEF LeasesSound
<1>4. \A i \in DOMAIN ls : /\ e(i) \in Lease /\ e(i).id = ls[i].id
                           /\ e(i).owner = ls[i].owner /\ e(i).base = ls[i].base
  BY <1>3, SizesAssumption DEF Lease
<1> HIDE DEF e
<1>5. \A i \in DOMAIN ls : leases'[i] = e(i)
  BY <1>2
<1>6. DOMAIN leases' = DOMAIN ls /\ leases' = [i \in DOMAIN ls |-> leases'[i]]
  BY <1>2
<1>7. LeasesSound(leases')
  BY <1>1, <1>4, <1>5, <1>6, UpdateSound
<1> QED BY <1>2, <1>4, <1>5, <1>6, <1>7 DEF ls

LEMMA TickSound ==
    ASSUME BrokerInv, Tick
    PROVE  /\ LeasesSound(leases') /\ lid' = lid
           /\ DOMAIN leases' = DOMAIN leases
           /\ \A i \in DOMAIN leases : leases'[i].id = leases[i].id
<1> DEFINE e(i) == Older(leases[i])
<1>1. LeasesSound(leases)
  BY DEF BrokerInv
<1>2. leases' = [i \in DOMAIN leases |-> e(i)] /\ lid' = lid
  BY DEF Tick
<1>3. \A i \in DOMAIN leases : leases[i] \in Lease
  BY <1>1 DEF LeasesSound
<1>4. \A i \in DOMAIN leases : /\ e(i) \in Lease /\ e(i).id = leases[i].id
                               /\ e(i).owner = leases[i].owner /\ e(i).base = leases[i].base
  <2> TAKE i \in DOMAIN leases
  <2> DEFINE l == leases[i]  ttl == Max0(l.ttl - 1)  age == Least(l.age + 1, JobLease)
  <2>1. l \in Lease
    BY <1>3
  <2>2. l.ttl \in 0..Ttl /\ l.age \in 0..JobLease /\ Ttl \in Nat /\ JobLease \in Nat
    BY <2>1, SizesAssumption DEF Lease
  <2>3. ttl \in 0..Ttl /\ age \in 0..JobLease
    BY <2>2 DEF Max0, Least
  <2>4. e(i) = [l EXCEPT !.ttl = ttl, !.age = age]
    BY DEF Older
  <2> HIDE DEF l, ttl, age, e
  <2>5. e(i) \in Lease /\ e(i).id = l.id /\ e(i).owner = l.owner /\ e(i).base = l.base
    BY <2>1, <2>3, <2>4 DEF Lease
  <2> QED BY <2>5 DEF l
<1> HIDE DEF e
<1>5. \A i \in DOMAIN leases : leases'[i] = e(i)
  BY <1>2
<1>6. DOMAIN leases' = DOMAIN leases /\ leases' = [i \in DOMAIN leases |-> leases'[i]]
  BY <1>2
<1>7. LeasesSound(leases')
  BY <1>1, <1>4, <1>5, <1>6, UpdateSound
<1> QED BY <1>2, <1>4, <1>5, <1>6, <1>7

LEMMA LeasesKept == BrokerInv /\ [Next]_vars => LeasesSound(leases') /\ IdsSound'
<1> SUFFICES ASSUME BrokerInv, [Next]_vars PROVE LeasesSound(leases') /\ IdsSound'
  OBVIOUS
<1>1. LeaseEffect
  BY LeaseEffects
<1>2. LeasesSound(leases) /\ LeasesSound(Live(leases)) /\ IdsSound
  BY LiveSound DEF BrokerInv
<1>3. CASE leases' = leases /\ (lid' = lid \/ \E t \in Tenant : lid' = [lid EXCEPT ![t] = NoId])
  BY <1>2, <1>3 DEF IdsSound
<1>4. CASE leases' = Live(leases) /\ lid' = lid
  BY <1>2, <1>4 DEF IdsSound
<1>5. ASSUME NEW t \in Tenant, Granting(t) PROVE LeasesSound(leases') /\ IdsSound'
  <2> DEFINE ls == Live(leases)
  <2>1. PICK mb \in Nat \ {0} : /\ SlotFree(ls)
                                /\ leases' = Append(ls, NewLease(ls, t, mb))
                                /\ lid' = [lid EXCEPT ![t] = NewId(ls, t)]
    BY <1>5 DEF Granting
  <2> HIDE DEF ls
  <2>2. LeasesSound(leases')
    BY <1>2, <2>1, AppendSound DEF ls
  <2>3. PICK n \in 1..(NLeases + 1) : NewId(ls, t) = <<t, n>>
    BY <1>2, NewIdFresh DEF ls
  <2>4. n \in Nat /\ <<t, n>> \in Tenant \X Nat /\ <<t, n>>[1] = t
    BY SizesAssumption
  <2>5. \A u \in Tenant : lid'[u] = IF u = t THEN <<t, n>> ELSE lid[u]
    BY <1>2, <2>1, <2>3 DEF IdsSound
  <2>6. lid' \in [Tenant -> (Tenant \X Nat) \cup {NoId}]
    BY <1>2, <2>1, <2>3, <2>4 DEF IdsSound
  <2>7. \A u \in Tenant : lid'[u] # NoId => lid'[u][1] = u
    BY <1>2, <2>4, <2>5 DEF IdsSound
  <2> QED BY <2>2, <2>6, <2>7 DEF IdsSound
<1>6. ASSUME NEW t \in Tenant, ovram_release(t) PROVE LeasesSound(leases') /\ IdsSound'
  <2> DEFINE I == {i \in DOMAIN leases : leases[i].id # lid[t]}
  <2>1. I \in SUBSET DOMAIN leases /\ leases' = SelectAt(leases, I)
    BY <1>6 DEF ovram_release
  <2>2. LeasesSound(leases')
    <3> HIDE DEF I
    <3> QED BY <1>2, <2>1, SelectSound
  <2>3. lid' = [lid EXCEPT ![t] = NoId]
    BY <1>6 DEF ovram_release
  <2> QED BY <1>2, <2>2, <2>3 DEF IdsSound
<1>7. ASSUME NEW t \in Tenant, ovram_renew(t) PROVE LeasesSound(leases') /\ IdsSound'
  BY <1>2, <1>7, RenewSound DEF IdsSound
<1>8. CASE Tick
  BY <1>2, <1>8, TickSound DEF IdsSound
<1> QED BY <1>1, <1>3, <1>4, <1>5, <1>6, <1>7, <1>8 DEF LeaseEffect
-----------------------------------------------------------------------------
(* The queue                                                                *)

Waiting(k) == {u \in registered : req[u].tier = k}

\* A step of t that does not touch the queue, and keeps t's place in it if it
\* has one, keeps the counters.
LEMMA QueueUntouched ==
    ASSUME QueueSound, NEW t \in Tenant, UNCHANGED <<waiters, waiting, registered>>,
           pc' \in [Tenant -> PC],
           \A u \in Tenant : u # t => pc'[u] = pc[u] /\ req'[u] = req[u],
           t \in registered => pc'[t] \in Looping /\ req'[t] = req[t]
    PROVE  QueueSound'
<1>1. \A u \in registered : pc'[u] \in Looping /\ req'[u] = req[u]
  BY DEF QueueSound, WaitersMatch
<1>2. \A k \in Tier : {u \in registered' : req'[u].tier = k} = {u \in registered : req[u].tier = k}
  BY <1>1
<1>3. \A k \in Tier : waiting'[k] = Cardinality({u \in registered' : req'[u].tier = k})
  BY <1>2 DEF QueueSound, WaitersMatch
<1>4. registered' \subseteq {u \in Tenant : pc'[u] \in Looping}
  BY <1>1 DEF QueueSound, WaitersMatch
<1> QED BY <1>3, <1>4 DEF QueueSound, WaitersMatch

LEMMA QueueLeft ==
    ASSUME QueueSound, CallsSound, NEW t \in Tenant, Leave(t), pc' \in [Tenant -> PC],
           \A u \in Tenant : u # t => pc'[u] = pc[u] /\ req'[u] = req[u]
    PROVE  QueueSound'
<1> DEFINE I == {i \in DOMAIN waiters : waiters[i] # t}
<1>1. /\ registered' = registered \ {t}
      /\ waiting' = [waiting EXCEPT ![req[t].tier] = IF t \in registered THEN @ - 1 ELSE @]
      /\ waiters' = SelectAt(waiters, I)
  BY DEF Leave
<1>2. /\ waiters \in Seq(Tenant) /\ Len(waiters) \in Nat /\ DOMAIN waiters = 1..Len(waiters)
      /\ I \in SUBSET (1..Len(waiters))
  BY DEF QueueSound
<1>3. \A i \in I : i \in DOMAIN waiters /\ waiters[i] # t
  OBVIOUS
<1> HIDE DEF I
<1>4. Selection(Tenant, waiters, I, waiters')
  BY <1>1, <1>2, SelectAtElements
<1>5. waiters' \in Seq(Tenant) /\ Len(waiters') <= NWaiters
  BY <1>2, <1>4, SizesAssumption DEF Selection, QueueSound
<1>6. \A i \in DOMAIN waiters' : waiters'[i] \in registered'
  BY <1>1, <1>3, <1>4 DEF Selection, QueueSound, WaitersMatch
<1>7. \A i, j \in DOMAIN waiters' : waiters'[i] = waiters'[j] => i = j
  <2> TAKE i, j \in DOMAIN waiters'
  <2> SUFFICES ASSUME i # j PROVE waiters'[i] # waiters'[j]
    OBVIOUS
  <2>1. PICK k, m \in I : k # m /\ waiters'[i] = waiters[k] /\ waiters'[j] = waiters[m]
    BY <1>4 DEF Selection
  <2> QED BY <2>1, <1>3 DEF QueueSound, WaitersMatch
<1>8. registered' \subseteq {u \in Tenant : pc'[u] \in Looping}
  BY <1>1 DEF QueueSound, WaitersMatch
<1>9. req[t].tier \in Tier
  BY RequestFields
<1>10. ASSUME NEW k \in Tier
       PROVE  /\ {u \in registered' : req'[u].tier = k} = Waiting(k) \ {t}
              /\ waiting[k] = Cardinality(Waiting(k)) /\ waiting[k] \in Nat
              /\ IsFiniteSet(Waiting(k))
  <2>1. \A u \in registered' : u \in registered /\ u # t /\ req'[u] = req[u]
    BY <1>1 DEF QueueSound
  <2>2. {u \in registered' : req'[u].tier = k} = Waiting(k) \ {t}
    BY <1>1, <2>1 DEF Waiting
  <2>3. Waiting(k) \in SUBSET Tenant
    BY DEF Waiting, QueueSound
  <2>4. IsFiniteSet(Waiting(k))
    BY <2>3, FS_Subset, SizesAssumption
  <2> QED BY <2>2, <2>4 DEF Waiting, QueueSound, WaitersMatch
<1>11. ASSUME NEW k \in Tier
       PROVE  waiting'[k] \in Nat /\ waiting'[k] = Cardinality(Waiting(k) \ {t})
  <2>1. waiting'[k] = IF k = req[t].tier /\ t \in registered THEN waiting[k] - 1 ELSE waiting[k]
    BY <1>1, <1>9 DEF QueueSound
  <2>2. t \in Waiting(k) <=> (t \in registered /\ k = req[t].tier)
    BY DEF Waiting
  <2>3. Cardinality(Waiting(k) \ {t})
            = IF t \in Waiting(k) THEN Cardinality(Waiting(k)) - 1 ELSE Cardinality(Waiting(k))
    BY <1>10, FS_RemoveElement
  <2>4. Cardinality(Waiting(k) \ {t}) \in Nat
    BY <1>10, FS_RemoveElement, FS_CardinalityType
  <2>5. waiting[k] = Cardinality(Waiting(k))
    BY <1>10
  <2> QED BY <2>1, <2>2, <2>3, <2>4, <2>5
<1>12. waiting' \in [Tier -> Nat]
  <2>1. waiting' = [k \in Tier |-> waiting'[k]]
    BY <1>1 DEF QueueSound
  <2> QED BY <2>1, <1>11
<1>13. \A k \in Tier : waiting'[k] = Cardinality({u \in registered' : req'[u].tier = k})
  BY <1>10, <1>11, Zenon
<1>14. registered' \subseteq Tenant
  BY <1>1 DEF QueueSound
<1>15. WaitersMatch'
  BY <1>6, <1>7, <1>8, <1>13 DEF WaitersMatch
<1> QED BY <1>5, <1>12, <1>14, <1>15 DEF QueueSound

LEMMA QueueJoined ==
    ASSUME QueueSound, CallsSound, NEW t \in Tenant, Register(t), req' = req,
           pc' \in [Tenant -> PC], pc'[t] \in Looping,
           \A u \in Tenant : u # t => pc'[u] = pc[u]
    PROVE  QueueSound'
<1>1. /\ registered' = registered \cup {t}
      /\ waiting' = [waiting EXCEPT ![req[t].tier] = IF t \in registered THEN @ ELSE @ + 1]
      /\ waiters' = IF t \notin registered /\ Len(waiters) < NWaiters
                    THEN Append(waiters, t) ELSE waiters
  BY DEF Register
<1>2. waiters \in Seq(Tenant) /\ Len(waiters) \in Nat /\ DOMAIN waiters = 1..Len(waiters)
  BY DEF QueueSound
<1>5. /\ waiters' \in Seq(Tenant) /\ Len(waiters') <= NWaiters
      /\ \A i \in DOMAIN waiters' : waiters'[i] \in registered'
      /\ \A i, j \in DOMAIN waiters' : waiters'[i] = waiters'[j] => i = j
  <2>1. CASE t \notin registered /\ Len(waiters) < NWaiters
    <3> DEFINE ws == Append(waiters, t)
    <3>1. /\ ws \in Seq(Tenant) /\ Len(ws) = Len(waiters) + 1
          /\ DOMAIN ws = 1..(Len(waiters) + 1)
          /\ \A i \in DOMAIN ws : IF i \in DOMAIN waiters THEN ws[i] = waiters[i]
                                  ELSE ws[i] = t /\ i = Len(waiters) + 1
      BY <1>2
    <3>2. waiters' = ws
      BY <1>1, <2>1
    <3> HIDE DEF ws
    <3>3. Len(ws) <= NWaiters
      BY <1>2, <2>1, <3>1, SizesAssumption
    <3>4. \A i \in DOMAIN ws : ws[i] \in registered'
      BY <1>1, <3>1 DEF QueueSound, WaitersMatch
    <3>5. \A i \in DOMAIN waiters : waiters[i] # t
      BY <2>1 DEF QueueSound, WaitersMatch
    <3>6. \A i, j \in DOMAIN ws : ws[i] = ws[j] => i = j
      <4> TAKE i, j \in DOMAIN ws
      <4>1. CASE i \in DOMAIN waiters /\ j \in DOMAIN waiters
        BY <4>1, <3>1 DEF QueueSound, WaitersMatch
      <4>2. CASE i \in DOMAIN waiters /\ j \notin DOMAIN waiters
        BY <4>2, <3>1, <3>5
      <4>3. CASE i \notin DOMAIN waiters /\ j \in DOMAIN waiters
        BY <4>3, <3>1, <3>5
      <4>4. CASE i \notin DOMAIN waiters /\ j \notin DOMAIN waiters
        BY <4>4, <3>1
      <4> QED BY <4>1, <4>2, <4>3, <4>4
    <3> QED BY <3>1, <3>2, <3>3, <3>4, <3>6
  <2>2. CASE ~(t \notin registered /\ Len(waiters) < NWaiters)
    BY <1>1, <2>2 DEF QueueSound, WaitersMatch
  <2> QED BY <2>1, <2>2
<1>6. req[t].tier \in Tier
  BY RequestFields
<1>7. ASSUME NEW k \in Tier
      PROVE  waiting'[k] \in Nat /\ waiting'[k] = Cardinality({u \in registered' : req'[u].tier = k})
  <2> DEFINE new == {u \in registered' : req'[u].tier = k}
  <2>1. waiting[k] = Cardinality(Waiting(k)) /\ waiting[k] \in Nat
    BY DEF Waiting, QueueSound, WaitersMatch
  <2>2. Waiting(k) \in SUBSET Tenant
    BY DEF Waiting, QueueSound
  <2>3. IsFiniteSet(Waiting(k))
    BY <2>2, FS_Subset, SizesAssumption
  <2>4. waiting'[k] = IF k = req[t].tier /\ t \notin registered THEN waiting[k] + 1 ELSE waiting[k]
    BY <1>1, <1>6 DEF QueueSound
  <2>5. CASE k = req[t].tier
    <3>1. new = Waiting(k) \cup {t}
      BY <1>1, <2>5 DEF Waiting
    <3>2. t \in Waiting(k) <=> t \in registered
      BY <2>5 DEF Waiting
    <3>3. Cardinality(Waiting(k) \cup {t})
            = IF t \in Waiting(k) THEN Cardinality(Waiting(k)) ELSE Cardinality(Waiting(k)) + 1
      BY <2>3, FS_AddElement
    <3>4. waiting'[k] \in Nat /\ waiting'[k] = Cardinality(Waiting(k) \cup {t})
      BY <2>1, <2>4, <2>5, <3>2, <3>3
    <3> HIDE DEF new
    <3>5. waiting'[k] \in Nat /\ waiting'[k] = Cardinality(new)
      BY <3>1, <3>4, Zenon
    <3> QED BY <3>5 DEF new
  <2>6. CASE k # req[t].tier
    <3>1. new = Waiting(k)
      BY <1>1, <2>6 DEF Waiting
    <3> HIDE DEF new
    <3>5. waiting'[k] \in Nat /\ waiting'[k] = Cardinality(new)
      BY <2>1, <2>4, <2>6, <3>1, Zenon
    <3> QED BY <3>5 DEF new
  <2> QED BY <2>5, <2>6
<1>8. waiting' \in [Tier -> Nat]
  <2>1. waiting' = [k \in Tier |-> waiting'[k]]
    BY <1>1 DEF QueueSound
  <2>2. \A k \in Tier : waiting'[k] \in Nat
    BY <1>7
  <2> QED BY <2>1, <2>2
<1>9. registered' \subseteq Tenant
  BY <1>1 DEF QueueSound
<1>10. \A u \in registered' : pc'[u] \in Looping
  BY <1>1, <1>9 DEF QueueSound, WaitersMatch
<1>11. registered' \subseteq {u \in Tenant : pc'[u] \in Looping}
  BY <1>9, <1>10
<1>12. \A k \in Tier : waiting'[k] = Cardinality({u \in registered' : req'[u].tier = k})
  BY <1>7
<1>13. WaitersMatch'
  BY <1>5, <1>11, <1>12 DEF WaitersMatch
<1> QED BY <1>5, <1>8, <1>9, <1>13 DEF QueueSound
LEMMA QueueKept == BrokerInv /\ [Next]_vars => QueueSound'
<1> SUFFICES ASSUME BrokerInv, [Next]_vars PROVE QueueSound'
  OBVIOUS
<1>0. /\ QueueSound /\ CallsSound /\ pc \in [Tenant -> PC]
      /\ \A u \in registered : pc[u] \in Looping
  BY DEF BrokerInv, QueueSound, WaitersMatch
<1>a. req \in [Tenant -> Request \cup {NoRequest}]
  BY DEF BrokerInv, CallsSound
<1> USE DEF broker, device, locals
<1>1. ASSUME NEW t \in Tenant, NEW r \in Request, Ask(t, r) PROVE QueueSound'
  <2>1. /\ UNCHANGED <<waiters, waiting, registered>> /\ pc[t] = "idle"
        /\ pc' = [pc EXCEPT ![t] = "refresh"] /\ req' = [req EXCEPT ![t] = r]
    BY <1>1 DEF Ask, Goto
  <2>2. /\ pc' \in [Tenant -> PC] /\ t \notin registered
        /\ \A u \in Tenant : u # t => pc'[u] = pc[u] /\ req'[u] = req[u]
    BY <1>0, <1>a, <2>1 DEF PC, Looping
  <2> QED BY <1>0, <2>1, <2>2, QueueUntouched
<1>2. ASSUME NEW t \in Tenant,
             \/ RefreshRead(t) \/ RefreshFails(t) \/ ovram_set_procs(t) \/ device_free_mb_now(t)
             \/ PressureFrees(t) \/ PressureFreesNothing(t) \/ Wake(t)
      PROVE  QueueSound'
  <2>1. UNCHANGED <<waiters, waiting, registered, req>>
    BY <1>2 DEF RefreshRead, RefreshFails, ovram_set_procs, device_free_mb_now, PressureFrees,
                PressureFreesNothing, Wake
  <2>2. \E w \in Looping \cup Forcing : /\ pc' = [pc EXCEPT ![t] = w]
                                        /\ pc[t] \in Looping => w \in Looping
    BY <1>2 DEF RefreshRead, RefreshFails, ovram_set_procs, device_free_mb_now, PressureFrees,
                PressureFreesNothing, Wake, Goto, Looping, Forcing
  <2>3. /\ pc' \in [Tenant -> PC]
        /\ \A u \in Tenant : u # t => pc'[u] = pc[u]
        /\ pc[t] \in Looping => pc'[t] \in Looping
    BY <1>0, <2>2 DEF PC
  <2>4. \A u \in Tenant : req'[u] = req[u]
    BY <2>1
  <2> QED BY <1>0, <2>1, <2>3, <2>4, QueueUntouched
<1>3. ASSUME NEW t \in Tenant, ForceStart(t) \/ GiveUp(t) \/ ovram_lease_force(t)
      PROVE  QueueSound'
  <2>1. UNCHANGED <<waiters, waiting, registered>> /\ pc[t] \in {"refused", "force"}
    BY <1>3 DEF ForceStart, GiveUp, ovram_lease_force
  <2>2. /\ \E w \in PC : pc' = [pc EXCEPT ![t] = w]
        /\ req' = req \/ req' = [req EXCEPT ![t] = NoRequest]
    BY <1>3 DEF ForceStart, GiveUp, ovram_lease_force, Goto, Return, PC, Forcing, Holding
  <2>3. /\ pc' \in [Tenant -> PC] /\ t \notin registered
        /\ \A u \in Tenant : u # t => pc'[u] = pc[u] /\ req'[u] = req[u]
    BY <1>0, <1>a, <2>1, <2>2 DEF Looping
  <2> QED BY <1>0, <2>1, <2>3, QueueUntouched
<1>4. ASSUME NEW t \in Tenant, LeaseGranted(t) \/ LeaseRefused(t) PROVE QueueSound'
  <2>1. Leave(t)
    BY <1>4 DEF LeaseGranted, LeaseRefused
  <2>2. \E w \in PC : pc' = [pc EXCEPT ![t] = w]
    BY <1>4 DEF LeaseGranted, LeaseRefused, Return, Goto, PC, Holding
  <2>3. \E r : req' = [req EXCEPT ![t] = r]
    BY <1>4 DEF LeaseGranted, LeaseRefused, Return
  <2>4. /\ pc' \in [Tenant -> PC]
        /\ \A u \in Tenant : u # t => pc'[u] = pc[u] /\ req'[u] = req[u]
    BY <1>0, <1>a, <2>2, <2>3
  <2> QED BY <1>0, <2>1, <2>4, QueueLeft
<1>5. ASSUME NEW t \in Tenant, LeaseWaits(t) PROVE QueueSound'
  <2>1. Register(t) /\ req' = req
    BY <1>5 DEF LeaseWaits
  <2>2. \E w \in Looping : pc' = [pc EXCEPT ![t] = w]
    BY <1>5 DEF LeaseWaits, Goto, Looping
  <2>3. /\ pc' \in [Tenant -> PC] /\ pc'[t] \in Looping
        /\ \A u \in Tenant : u # t => pc'[u] = pc[u]
    BY <1>0, <2>2 DEF PC
  <2> QED BY <1>0, <2>1, <2>3, QueueJoined
<1>6. ASSUME NEW t \in Tenant, HolderStep(t) \/ ovram_renew(t) \/ Materialise(t) \/ Crash(t)
      PROVE  QueueSound'
  <2>1. UNCHANGED <<waiters, waiting, registered, req>> /\ pc[t] \in Holding
    BY <1>6 DEF HolderStep, ovram_release, FreeMemory, ovram_renew, Materialise, Crash
  <2>2. pc' = pc \/ pc' = [pc EXCEPT ![t] = "idle"]
    BY <1>6 DEF HolderStep, ovram_release, FreeMemory, ovram_renew, Materialise, Crash, Goto
  <2>3. /\ pc' \in [Tenant -> PC] /\ t \notin registered
        /\ \A u \in Tenant : u # t => pc'[u] = pc[u] /\ req'[u] = req[u]
    BY <1>0, <2>1, <2>2 DEF Looping, Holding, PC
  <2> QED BY <1>0, <2>1, <2>3, QueueUntouched
<1>7. CASE \/ \E o \in Reserver, mb \in ReserveMb : ovram_reserve(o, mb)
           \/ ovram_snapshot \/ ScratchChanges \/ Tick \/ UNCHANGED vars
  <2>1. UNCHANGED <<waiters, waiting, registered, pc, req>>
    BY <1>7 DEF ovram_reserve, ovram_snapshot, ScratchChanges, Tick, vars
  <2> QED BY <1>0, <2>1 DEF QueueSound, WaitersMatch
<1> QED BY <1>1, <1>2, <1>3, <1>4, <1>5, <1>6, <1>7 DEF Next, Step

-----------------------------------------------------------------------------
(* The device's memory                                                      *)

\* Holders free what they hold and allocate from what is free.
LEMMA MemoryKept == MemorySound /\ [Next]_vars => MemorySound'
<1> SUFFICES ASSUME MemorySound, [Next]_vars PROVE MemorySound'
  OBVIOUS
<1>0. /\ mat \in [Tenant -> Nat] /\ idle \in Nat /\ scratch \in Nat /\ IsFiniteSet(Tenant)
      /\ Total \in Nat /\ Allocated <= Total /\ Allocated = idle + scratch + Sum(mat, Tenant)
  BY SizesAssumption DEF MemorySound, Allocated
<1>1. Sum(mat, Tenant) \in Nat
  <2>1. \A x \in Tenant : mat[x] \in Nat
    BY <1>0
  <2> QED BY <1>0, <2>1, SumNat
<1>2. ASSUME UNCHANGED mat, idle' \in Nat, scratch' \in Nat,
             idle' + scratch' + Sum(mat, Tenant) <= Total
      PROVE  MemorySound'
  BY <1>0, <1>2 DEF MemorySound, Allocated
<1>3. ASSUME NEW t \in Tenant, NEW m \in Nat, mat' = [mat EXCEPT ![t] = m],
             UNCHANGED <<idle, scratch>>, Allocated - mat[t] + m <= Total
      PROVE  MemorySound'
  <2>1. /\ mat' \in [Tenant -> Nat] /\ mat'[t] = m
        /\ \A x \in Tenant : mat[x] \in Int /\ mat'[x] \in Int
        /\ \A x \in Tenant : x # t => mat'[x] = mat[x]
    BY <1>0, <1>3
  <2>2. Sum(mat', Tenant) = Sum(mat, Tenant) - mat[t] + m
    BY <1>0, <2>1, SumUpdate
  <2>3. mat[t] \in Nat
    BY <1>0
  <2>4. Allocated' <= Total
    BY <1>0, <1>1, <1>3, <2>2, <2>3 DEF Allocated
  <2> QED BY <1>0, <1>3, <2>1, <2>4 DEF MemorySound
<1> USE DEF broker, device, locals
<1>4. CASE UNCHANGED device
  BY <1>0, <1>2, <1>4
<1>5. ASSUME NEW t \in Tenant, PressureFrees(t) PROVE MemorySound'
  BY <1>0, <1>1, <1>2, <1>5 DEF PressureFrees
<1>6. ASSUME NEW t \in Tenant, Materialise(t) PROVE MemorySound'
  <2>1. mat' = [mat EXCEPT ![t] = mat[t] + 1] /\ UNCHANGED <<idle, scratch>> /\ Allocated + 1 <= Total
    BY <1>0, <1>1, <1>6 DEF Materialise, Free
  <2>2. mat[t] \in Nat /\ mat[t] + 1 \in Nat /\ Allocated \in Nat
    BY <1>0, <1>1
  <2>3. Allocated - mat[t] + (mat[t] + 1) <= Total
    BY <1>0, <2>1, <2>2
  <2> QED BY <1>3, <2>1, <2>2, <2>3
<1>7. ASSUME NEW t \in Tenant, FreeMemory(t) \/ Crash(t) PROVE MemorySound'
  <2>1. mat' = [mat EXCEPT ![t] = 0] /\ UNCHANGED <<idle, scratch>>
    BY <1>7 DEF FreeMemory, Crash
  <2>2. mat[t] \in Nat /\ Allocated \in Nat /\ 0 \in Nat
    BY <1>0, <1>1
  <2>3. Allocated - mat[t] + 0 <= Total
    BY <1>0, <2>2
  <2> QED BY <1>3, <2>1, <2>2, <2>3
<1>8. CASE ScratchChanges
  <2>1. PICK s \in 0..Scratch : s <= Free + scratch /\ scratch' = s /\ UNCHANGED <<mat, idle>>
    BY <1>8 DEF ScratchChanges
  <2>2. s \in Nat
    BY SizesAssumption
  <2>3. idle + s + Sum(mat, Tenant) <= Total
    BY <1>0, <1>1, <2>1, <2>2 DEF Free
  <2> QED BY <1>0, <1>2, <2>1, <2>2, <2>3
<1>9. ASSUME NEW t \in Tenant, NEW r \in Request, Ask(t, r) PROVE UNCHANGED device
  BY <1>9 DEF Ask
<1>10. ASSUME NEW t \in Tenant,
              \/ RefreshRead(t) \/ RefreshFails(t) \/ ovram_set_procs(t) \/ device_free_mb_now(t)
              \/ LeaseGranted(t) \/ LeaseRefused(t) \/ LeaseWaits(t)
              \/ PressureFreesNothing(t) \/ Wake(t)
              \/ ForceStart(t) \/ GiveUp(t) \/ ovram_lease_force(t)
              \/ ovram_release(t) \/ ovram_renew(t)
       PROVE  UNCHANGED device
  BY <1>10 DEF RefreshRead, RefreshFails, ovram_set_procs, device_free_mb_now, LeaseGranted,
       LeaseRefused, LeaseWaits, PressureFreesNothing, Wake, ForceStart, GiveUp,
       ovram_lease_force, ovram_release, ovram_renew
<1>11. ASSUME \/ \E o \in Reserver, mb \in ReserveMb : ovram_reserve(o, mb)
              \/ ovram_snapshot \/ Tick \/ UNCHANGED vars
       PROVE  UNCHANGED device
  BY <1>11 DEF ovram_reserve, ovram_snapshot, Tick, vars
<1> QED BY <1>4, <1>5, <1>6, <1>7, <1>8, <1>9, <1>10, <1>11 DEF Next, Step, HolderStep

-----------------------------------------------------------------------------
(* What the callers remember                                                *)

LEMMA LocalsKept == BrokerInv /\ [Next]_vars => CallsSound' /\ ProcsSound' /\ MiscSound'
<1> SUFFICES ASSUME BrokerInv, [Next]_vars PROVE CallsSound' /\ ProcsSound' /\ MiscSound'
  OBVIOUS
<1> DEFINE Table == [Listed -> Nat]
<1>0. /\ req \in [Tenant -> Request \cup {NoRequest}]
      /\ procs \in [valid : BOOLEAN, used : Table] /\ table \in [Tenant -> Table]
      /\ reserved \in [Reserver -> Nat] /\ dfree \in [Tenant -> Nat \cup {-1}]
      /\ waited \in [Tenant -> 0..WaitCap]
  BY DEF BrokerInv, CallsSound, ProcsSound, MiscSound
<1>1. Usage \in Table /\ NoTable \in Table /\ Free \in Nat
  BY UsageNat DEF BrokerInv, NoTable
<1>2. WaitCap \in Nat /\ ReserveMb \subseteq Nat
  BY SizesAssumption
<1> HIDE DEF Table
<1> USE DEF broker, device, locals
<1>3. CallsSound'
  <2>1. \/ req' = req
        \/ \E t \in Tenant, r \in Request \cup {NoRequest} : req' = [req EXCEPT ![t] = r]
    <3>1. ASSUME NEW t \in Tenant, NEW r \in Request, Ask(t, r) PROVE req' = [req EXCEPT ![t] = r]
      BY <3>1 DEF Ask
    <3>2. ASSUME NEW t \in Tenant, Step(t)
          PROVE  req' = req \/ \E r \in Request \cup {NoRequest} : req' = [req EXCEPT ![t] = r]
      BY <3>2, <1>0 DEF Step, RefreshRead, RefreshFails, ovram_set_procs, device_free_mb_now,
         LeaseGranted, LeaseRefused, LeaseWaits, PressureFrees, PressureFreesNothing, Wake,
         ForceStart, GiveUp, ovram_lease_force, Return
    <3>3. ASSUME NEW t \in Tenant, HolderStep(t) \/ ovram_renew(t) \/ Materialise(t) \/ Crash(t)
          PROVE  req' = req
      BY <3>3 DEF HolderStep, ovram_release, FreeMemory, ovram_renew, Materialise, Crash
    <3>4. ASSUME \/ \E o \in Reserver, mb \in ReserveMb : ovram_reserve(o, mb)
                 \/ ovram_snapshot \/ ScratchChanges \/ Tick \/ UNCHANGED vars
          PROVE  req' = req
      BY <3>4 DEF ovram_reserve, ovram_snapshot, ScratchChanges, Tick, vars
    <3> QED BY <3>1, <3>2, <3>3, <3>4 DEF Next
  <2> QED BY <1>0, <2>1 DEF CallsSound
<1>4. ProcsSound'
  <2> SUFFICES procs' \in [valid : BOOLEAN, used : Table] /\ table' \in [Tenant -> Table]
    BY DEF ProcsSound, Table
  <2>1. ASSUME NEW t \in Tenant, RefreshRead(t) \/ ovram_set_procs(t)
        PROVE  procs' \in [valid : BOOLEAN, used : Table] /\ table' \in [Tenant -> Table]
    <3>1. CASE RefreshRead(t)
      BY <1>0, <1>1, <3>1 DEF RefreshRead
    <3>2. CASE ovram_set_procs(t)
      <4>1. /\ procs' = [valid |-> TRUE, used |-> table[t]]
            /\ table' = [table EXCEPT ![t] = NoTable]
        BY <3>2 DEF ovram_set_procs
      <4>2. table[t] \in Table
        BY <1>0
      <4> QED BY <1>0, <1>1, <4>1, <4>2
    <3> QED BY <2>1, <3>1, <3>2
  <2>2. CASE ovram_snapshot
    BY <1>0, <1>1, <2>2 DEF ovram_snapshot
  <2>3. CASE UNCHANGED <<procs, table>>
    BY <1>0, <2>3
  <2>4. ASSUME NEW t \in Tenant, NEW r \in Request, Ask(t, r) PROVE UNCHANGED <<procs, table>>
    BY <2>4 DEF Ask
  <2>5. ASSUME NEW t \in Tenant,
               \/ RefreshFails(t) \/ device_free_mb_now(t)
               \/ LeaseGranted(t) \/ LeaseRefused(t) \/ LeaseWaits(t)
               \/ PressureFrees(t) \/ PressureFreesNothing(t) \/ Wake(t)
               \/ ForceStart(t) \/ GiveUp(t) \/ ovram_lease_force(t)
               \/ HolderStep(t) \/ ovram_renew(t) \/ Materialise(t) \/ Crash(t)
        PROVE  UNCHANGED <<procs, table>>
    BY <2>5 DEF RefreshFails, device_free_mb_now, LeaseGranted, LeaseRefused, LeaseWaits,
       PressureFrees, PressureFreesNothing, Wake, ForceStart, GiveUp, ovram_lease_force,
       HolderStep, ovram_release, FreeMemory, ovram_renew, Materialise, Crash
  <2>6. ASSUME \/ \E o \in Reserver, mb \in ReserveMb : ovram_reserve(o, mb)
               \/ ScratchChanges \/ Tick \/ UNCHANGED vars
        PROVE  UNCHANGED <<procs, table>>
    BY <2>6 DEF ovram_reserve, ScratchChanges, Tick, vars
  <2> QED BY <2>1, <2>2, <2>3, <2>4, <2>5, <2>6 DEF Next, Step
<1>5. MiscSound'
  <2>1. reserved' \in [Reserver -> Nat]
    <3>1. ASSUME NEW o \in Reserver, NEW mb \in ReserveMb, ovram_reserve(o, mb)
          PROVE  reserved' \in [Reserver -> Nat]
      BY <1>0, <1>2, <3>1 DEF ovram_reserve
    <3>2. ASSUME NEW t \in Tenant, NEW r \in Request, Ask(t, r) PROVE UNCHANGED reserved
      BY <3>2 DEF Ask
    <3>3. ASSUME NEW t \in Tenant,
                 Step(t) \/ HolderStep(t) \/ ovram_renew(t) \/ Materialise(t) \/ Crash(t)
          PROVE  UNCHANGED reserved
      BY <3>3 DEF Step, RefreshRead, ovram_set_procs, RefreshFails, device_free_mb_now,
         LeaseGranted, LeaseRefused, LeaseWaits,
         PressureFrees, PressureFreesNothing, Wake, ForceStart, GiveUp, ovram_lease_force,
         HolderStep, ovram_release, FreeMemory, ovram_renew, Materialise, Crash
    <3>4. ASSUME ovram_snapshot \/ ScratchChanges \/ Tick \/ UNCHANGED vars
          PROVE  UNCHANGED reserved
      BY <3>4 DEF ovram_snapshot, ScratchChanges, Tick, vars
    <3> QED BY <1>0, <3>1, <3>2, <3>3, <3>4 DEF Next
  <2>2. dfree' = dfree \/ \E t \in Tenant, f \in Nat \cup {-1} : dfree' = [dfree EXCEPT ![t] = f]
    <3>1. ASSUME NEW t \in Tenant, NEW r \in Request, Ask(t, r) PROVE UNCHANGED dfree
      BY <3>1 DEF Ask
    <3>2. ASSUME NEW t \in Tenant, device_free_mb_now(t)
          PROVE  \E f \in Nat \cup {-1} : dfree' = [dfree EXCEPT ![t] = f]
      <4>1. PICK f \in {Free} \cup (IF NvmlFails THEN {-1} ELSE {}) : dfree' = [dfree EXCEPT ![t] = f]
        BY <3>2 DEF device_free_mb_now
      <4> QED BY <1>1, <4>1
    <3>3. ASSUME NEW t \in Tenant, LeaseGranted(t) \/ LeaseRefused(t) \/ LeaseWaits(t) \/ GiveUp(t)
                                   \/ ovram_lease_force(t)
          PROVE  dfree' = [dfree EXCEPT ![t] = -1]
      BY <3>3 DEF LeaseGranted, LeaseRefused, LeaseWaits, GiveUp, ovram_lease_force, Return
    <3>4. ASSUME NEW t \in Tenant,
                 \/ RefreshRead(t) \/ ovram_set_procs(t) \/ RefreshFails(t)
                 \/ PressureFrees(t) \/ PressureFreesNothing(t) \/ Wake(t) \/ ForceStart(t)
                 \/ HolderStep(t) \/ ovram_renew(t) \/ Materialise(t) \/ Crash(t)
          PROVE  UNCHANGED dfree
      BY <3>4 DEF RefreshRead, ovram_set_procs, RefreshFails, PressureFrees,
         PressureFreesNothing, Wake, ForceStart, HolderStep, ovram_release, FreeMemory,
         ovram_renew, Materialise, Crash
    <3>5. ASSUME \/ \E o \in Reserver, mb \in ReserveMb : ovram_reserve(o, mb)
                 \/ ovram_snapshot \/ ScratchChanges \/ Tick \/ UNCHANGED vars
          PROVE  UNCHANGED dfree
      BY <3>5 DEF ovram_reserve, ovram_snapshot, ScratchChanges, Tick, vars
    <3>6. -1 \in Nat \cup {-1}
      OBVIOUS
    <3> QED BY <3>1, <3>2, <3>3, <3>4, <3>5, <3>6 DEF Next, Step
  <2>3. waited' \in [Tenant -> 0..WaitCap]
    <3>1. CASE Tick
      <4>1. waited' = [t \in Tenant |-> IF pc[t] = "sleep" THEN Least(waited[t] + 1, WaitCap) ELSE waited[t]]
        BY <3>1 DEF Tick
      <4>2. \A t \in Tenant : Least(waited[t] + 1, WaitCap) \in 0..WaitCap /\ waited[t] \in 0..WaitCap
        BY <1>0, <1>2 DEF Least
      <4> QED BY <4>1, <4>2
    <3>2. ASSUME NEW t \in Tenant, waited' = [waited EXCEPT ![t] = 0]
          PROVE  waited' \in [Tenant -> 0..WaitCap]
      BY <1>0, <1>2, <3>2
    <3>3. ASSUME NEW t \in Tenant, NEW r \in Request, Ask(t, r) PROVE UNCHANGED waited
      BY <3>3 DEF Ask
    <3>4. ASSUME NEW t \in Tenant, LeaseGranted(t) \/ LeaseRefused(t) \/ GiveUp(t) \/ ovram_lease_force(t)
          PROVE  waited' = [waited EXCEPT ![t] = 0]
      BY <3>4 DEF LeaseGranted, LeaseRefused, GiveUp, ovram_lease_force, Return
    <3>5. ASSUME NEW t \in Tenant,
                 \/ RefreshRead(t) \/ ovram_set_procs(t) \/ RefreshFails(t) \/ device_free_mb_now(t)
                 \/ LeaseWaits(t)
                 \/ PressureFrees(t) \/ PressureFreesNothing(t) \/ Wake(t) \/ ForceStart(t)
                 \/ HolderStep(t) \/ ovram_renew(t) \/ Materialise(t) \/ Crash(t)
          PROVE  UNCHANGED waited
      BY <3>5 DEF RefreshRead, ovram_set_procs, RefreshFails, device_free_mb_now, LeaseWaits,
         PressureFrees, PressureFreesNothing, Wake, ForceStart, HolderStep, ovram_release,
         FreeMemory, ovram_renew, Materialise, Crash
    <3>6. ASSUME \/ \E o \in Reserver, mb \in ReserveMb : ovram_reserve(o, mb)
                 \/ ovram_snapshot \/ ScratchChanges \/ UNCHANGED vars
          PROVE  UNCHANGED waited
      BY <3>6 DEF ovram_reserve, ovram_snapshot, ScratchChanges, vars
    <3> QED BY <1>0, <3>1, <3>2, <3>3, <3>4, <3>5, <3>6 DEF Next, Step
  <2>4. dfree' \in [Tenant -> Nat \cup {-1}]
    BY <1>0, <2>2
  <2> QED BY <2>1, <2>3, <2>4 DEF MiscSound
<1> QED BY <1>3, <1>4, <1>5

-----------------------------------------------------------------------------
(* The theorems about the broker                                            *)

LEMMA BrokerInductive == BrokerInv /\ [Next]_vars => BrokerInv'
BY LeasesKept, QueueKept, MemoryKept, LocalsKept DEF BrokerInv

LEMMA BrokerInitial == Init => BrokerInv
<1> SUFFICES ASSUME Init PROVE BrokerInv
  OBVIOUS
<1> USE DEF Init
<1>1. LeasesSound(leases) /\ IdsSound /\ CallsSound
  BY SizesAssumption DEF LeasesSound, IdsSound, CallsSound
<1>2. ProcsSound
  BY DEF ProcsSound, NoTable
<1>3. QueueSound
  <2>1. \A k \in Tier : {u \in registered : req[u].tier = k} = {}
    OBVIOUS
  <2>2. \A k \in Tier : waiting[k] = Cardinality({u \in registered : req[u].tier = k})
    BY <2>1, FS_EmptySet
  <2> QED BY <2>2, SizesAssumption DEF QueueSound, WaitersMatch, PC
<1>4. MemorySound
  <2>1. \A t \in Tenant : mat[t] \in Int /\ mat[t] = 0
    OBVIOUS
  <2>2. Sum(mat, Tenant) = 0
    <3> DEFINE z == [t \in Tenant |-> 0]
    <3>1. Sum(z, Tenant) = 0
      BY SumZero, SizesAssumption
    <3> QED BY <3>1
  <2> QED BY <2>2, SizesAssumption DEF MemorySound, Allocated
<1>5. MiscSound
  BY SizesAssumption DEF MiscSound
<1> QED BY <1>1, <1>2, <1>3, <1>4, <1>5 DEF BrokerInv

\* The broker's tables stay within their sizes and say who waits, whatever the
\* tenants do and however old the figures they read are (ovram.c).
THEOREM BrokerTables == Spec => []TablesSound
<1>1. Spec => []BrokerInv
  BY BrokerInitial, BrokerInductive, PTL DEF Spec
<1> QED BY <1>1, BrokerInvSound, PTL

\* A lease ends by its holder's release or by its TTL: no other tenant's late
\* release can end it (ovram_release, expire_locked).
THEOREM LeasesEndByRight == Spec => EndsByHolderOrTtl
<1> DEFINE Right == \A i \in DOMAIN leases :
                LET l == leases[i]
                IN  (l.ttl > 0 /\ \A j \in DOMAIN leases' : leases'[j].id # l.id)
                        => lid[l.owner] = l.id /\ lid'[l.owner] = NoId
<1>1. ASSUME BrokerInv, [Next]_vars PROVE Right
  <2> SUFFICES ASSUME NEW i \in DOMAIN leases, leases[i].ttl > 0,
                      \A j \in DOMAIN leases' : leases'[j].id # leases[i].id
               PROVE  lid[leases[i].owner] = leases[i].id /\ lid'[leases[i].owner] = NoId
    OBVIOUS
  <2> DEFINE ls == Live(leases)
  <2>0. LeasesSound(leases) /\ IdsSound /\ LeasesSound(ls)
    BY <1>1, LiveSound DEF BrokerInv
  <2>1. LeaseEffect
    BY <1>1, LeaseEffects
  <2>2. PICK k \in DOMAIN ls : ls[k] = leases[i]
    BY <2>0, LiveSound
  <2>3. CASE leases' = leases
    BY <2>3
  <2>4. CASE leases' = Live(leases)
    BY <2>2, <2>4
  <2>5. ASSUME NEW t \in Tenant, Granting(t) PROVE FALSE
    <3>1. PICK mb \in Nat \ {0} : leases' = Append(ls, NewLease(ls, t, mb))
      BY <2>5 DEF Granting
    <3> HIDE DEF ls
    <3>2. k \in DOMAIN leases' /\ leases'[k] = ls[k]
      BY <2>0, <2>2, <3>1 DEF LeasesSound
    <3> QED BY <2>2, <3>2
  <2>6. ASSUME NEW t \in Tenant, ovram_release(t)
        PROVE  lid[leases[i].owner] = leases[i].id /\ lid'[leases[i].owner] = NoId
    <3> DEFINE I == {j \in DOMAIN leases : leases[j].id # lid[t]}
    <3>1. I \in SUBSET DOMAIN leases /\ leases' = SelectAt(leases, I) /\ lid' = [lid EXCEPT ![t] = NoId]
      BY <2>6 DEF ovram_release
    <3>2. leases[i].id # lid[t] => i \in I
      OBVIOUS
    <3> HIDE DEF I
    <3>3. \A j \in I : \E m \in DOMAIN leases' : leases'[m] = leases[j]
      BY <2>0, <3>1, SelectSound
    <3>4. leases[i].id = lid[t]
      BY <3>2, <3>3
    <3>5. leases[i] \in Lease /\ leases[i].id[1] = leases[i].owner
      BY <2>0 DEF LeasesSound
    <3>8. leases[i].id \in Tenant \X Nat /\ leases[i].owner \in Tenant
      BY <3>5 DEF Lease
    <3>6. lid[t] # NoId
      <4>1. \A x \in Tenant \X Nat : DOMAIN x = {1, 2}
        OBVIOUS
      <4>2. DOMAIN NoId = {}
        BY DEF NoId
      <4> QED BY <3>4, <3>8, <4>1, <4>2
    <3>7. leases[i].owner = t
      BY <2>0, <3>4, <3>5, <3>6, <3>8 DEF IdsSound
    <3> QED BY <2>0, <3>1, <3>4, <3>7 DEF IdsSound
  <2>7. ASSUME NEW t \in Tenant, ovram_renew(t) PROVE FALSE
    BY <1>1, <2>2, <2>7, RenewSound
  <2>8. ASSUME Tick PROVE FALSE
    BY <1>1, <2>8, TickSound
  <2> QED BY <2>1, <2>3, <2>4, <2>5, <2>6, <2>7, <2>8 DEF LeaseEffect
<1>2. Spec => []BrokerInv
  BY BrokerInitial, BrokerInductive, PTL DEF Spec
<1>3. BrokerInv /\ [Next]_vars => [Right]_vars
  BY <1>1
<1> QED BY <1>2, <1>3, PTL DEF Spec, EndsByHolderOrTtl
-----------------------------------------------------------------------------
(* What the leases promise.  Without credit for memory a process reports,   *)
(* and when the smallest floor covers the unbrokered allocations, a promise *)
(* is kept however old the figure of free memory was that a grant used.     *)

PromisesCovered == Reported = {} /\ Scratch <= Keep \div 4

\* The lease of t that promises memory, what it promises, and what t holds
\* under a lease that promises no more
PromiseOf(t) == {i \in Promising : leases[i].owner = t}
Promised == [t \in Tenant |-> IF PromiseOf(t) # {}
                              THEN leases[CHOOSE i \in PromiseOf(t) : TRUE].mb ELSE 0]
Lost == [t \in Tenant |-> IF pc[t] = "held" /\ PromiseOf(t) = {} THEN mat[t] ELSE 0]
Claim == [t \in Tenant |-> Promised[t] + Lost[t]]

PromiseInv ==
    /\ scratch <= Scratch
    /\ \A t \in Tenant : pc[t] \notin Holding => mat[t] = 0
    /\ \A i \in Promising : mat[leases[i].owner] <= leases[i].mb
    /\ Promising # {} => Scratch + idle + Sum(Claim, Tenant) <= Total
    /\ \A t \in Tenant : pc[t] = "locked" => dfree[t] + idle + Sum(Lost, Tenant) <= Total

\* A tenant has one promise at most.
PromiseTable ==
    /\ \A i \in Promising : /\ i \in DOMAIN leases /\ leases[i] \in Lease
                            /\ leases[i].mb \in Nat /\ leases[i].owner \in Tenant
                            /\ pc[leases[i].owner] = "held"
                            /\ Promised[leases[i].owner] = leases[i].mb
                            /\ PromiseOf(leases[i].owner) = {i}
    /\ \A i, j \in Promising : leases[i].owner = leases[j].owner => i = j
    /\ \A t \in Tenant : PromiseOf(t) = {} => Promised[t] = 0
LEMMA PromiseFacts == BrokerInv => PromiseTable
<1> SUFFICES ASSUME BrokerInv PROVE PromiseTable
  OBVIOUS
<1>1. \A i \in DOMAIN leases : leases[i] \in Lease
  BY DEF BrokerInv, LeasesSound
<1>2. \A i \in Promising : /\ i \in DOMAIN leases /\ pc[leases[i].owner] = "held"
                           /\ leases[i].id = lid[leases[i].owner]
  BY DEF Promising, HoldsLive
<1>3. \A i \in Promising : leases[i] \in Lease /\ leases[i].mb \in Nat /\ leases[i].owner \in Tenant
  BY <1>1, <1>2 DEF Lease
<1>4. \A i, j \in Promising : leases[i].owner = leases[j].owner => i = j
  <2> TAKE i, j \in Promising
  <2> SUFFICES ASSUME leases[i].owner = leases[j].owner PROVE i = j
    OBVIOUS
  <2>1. i \in DOMAIN leases /\ j \in DOMAIN leases /\ leases[i].id = leases[j].id
    BY <1>2
  <2> QED BY <2>1 DEF BrokerInv, LeasesSound
<1>5. \A i \in Promising : PromiseOf(leases[i].owner) = {i}
  BY <1>4 DEF PromiseOf
<1>6. \A i \in Promising : Promised[leases[i].owner] = leases[i].mb
  <2> TAKE i \in Promising
  <2>1. PromiseOf(leases[i].owner) # {} /\ (CHOOSE j \in PromiseOf(leases[i].owner) : TRUE) = i
    BY <1>5
  <2> QED BY <2>1, <1>3 DEF Promised
<1>7. \A t \in Tenant : PromiseOf(t) = {} => Promised[t] = 0
  BY DEF Promised
<1> QED BY <1>2, <1>3, <1>4, <1>5, <1>6, <1>7 DEF PromiseTable

LEMMA PromiseFactsNext == BrokerInv' => PromiseTable'
BY PromiseFacts, PTL

ClaimTable ==
    \A t \in Tenant : /\ Promised[t] \in Nat /\ Lost[t] \in Nat /\ mat[t] \in Nat
                      /\ Claim[t] = Promised[t] + Lost[t] /\ Claim[t] \in Nat
                      /\ Lost[t] = IF pc[t] = "held" /\ PromiseOf(t) = {} THEN mat[t] ELSE 0
LEMMA ClaimTypes == BrokerInv => ClaimTable
<1> SUFFICES ASSUME BrokerInv, NEW t \in Tenant
             PROVE  /\ Promised[t] \in Nat /\ Lost[t] \in Nat /\ mat[t] \in Nat
                    /\ Claim[t] = Promised[t] + Lost[t] /\ Claim[t] \in Nat
                    /\ Lost[t] = IF pc[t] = "held" /\ PromiseOf(t) = {} THEN mat[t] ELSE 0
  BY DEF ClaimTable
<1>1. mat[t] \in Nat
  BY DEF BrokerInv, MemorySound
<1>2. Promised[t] \in Nat
  <2>1. CASE PromiseOf(t) = {}
    BY <2>1, PromiseFacts DEF PromiseTable
  <2>2. ASSUME NEW i \in PromiseOf(t) PROVE Promised[t] \in Nat
    <3>1. i \in Promising /\ leases[i].owner = t
      BY <2>2 DEF PromiseOf
    <3> QED BY <3>1, PromiseFacts DEF PromiseTable
  <2> QED BY <2>1, <2>2
<1>3. Lost[t] = IF pc[t] = "held" /\ PromiseOf(t) = {} THEN mat[t] ELSE 0
  BY DEF Lost
<1>4. Claim[t] = Promised[t] + Lost[t]
  BY DEF Claim
<1> QED BY <1>1, <1>2, <1>3, <1>4

LEMMA ClaimTypesNext == BrokerInv' => ClaimTable'
BY ClaimTypes, PTL

\* The promises are covered: what is still due is free, or overdrawn.
LEMMA PromiseSound == BrokerInv /\ PromiseInv => NoOvercommit
<1> SUFFICES ASSUME BrokerInv, PromiseInv PROVE NoOvercommit
  OBVIOUS
<1> DEFINE F == {t \in Tenant : pc[t] = "forced"}
           due == [i \in Promising |-> leases[i].mb - mat[leases[i].owner]]
           owed == [t \in Tenant |-> IF PromiseOf(t) # {} THEN Promised[t] - mat[t] ELSE 0]
           forced == [t \in Tenant |-> IF pc[t] = "forced" THEN mat[t] ELSE 0]
           left == [t \in Tenant |-> owed[t] + mat[t]]
           right == [t \in Tenant |-> Claim[t] + forced[t]]
<1>0. IsFiniteSet(Tenant) /\ mat \in [Tenant -> Nat] /\ scratch \in Nat /\ idle \in Nat
      /\ Total \in Nat /\ Scratch \in Nat /\ scratch <= Scratch /\ Allocated <= Total
  BY SizesAssumption DEF BrokerInv, MemorySound, PromiseInv
<1>1. IsFiniteSet(Promising)
  <2>1. Promising \in SUBSET DOMAIN leases /\ DOMAIN leases = 1..Len(leases) /\ Len(leases) \in Nat
    BY DEF Promising, BrokerInv, LeasesSound
  <2>2. IsFiniteSet(DOMAIN leases)
    BY <2>1, FS_Interval
  <2> QED BY <2>1, <2>2, FS_Subset
<1>2. \A t \in Tenant : /\ owed[t] \in Nat /\ forced[t] \in Nat /\ left[t] \in Int /\ right[t] \in Int
                        /\ left[t] <= right[t]
                        /\ left[t] = owed[t] + mat[t] /\ right[t] = Claim[t] + forced[t]
  <2> TAKE t \in Tenant
  <2>1. /\ Promised[t] \in Nat /\ mat[t] \in Nat /\ Claim[t] \in Nat /\ Claim[t] = Promised[t] + Lost[t]
        /\ Lost[t] = IF pc[t] = "held" /\ PromiseOf(t) = {} THEN mat[t] ELSE 0
    BY ClaimTypes DEF ClaimTable
  <2>2. PromiseOf(t) = {} => Promised[t] = 0
    BY PromiseFacts DEF PromiseTable
  <2>3. ASSUME PromiseOf(t) # {} PROVE mat[t] <= Promised[t] /\ pc[t] = "held"
    <3>1. PICK i \in Promising : leases[i].owner = t
      BY <2>3 DEF PromiseOf
    <3>2. mat[t] <= leases[i].mb
      BY <3>1 DEF PromiseInv
    <3> QED BY <3>1, <3>2, PromiseFacts DEF PromiseTable
  <2>4. pc[t] \notin {"held", "forced"} => mat[t] = 0
    BY DEF PromiseInv, Holding
  <2>5. CASE PromiseOf(t) # {}
    BY <2>1, <2>3, <2>5
  <2>6. CASE PromiseOf(t) = {}
    BY <2>1, <2>2, <2>4, <2>6
  <2> QED BY <2>5, <2>6
<1>3. Sum(due, Promising) <= Sum(owed, Tenant)
  <2> DEFINE h == [i \in Promising |-> leases[i].owner]
  <2>1. \A i \in Promising : /\ leases[i].owner \in Tenant /\ leases[i].mb \in Nat
                             /\ due[i] = leases[i].mb - mat[leases[i].owner]
                             /\ owed[leases[i].owner] = leases[i].mb - mat[leases[i].owner]
    <3> TAKE i \in Promising
    <3>1. /\ leases[i].owner \in Tenant /\ leases[i].mb \in Nat
          /\ Promised[leases[i].owner] = leases[i].mb /\ PromiseOf(leases[i].owner) = {i}
      BY PromiseFacts DEF PromiseTable
    <3> QED BY <3>1
  <2>2. h \in [Promising -> Tenant] /\ \A i \in Promising : h[i] = leases[i].owner
    BY <2>1
  <2>3. \A i, j \in Promising : h[i] = h[j] => i = j
    BY <2>2, PromiseFacts DEF PromiseTable
  <2> HIDE DEF h, due, owed
  <2>4. \A i \in Promising : mat[leases[i].owner] \in Nat
    BY <2>1, <1>0
  <2>5. \A i \in Promising : due[i] \in Int /\ due[i] <= owed[h[i]]
    BY <2>1, <2>2, <2>4
  <2>6. \A t \in Tenant : owed[t] \in Nat
    BY <1>2
  <2> QED BY <1>0, <1>1, <2>2, <2>3, <2>5, <2>6, SumInject
<1> HIDE DEF owed, forced, left, right, due
<1>4. Sum(left, Tenant) = Sum(owed, Tenant) + Sum(mat, Tenant)
  <2>1. \A t \in Tenant : owed[t] \in Int /\ mat[t] \in Int /\ left[t] = owed[t] + mat[t]
    BY <1>0, <1>2
  <2> QED BY <1>0, <2>1, SumPlus
<1>5. Sum(right, Tenant) = Sum(Claim, Tenant) + Sum(forced, Tenant)
  <2>1. \A t \in Tenant : Claim[t] \in Int /\ forced[t] \in Int /\ right[t] = Claim[t] + forced[t]
    BY <1>2, ClaimTypes DEF ClaimTable
  <2> QED BY <1>0, <2>1, SumPlus
<1>6. Sum(left, Tenant) <= Sum(right, Tenant)
  BY <1>0, <1>2, SumMonotone
<1>7. Sum(forced, Tenant) = Overdraft
  <2>1. F \in SUBSET Tenant /\ Tenant \ F \in SUBSET Tenant
    OBVIOUS
  <2>2. IsFiniteSet(F) /\ IsFiniteSet(Tenant \ F)
    BY <1>0, <2>1, FS_Subset
  <2>3. \A t \in F : mat[t] \in Int /\ mat[t] = forced[t]
    BY <1>0 DEF forced
  <2>4. \A t \in Tenant \ F : forced[t] = 0
    BY DEF forced
  <2>5. \A t \in Tenant : forced[t] \in Int
    BY <1>2
  <2>6. Overdraft = Sum(mat, F)
    BY DEF Overdraft
  <2> HIDE DEF F
  <2>7. Sum(mat, F) = Sum(forced, F)
    BY <2>2, <2>3, SumSame
  <2>8. Sum(forced, Tenant) = Sum(forced, F) + Sum(forced, Tenant \ F)
    BY <1>0, <2>1, <2>5, SumSplit
  <2>9. Sum(forced, Tenant \ F) = 0
    BY <2>2, <2>4, SumZero
  <2>10. Sum(mat, F) \in Int
    BY <2>2, <2>3, SumInt
  <2> QED BY <2>6, <2>7, <2>8, <2>9, <2>10
<1>8. /\ Sum(owed, Tenant) \in Int /\ Sum(mat, Tenant) \in Int /\ Sum(Claim, Tenant) \in Int
      /\ Sum(forced, Tenant) \in Nat
  <2>1. \A t \in Tenant : owed[t] \in Int /\ mat[t] \in Int /\ Claim[t] \in Int /\ forced[t] \in Nat
    BY <1>0, <1>2, ClaimTypes DEF ClaimTable
  <2> QED BY <1>0, <2>1, SumInt, SumNat
<1>9. Sum(due, Promising) \in Int
  <2>1. \A i \in Promising : due[i] \in Int
    BY PromiseFacts, <1>0 DEF due, PromiseTable
  <2> QED BY <1>1, <2>1, SumInt
<1>10. Sum(due, Promising) <= Free + Overdraft
  <2>1. CASE Promising = {}
    <3>1. Sum(due, Promising) = 0
      BY <2>1, SumEmpty
    <3>2. Free \in Nat
      BY UsageNat DEF BrokerInv
    <3> QED BY <1>7, <1>8, <3>1, <3>2
  <2>2. CASE Promising # {}
    <3>1. Scratch + idle + Sum(Claim, Tenant) <= Total
      BY <2>2 DEF PromiseInv
    <3>2. Free = Total - (idle + scratch + Sum(mat, Tenant))
      BY DEF Free, Allocated
    <3> QED BY <1>0, <1>3, <1>4, <1>5, <1>6, <1>7, <1>8, <1>9, <3>1, <3>2
  <2> QED BY <2>1, <2>2
<1> QED BY <1>10 DEF NoOvercommit, due
\* b is the entry that a, or what a became, was
Descends(a, b) ==
    /\ a.id = b.id /\ a.owner = b.owner /\ a.mb = b.mb /\ a.tier = b.tier
    /\ (a.ttl > 0 => b.ttl > 0) /\ (Young(a) => Young(b))

\* For the tenants of A: no one comes to hold a lease, every entry of the table
\* was there, no live entry of a holder goes, and a holder's memory grows only
\* within its promise
HoldersStay(A) == \A u \in A : pc'[u] = "held" => pc[u] = "held" /\ lid'[u] = lid[u]
EntriesOld(A) == \A j \in DOMAIN leases' : leases'[j].owner \in A /\ pc'[leases'[j].owner] = "held"
                    => \E i \in DOMAIN leases : Descends(leases'[j], leases[i])
EntriesStay(A) == \A i \in DOMAIN leases :
                    leases[i].owner \in A /\ leases[i].ttl > 0 /\ pc'[leases[i].owner] = "held"
                    => \E j \in DOMAIN leases' : Descends(leases[i], leases'[j])
HoldingsStay(A) == \A u \in A : pc'[u] = "held" =>
                    \/ mat'[u] <= mat[u]
                    \/ \E j \in Promising' : leases'[j].owner = u /\ mat'[u] <= leases'[j].mb

\* No promise appears, and none ends while its holder holds it.
LEMMA NoNewPromise ==
    ASSUME BrokerInv, BrokerInv', NEW A \in SUBSET Tenant, HoldersStay(A), EntriesOld(A)
    PROVE  /\ \A j \in Promising' : leases'[j].owner \in A => \E i \in Promising :
                    leases'[j].owner = leases[i].owner /\ leases'[j].mb = leases[i].mb
           /\ \A u \in A : PromiseOf(u)' # {} => PromiseOf(u) # {} /\ Promised'[u] = Promised[u]
<1>1. ASSUME NEW j \in Promising', leases'[j].owner \in A
      PROVE  \E i \in Promising : leases'[j].owner = leases[i].owner /\ leases'[j].mb = leases[i].mb
  <2> DEFINE m == leases'[j]
  <2>1. /\ j \in DOMAIN leases' /\ m.id = lid'[m.owner] /\ m.ttl > 0 /\ pc'[m.owner] = "held"
        /\ m.tier = TIER_PAID \/ Young(m)
    BY <1>1 DEF Promising, HoldsLive
  <2>2. PICK i \in DOMAIN leases : Descends(m, leases[i])
    BY <1>1, <2>1 DEF EntriesOld
  <2>3. leases[i].owner \in A
    BY <1>1, <2>2 DEF Descends
  <2>4. i \in Promising
    BY <2>1, <2>2, <2>3 DEF Promising, HoldsLive, Descends, HoldersStay
  <2> QED BY <2>2, <2>4 DEF Descends
<1>2. ASSUME NEW u \in A, PromiseOf(u)' # {}
      PROVE  PromiseOf(u) # {} /\ Promised'[u] = Promised[u]
  <2>1. PICK j \in Promising' : leases'[j].owner = u
    BY <1>2 DEF PromiseOf
  <2>2. PICK i \in Promising : leases'[j].owner = leases[i].owner /\ leases'[j].mb = leases[i].mb
    BY <1>1, <2>1
  <2>3. Promised[u] = leases[i].mb /\ PromiseOf(u) = {i}
    BY <2>1, <2>2, PromiseFacts DEF PromiseTable
  <2>4. \A k \in Promising' : Promised'[leases'[k].owner] = leases'[k].mb
    BY PromiseFactsNext DEF PromiseTable
  <2> QED BY <2>1, <2>2, <2>3, <2>4
<1> QED BY <1>1, <1>2

LEMMA PromisesStay ==
    ASSUME BrokerInv, BrokerInv', NEW A \in SUBSET Tenant, HoldersStay(A), EntriesStay(A)
    PROVE  \A u \in A : pc'[u] = "held" /\ PromiseOf(u) # {} => PromiseOf(u)' # {}
<1> SUFFICES ASSUME NEW u \in A, pc'[u] = "held", PromiseOf(u) # {} PROVE PromiseOf(u)' # {}
  OBVIOUS
<1>1. PICK i \in Promising : leases[i].owner = u
  BY DEF PromiseOf
<1>2. /\ i \in DOMAIN leases /\ leases[i].id = lid[u] /\ leases[i].ttl > 0
      /\ leases[i].tier = TIER_PAID \/ Young(leases[i])
  BY <1>1 DEF Promising, HoldsLive
<1>3. PICK j \in DOMAIN leases' : Descends(leases[i], leases'[j])
  BY <1>1, <1>2 DEF EntriesStay
<1>4. j \in Promising' /\ leases'[j].owner = u
  BY <1>1, <1>2, <1>3 DEF Promising, HoldsLive, Descends, HoldersStay
<1> QED BY <1>4 DEF PromiseOf

\* Promises stay within their amounts, and the claims of A do not grow.
LEMMA ClaimsShrink ==
    ASSUME BrokerInv, BrokerInv', PromiseInv, NEW A \in SUBSET Tenant,
           HoldersStay(A), EntriesOld(A), HoldingsStay(A)
    PROVE  /\ \A j \in Promising' : leases'[j].owner \in A => mat'[leases'[j].owner] <= leases'[j].mb
           /\ \A u \in A : Claim'[u] <= Claim[u]
<1>0. mat \in [Tenant -> Nat] /\ mat' \in [Tenant -> Nat]
  BY DEF BrokerInv, MemorySound
<1>1. ClaimTable /\ ClaimTable' /\ PromiseTable /\ PromiseTable'
  BY ClaimTypes, ClaimTypesNext, PromiseFacts, PromiseFactsNext
<1>2. /\ \A j \in Promising' : leases'[j].owner \in A => \E i \in Promising :
                leases'[j].owner = leases[i].owner /\ leases'[j].mb = leases[i].mb
      /\ \A u \in A : PromiseOf(u)' # {} => PromiseOf(u) # {} /\ Promised'[u] = Promised[u]
  BY NoNewPromise
<1>3. ASSUME NEW j \in Promising', leases'[j].owner \in A
      PROVE  mat'[leases'[j].owner] <= leases'[j].mb
  <2> DEFINE u == leases'[j].owner
  <2>1. u \in A /\ u \in Tenant /\ pc'[u] = "held" /\ leases'[j].mb \in Nat
    BY <1>1, <1>3 DEF PromiseTable
  <2>2. PICK i \in Promising : u = leases[i].owner /\ leases'[j].mb = leases[i].mb
    BY <1>2, <1>3
  <2>3. mat[u] <= leases[i].mb
    BY <2>2 DEF PromiseInv
  <2>4. mat[u] \in Nat /\ mat'[u] \in Nat
    BY <1>0, <2>1
  <2>5. CASE mat'[u] <= mat[u]
    BY <2>1, <2>2, <2>3, <2>4, <2>5
  <2>6. ASSUME NEW k \in Promising', leases'[k].owner = u, mat'[u] <= leases'[k].mb
        PROVE  mat'[u] <= leases'[j].mb
    BY <2>6, <1>1 DEF PromiseTable
  <2> QED BY <2>1, <2>5, <2>6 DEF HoldingsStay
<1>4. ASSUME NEW u \in A PROVE Claim'[u] <= Claim[u]
  <2>1. /\ Promised[u] \in Nat /\ Lost[u] \in Nat /\ mat[u] \in Nat /\ Claim[u] = Promised[u] + Lost[u]
        /\ Lost[u] = IF pc[u] = "held" /\ PromiseOf(u) = {} THEN mat[u] ELSE 0
    BY <1>1 DEF ClaimTable
  <2>2. /\ Promised'[u] \in Nat /\ Lost'[u] \in Nat /\ mat'[u] \in Nat /\ Claim'[u] = Promised'[u] + Lost'[u]
        /\ Lost'[u] = IF pc'[u] = "held" /\ PromiseOf(u)' = {} THEN mat'[u] ELSE 0
    BY <1>1 DEF ClaimTable
  <2>3. CASE PromiseOf(u)' # {}
    BY <1>2, <2>1, <2>2, <2>3
  <2>4. CASE PromiseOf(u)' = {} /\ pc'[u] # "held"
    BY <1>1, <2>1, <2>2, <2>4 DEF PromiseTable
  <2>5. CASE PromiseOf(u)' = {} /\ pc'[u] = "held"
    <3>1. Promised'[u] = 0 /\ Lost'[u] = mat'[u] /\ pc[u] = "held"
      BY <1>1, <2>2, <2>5 DEF PromiseTable, HoldersStay
    <3>2. mat'[u] <= mat[u]
      BY <2>5 DEF HoldingsStay, PromiseOf
    <3>3. CASE PromiseOf(u) = {}
      BY <2>1, <2>2, <3>1, <3>2, <3>3
    <3>4. CASE PromiseOf(u) # {}
      <4>1. PICK i \in Promising : leases[i].owner = u
        BY <3>4 DEF PromiseOf
      <4>2. mat[u] <= leases[i].mb /\ Promised[u] = leases[i].mb
        BY <1>1, <4>1 DEF PromiseInv, PromiseTable
      <4> QED BY <2>1, <2>2, <3>1, <3>2, <4>2
    <3> QED BY <3>3, <3>4
  <2> QED BY <2>3, <2>4, <2>5
<1> QED BY <1>3, <1>4

\* While no time passes, nobody's memory falls out of its promise.
LEMMA LossesShrink ==
    ASSUME BrokerInv, BrokerInv', NEW A \in SUBSET Tenant,
           HoldersStay(A), EntriesStay(A), HoldingsStay(A)
    PROVE  \A u \in A : Lost'[u] <= Lost[u]
<1> TAKE u \in A
<1>1. ClaimTable /\ ClaimTable'
  BY ClaimTypes, ClaimTypesNext
<1>2. /\ Lost[u] \in Nat /\ mat[u] \in Nat
      /\ Lost[u] = IF pc[u] = "held" /\ PromiseOf(u) = {} THEN mat[u] ELSE 0
  BY <1>1 DEF ClaimTable
<1>3. Lost'[u] = IF pc'[u] = "held" /\ PromiseOf(u)' = {} THEN mat'[u] ELSE 0
  BY <1>1 DEF ClaimTable
<1>4. CASE pc'[u] = "held" /\ PromiseOf(u)' = {}
  <2>1. pc[u] = "held" /\ PromiseOf(u) = {}
    BY <1>4, PromisesStay DEF HoldersStay
  <2>2. mat'[u] <= mat[u]
    BY <1>4 DEF HoldingsStay, PromiseOf
  <2> QED BY <1>2, <1>3, <1>4, <2>1, <2>2
<1>5. CASE ~(pc'[u] = "held" /\ PromiseOf(u)' = {})
  BY <1>2, <1>3, <1>5
<1> QED BY <1>4, <1>5

\* A step that grants nothing keeps the promises covered: the claims do not
\* grow, and a figure of free memory stays good for as long as it is used.
MemoryStays ==
    /\ idle' <= idle /\ scratch' <= Scratch
    /\ \A u \in Tenant : pc'[u] \notin Holding => mat'[u] = 0
FiguresStay ==
    \A t \in Tenant : pc'[t] = "locked" =>
        /\ EntriesStay(Tenant)
        /\ \/ pc[t] = "locked" /\ dfree'[t] = dfree[t]
           \/ dfree'[t] + idle' + Sum(mat', Tenant) <= Total

LEMMA PromisesKept ==
    ASSUME BrokerInv, BrokerInv', PromiseInv, HoldersStay(Tenant), EntriesOld(Tenant),
           HoldingsStay(Tenant), MemoryStays, FiguresStay
    PROVE  PromiseInv'
<1>0. /\ IsFiniteSet(Tenant) /\ Total \in Nat /\ Scratch \in Nat
      /\ idle \in Nat /\ idle' \in Nat /\ mat \in [Tenant -> Nat] /\ mat' \in [Tenant -> Nat]
      /\ dfree \in [Tenant -> Nat \cup {-1}] /\ dfree' \in [Tenant -> Nat \cup {-1}]
  BY SizesAssumption DEF BrokerInv, MemorySound, MiscSound
<1>1. ClaimTable /\ ClaimTable' /\ PromiseTable /\ PromiseTable'
  BY ClaimTypes, ClaimTypesNext, PromiseFacts, PromiseFactsNext
<1>2. \A j \in Promising' : leases'[j].owner \in Tenant /\ \E i \in Promising : TRUE
  <2>1. \A j \in Promising' : leases'[j].owner \in Tenant
    BY <1>1 DEF PromiseTable
  <2> QED BY <2>1, NoNewPromise
<1>3. /\ \A j \in Promising' : mat'[leases'[j].owner] <= leases'[j].mb
      /\ \A u \in Tenant : Claim'[u] <= Claim[u]
  BY <1>2, ClaimsShrink
<1>5. Promising' # {} => Scratch + idle' + Sum(Claim', Tenant) <= Total
  <2>1. \A u \in Tenant : Claim[u] \in Int /\ Claim'[u] \in Int
    BY <1>1 DEF ClaimTable
  <2>2. Sum(Claim', Tenant) <= Sum(Claim, Tenant)
    BY <1>0, <1>3, <2>1, SumMonotone
  <2>3. Sum(Claim', Tenant) \in Int /\ Sum(Claim, Tenant) \in Int
    BY <1>0, <2>1, SumInt
  <2>4. Promising' # {} => Scratch + idle + Sum(Claim, Tenant) <= Total
    BY <1>2 DEF PromiseInv
  <2>5. idle' <= idle
    BY DEF MemoryStays
  <2> QED BY <1>0, <2>2, <2>3, <2>4, <2>5
<1>6. ASSUME NEW t \in Tenant, pc'[t] = "locked"
      PROVE  dfree'[t] + idle' + Sum(Lost', Tenant) <= Total
  <2>0. \A u \in Tenant : /\ Lost[u] \in Int /\ Lost'[u] \in Int /\ mat'[u] \in Int
                          /\ Lost'[u] <= mat'[u]
    BY <1>1 DEF ClaimTable
  <2>1. /\ Sum(Lost, Tenant) \in Int /\ Sum(Lost', Tenant) \in Int /\ Sum(mat', Tenant) \in Int
        /\ dfree'[t] \in Int /\ dfree[t] \in Int
    BY <1>0, <2>0, SumInt
  <2>2. CASE dfree'[t] + idle' + Sum(mat', Tenant) <= Total
    <3>1. Sum(Lost', Tenant) <= Sum(mat', Tenant)
      BY <1>0, <2>0, SumMonotone
    <3> QED BY <1>0, <2>1, <2>2, <3>1
  <2>3. CASE pc[t] = "locked" /\ dfree'[t] = dfree[t]
    <3>1. EntriesStay(Tenant)
      BY <1>6 DEF FiguresStay
    <3>2. \A u \in Tenant : Lost'[u] <= Lost[u]
      BY <3>1, LossesShrink
    <3>3. Sum(Lost', Tenant) <= Sum(Lost, Tenant)
      BY <1>0, <2>0, <3>2, SumMonotone
    <3>4. dfree[t] + idle + Sum(Lost, Tenant) <= Total
      BY <2>3 DEF PromiseInv
    <3>5. idle' <= idle
      BY DEF MemoryStays
    <3> QED BY <1>0, <2>1, <2>3, <3>3, <3>4, <3>5
  <2> QED BY <1>6, <2>2, <2>3 DEF FiguresStay
<1> QED BY <1>3, <1>5, <1>6 DEF PromiseInv, MemoryStays

\* A caller's step that does not end in a grant.
LEMMA CallerKeepsPromises ==
    ASSUME BrokerInv, BrokerInv', PromiseInv, NEW t \in Tenant,
           \A u \in Tenant : u # t => /\ pc'[u] = pc[u] /\ lid'[u] = lid[u]
                                      /\ dfree'[u] = dfree[u] /\ mat'[u] = mat[u],
           pc'[t] # "held", pc'[t] \notin Holding => mat'[t] = 0,
           EntriesOld(Tenant), EntriesStay(Tenant), idle' <= idle, scratch' <= Scratch,
           pc'[t] = "locked" => dfree'[t] + idle' + Sum(mat', Tenant) <= Total
    PROVE  PromiseInv'
<1>0. mat \in [Tenant -> Nat]
  BY DEF BrokerInv, MemorySound
<1>1. HoldersStay(Tenant)
  BY DEF HoldersStay
<1>2. HoldingsStay(Tenant)
  <2>1. \A u \in Tenant : pc'[u] = "held" => mat'[u] = mat[u] /\ mat[u] \in Nat
    BY <1>0
  <2> QED BY <2>1 DEF HoldingsStay
<1>3. MemoryStays
  BY DEF MemoryStays, PromiseInv
<1>4. FiguresStay
  BY DEF FiguresStay
<1> QED BY <1>1, <1>2, <1>3, <1>4, PromisesKept
LEMMA DescendsSame == \A l : Descends(l, l)
BY DEF Descends

\* The table after each kind of step.
LEMMA EntriesSame == leases' = leases => EntriesOld(Tenant) /\ EntriesStay(Tenant)
BY DescendsSame DEF EntriesOld, EntriesStay

LEMMA EntriesSwept ==
    ASSUME BrokerInv, leases' = Live(leases)
    PROVE  EntriesOld(Tenant) /\ EntriesStay(Tenant)
<1>1. /\ \A i \in DOMAIN leases : leases[i].ttl > 0 => \E k \in DOMAIN leases' : leases'[k] = leases[i]
      /\ \A k \in DOMAIN leases' : \E i \in DOMAIN leases : leases'[k] = leases[i]
  BY LiveSound DEF BrokerInv
<1>2. EntriesOld(Tenant)
  BY <1>1, DescendsSame DEF EntriesOld
<1>3. EntriesStay(Tenant)
  BY <1>1, DescendsSame DEF EntriesStay
<1> QED BY <1>2, <1>3

LEMMA EntriesGranted ==
    ASSUME BrokerInv, NEW t \in Tenant, Granting(t), NEW A \in SUBSET Tenant,
           t \in A => pc'[t] # "held"
    PROVE  EntriesOld(A) /\ EntriesStay(A)
<1> DEFINE ls == Live(leases)
<1>1. PICK mb \in Nat \ {0} : SlotFree(ls) /\ leases' = Append(ls, NewLease(ls, t, mb))
  BY DEF Granting
<1>2. /\ LeasesSound(ls)
      /\ \A i \in DOMAIN leases : leases[i].ttl > 0 => \E k \in DOMAIN ls : ls[k] = leases[i]
      /\ \A k \in DOMAIN ls : \E i \in DOMAIN leases : ls[k] = leases[i]
  BY LiveSound DEF BrokerInv
<1>3. NewLease(ls, t, mb).owner = t
  BY DEF NewLease
<1> DEFINE l == NewLease(ls, t, mb)
<1> HIDE DEF ls, l
<1>4. ls \in Seq(Lease) /\ Len(ls) \in Nat /\ DOMAIN ls = 1..Len(ls)
  BY <1>2 DEF LeasesSound
<1>5. leases' = Append(ls, l) /\ l.owner = t
  BY <1>1, <1>3 DEF l
<1>6. /\ DOMAIN leases' = 1..(Len(ls) + 1)
      /\ \A j \in DOMAIN leases' : IF j \in DOMAIN ls THEN leases'[j] = ls[j] ELSE leases'[j] = l
  BY <1>4, <1>5
<1>7. \A k \in DOMAIN ls : k \in DOMAIN leases' /\ leases'[k] = ls[k]
  BY <1>4, <1>6
<1>8. EntriesOld(A)
  <2> SUFFICES ASSUME NEW j \in DOMAIN leases', leases'[j].owner \in A, pc'[leases'[j].owner] = "held"
               PROVE  \E i \in DOMAIN leases : Descends(leases'[j], leases[i])
    BY DEF EntriesOld
  <2>1. j \in DOMAIN ls /\ leases'[j] = ls[j]
    BY <1>5, <1>6
  <2>2. PICK i \in DOMAIN leases : ls[j] = leases[i]
    BY <1>2, <2>1
  <2> QED BY <2>1, <2>2, DescendsSame
<1>9. EntriesStay(A)
  <2> SUFFICES ASSUME NEW i \in DOMAIN leases, leases[i].ttl > 0
               PROVE  \E j \in DOMAIN leases' : Descends(leases[i], leases'[j])
    BY DEF EntriesStay
  <2>1. PICK k \in DOMAIN ls : ls[k] = leases[i]
    BY <1>2
  <2> QED BY <1>7, <2>1, DescendsSame
<1> QED BY <1>8, <1>9

LEMMA EntriesReleased ==
    ASSUME BrokerInv, NEW t \in Tenant, ovram_release(t)
    PROVE  EntriesOld(Tenant) /\ EntriesStay(Tenant) /\ pc' = [pc EXCEPT ![t] = "idle"]
<1> DEFINE I == {j \in DOMAIN leases : leases[j].id # lid[t]}
<1>0. LeasesSound(leases) /\ IdsSound /\ pc \in [Tenant -> PC]
  BY DEF BrokerInv, QueueSound
<1>1. I \in SUBSET DOMAIN leases /\ leases' = SelectAt(leases, I) /\ pc' = [pc EXCEPT ![t] = "idle"]
  BY DEF ovram_release, Goto
<1>2. \A i \in DOMAIN leases : leases[i].id # lid[t] => i \in I
  OBVIOUS
<1> HIDE DEF I
<1>3. /\ \A i \in I : \E k \in DOMAIN leases' : leases'[k] = leases[i]
      /\ \A k \in DOMAIN leases' : \E i \in I : leases'[k] = leases[i]
  BY <1>0, <1>1, SelectSound
<1>4. EntriesOld(Tenant)
  BY <1>1, <1>3, DescendsSame DEF EntriesOld
<1>5. EntriesStay(Tenant)
  <2> SUFFICES ASSUME NEW i \in DOMAIN leases, leases[i].owner \in Tenant, pc'[leases[i].owner] = "held"
               PROVE  \E j \in DOMAIN leases' : Descends(leases[i], leases'[j])
    BY DEF EntriesStay
  <2>1. leases[i].owner # t
    BY <1>0, <1>1
  <2>2. leases[i] \in Lease /\ leases[i].id[1] = leases[i].owner
    BY <1>0 DEF LeasesSound
  <2>3. leases[i].id \in Tenant \X Nat
    BY <2>2 DEF Lease
  <2>4. leases[i].id # lid[t]
    <3>1. CASE lid[t] = NoId
      <4>1. \A x \in Tenant \X Nat : DOMAIN x = {1, 2}
        OBVIOUS
      <4>2. DOMAIN NoId = {}
        BY DEF NoId
      <4> QED BY <2>3, <3>1, <4>1, <4>2
    <3>2. CASE lid[t] # NoId
      BY <1>0, <2>1, <2>2, <3>2 DEF IdsSound
    <3> QED BY <3>1, <3>2
  <2>5. PICK k \in DOMAIN leases' : leases'[k] = leases[i]
    BY <1>2, <1>3, <2>4
  <2> QED BY <2>5, DescendsSame
<1> QED BY <1>1, <1>4, <1>5

LEMMA EntriesRenewed ==
    ASSUME BrokerInv, NEW t \in Tenant, ovram_renew(t)
    PROVE  EntriesOld(Tenant) /\ EntriesStay(Tenant)
<1> DEFINE ls == Live(leases)
           e(i) == IF ls[i].id = lid[t] THEN [ls[i] EXCEPT !.ttl = Ttl] ELSE ls[i]
<1>1. /\ LeasesSound(ls)
      /\ \A i \in DOMAIN leases : leases[i].ttl > 0 => \E k \in DOMAIN ls : ls[k] = leases[i]
      /\ \A k \in DOMAIN ls : \E i \in DOMAIN leases : leases[i].ttl > 0 /\ ls[k] = leases[i]
  BY LiveSound DEF BrokerInv
<1>2. leases' = [i \in DOMAIN ls |-> e(i)]
  BY DEF ovram_renew
<1> HIDE DEF ls
<1>3. \A i \in DOMAIN ls : ls[i] \in Lease /\ ls[i].ttl > 0
  BY <1>1 DEF LeasesSound
<1>4. \A i \in DOMAIN ls : Descends(e(i), ls[i]) /\ Descends(ls[i], e(i))
  <2> TAKE i \in DOMAIN ls
  <2>1. ls[i] \in Lease /\ ls[i].ttl > 0 /\ ls[i].ttl \in 0..Ttl /\ Ttl \in Nat
    BY <1>3, SizesAssumption DEF Lease
  <2>2. e(i).ttl > 0
    BY <2>1 DEF Lease
  <2>3. /\ e(i).id = ls[i].id /\ e(i).owner = ls[i].owner /\ e(i).mb = ls[i].mb
        /\ e(i).tier = ls[i].tier /\ e(i).age = ls[i].age
    BY <2>1 DEF Lease
  <2> HIDE DEF e
  <2> QED BY <2>1, <2>2, <2>3 DEF Descends, Young
<1> HIDE DEF e
<1>5. DOMAIN leases' = DOMAIN ls /\ \A i \in DOMAIN ls : leases'[i] = e(i)
  BY <1>2
<1>6. EntriesOld(Tenant)
  <2> SUFFICES ASSUME NEW j \in DOMAIN leases'
               PROVE  \E i \in DOMAIN leases : Descends(leases'[j], leases[i])
    BY DEF EntriesOld
  <2>1. PICK i \in DOMAIN leases : ls[j] = leases[i]
    BY <1>1, <1>5
  <2>2. Descends(leases'[j], leases[i])
    BY <1>4, <1>5, <2>1
  <2> QED BY <2>2
<1>7. EntriesStay(Tenant)
  <2> SUFFICES ASSUME NEW i \in DOMAIN leases, leases[i].ttl > 0
               PROVE  \E j \in DOMAIN leases' : Descends(leases[i], leases'[j])
    BY DEF EntriesStay
  <2>1. PICK k \in DOMAIN ls : ls[k] = leases[i]
    BY <1>1
  <2>2. Descends(leases[i], leases'[k])
    BY <1>4, <1>5, <2>1
  <2> QED BY <1>5, <2>2
<1> QED BY <1>6, <1>7

LEMMA EntriesAged ==
    ASSUME BrokerInv, Tick
    PROVE  EntriesOld(Tenant)
<1>1. leases' = [i \in DOMAIN leases |-> Older(leases[i])]
  BY DEF Tick
<1> SUFFICES ASSUME NEW j \in DOMAIN leases' PROVE Descends(leases'[j], leases[j]) /\ j \in DOMAIN leases
  BY DEF EntriesOld
<1>2. j \in DOMAIN leases /\ leases'[j] = Older(leases[j])
  BY <1>1
<1> DEFINE l == leases[j]  ttl == Max0(l.ttl - 1)  age == Least(l.age + 1, JobLease)
<1>3. l \in Lease
  BY <1>2 DEF BrokerInv, LeasesSound
<1>4. l.ttl \in 0..Ttl /\ l.age \in 0..JobLease /\ Ttl \in Nat /\ JobLease \in Nat
  BY <1>3, SizesAssumption DEF Lease
<1>5. (ttl > 0 => l.ttl > 0) /\ (age < JobLease => l.age < JobLease)
  BY <1>4 DEF Max0, Least
<1>6. leases'[j] = [l EXCEPT !.ttl = ttl, !.age = age]
  BY <1>2 DEF Older
<1> HIDE DEF l, ttl, age
<1>7. /\ leases'[j].id = l.id /\ leases'[j].owner = l.owner /\ leases'[j].mb = l.mb
      /\ leases'[j].tier = l.tier /\ leases'[j].ttl = ttl /\ leases'[j].age = age
  BY <1>3, <1>6 DEF Lease
<1>8. Descends(leases'[j], l)
  BY <1>5, <1>7 DEF Descends, Young
<1> QED BY <1>2, <1>8 DEF l
\* Without reported processes no lease earns credit, so what a grant leaves
\* aside includes every promise, whatever its tier.
LEMMA ChargesCover ==
    ASSUME PromisesCovered, BrokerInv, NEW ls, ls = Live(leases), NEW tier \in Tier
    PROVE  leased_mb_for_tier_locked(ls, tier) >= Sum(Promised, Tenant)
<1> DEFINE S == {i \in DOMAIN ls : ls[i].tier <= tier \/ Young(ls[i])}
           Holders == {t \in Tenant : PromiseOf(t) # {}}
           c == charges_locked(ls)
           Fits(t, k) == ls[k].owner = t /\ ls[k].mb = Promised[t]
           h == [t \in Holders |-> CHOOSE k \in S : Fits(t, k)]
<1>1. /\ LeasesSound(ls) /\ \A k \in DOMAIN ls : ls[k] \in Lease
      /\ \A i \in DOMAIN leases : leases[i].ttl > 0 => \E k \in DOMAIN ls : ls[k] = leases[i]
      /\ DOMAIN ls = 1..Len(ls) /\ Len(ls) \in Nat
  <2>1. /\ LeasesSound(ls)
        /\ \A i \in DOMAIN leases : leases[i].ttl > 0 => \E k \in DOMAIN ls : ls[k] = leases[i]
    BY LiveSound DEF BrokerInv
  <2> QED BY <2>1 DEF LeasesSound
<1>2. \A k \in DOMAIN ls : c[k] = ls[k].mb /\ ls[k].mb \in Nat
  <2> TAKE k \in DOMAIN ls
  <2>1. ls[k].mb \in Nat /\ ls[k].base \in Nat \cup {-1}
    BY <1>1 DEF Lease
  <2>2. ~(ls[k].base >= 0)
    BY <1>1 DEF LeasesSound, PromisesCovered
  <2>3. Credit(ls, k) = 0
    BY <2>1, <2>2 DEF Credit
  <2> QED BY <2>1, <2>3 DEF charges_locked
<1>3. \A t \in Holders : \E k \in S : Fits(t, k)
  <2> TAKE t \in Holders
  <2>1. PICK i \in Promising : leases[i].owner = t
    BY DEF PromiseOf
  <2>2. /\ i \in DOMAIN leases /\ leases[i].ttl > 0
        /\ leases[i].tier = TIER_PAID \/ Young(leases[i])
    BY <2>1 DEF Promising, HoldsLive
  <2>3. PICK k \in DOMAIN ls : ls[k] = leases[i]
    BY <1>1, <2>2
  <2>4. Promised[t] = leases[i].mb
    BY <2>1, PromiseFacts DEF PromiseTable
  <2>5. ls[k].tier <= tier \/ Young(ls[k])
    BY <2>2, <2>3 DEF Tier, TIER_PAID, TIER_BACKGROUND
  <2> QED BY <2>1, <2>3, <2>4, <2>5
<1>4. \A t \in Holders : h[t] \in S /\ Fits(t, h[t])
  <2> TAKE t \in Holders
  <2>1. h[t] = CHOOSE k \in S : Fits(t, k)
    OBVIOUS
  <2> HIDE DEF h, Fits, S, Holders
  <2> QED BY <1>3, <2>1
<1>5. h \in [Holders -> S]
  BY <1>4
<1>6. S \in SUBSET DOMAIN ls /\ Holders \in SUBSET Tenant /\ Tenant \ Holders \in SUBSET Tenant
  OBVIOUS
<1>7. IsFiniteSet(S) /\ IsFiniteSet(Holders) /\ IsFiniteSet(Tenant \ Holders) /\ IsFiniteSet(Tenant)
  <2>1. IsFiniteSet(DOMAIN ls)
    BY <1>1, FS_Interval
  <2>2. IsFiniteSet(Tenant)
    BY SizesAssumption
  <2> QED BY <1>6, <2>1, <2>2, FS_Subset
<1>8. \A t \in Tenant \ Holders : Promised[t] = 0
  BY PromiseFacts DEF PromiseTable
<1>9. \A t \in Tenant : Promised[t] \in Int
  BY ClaimTypes DEF ClaimTable
<1> HIDE DEF h, S, Holders, c
<1>10. \A t, u \in Holders : h[t] = h[u] => t = u
  BY <1>4
<1>11. \A t \in Holders : Promised[t] \in Int /\ Promised[t] <= c[h[t]]
  BY <1>2, <1>4, <1>6, <1>9
<1>12. \A k \in S : c[k] \in Nat
  BY <1>2, <1>6
<1>13. Sum(Promised, Holders) <= Sum(c, S)
  BY <1>5, <1>7, <1>10, <1>11, <1>12, SumInject
<1>14. Sum(Promised, Tenant) = Sum(Promised, Holders) + Sum(Promised, Tenant \ Holders)
  BY <1>6, <1>7, <1>9, SumSplit
<1>15. Sum(Promised, Tenant \ Holders) = 0
  BY <1>7, <1>8, SumZero
<1>16. Sum(Promised, Holders) \in Int /\ Sum(c, S) \in Int
  <2>1. \A k \in S : c[k] \in Int
    BY <1>12
  <2> QED BY <1>7, <1>11, <2>1, SumInt
<1>17. leased_mb_for_tier_locked(ls, tier) = Sum(c, S)
  BY DEF leased_mb_for_tier_locked, S, c
<1> QED BY <1>13, <1>14, <1>15, <1>16, <1>17

\* A grant claims at most what its figure of free memory left uncovered.
LEMMA GrantCovered ==
    ASSUME PromisesCovered, BrokerInv, PromiseInv, NEW t \in Tenant, LeaseGranted(t)
    PROVE  Scratch + idle + Sum(Claim, Tenant) + Granted(Live(leases), t) <= Total
<1> DEFINE ls == Live(leases)  tier == req[t].tier  leased == leased_mb_for_tier_locked(ls, tier)
           room == headroom_locked(ls, tier, dfree[t])
<1>0. LeasesSound(ls)
  BY LiveSound DEF BrokerInv
<1>1. Granted(ls, t) > 0 /\ pc[t] = "locked"
  BY DEF LeaseGranted
<1>2. dfree[t] \in Nat \cup {-1} /\ idle \in Nat /\ Scratch \in Nat /\ Total \in Nat /\ Keep \in Nat
  BY SizesAssumption DEF BrokerInv, MiscSound, MemorySound
<1>3. tier \in Tier /\ req[t].mb \in Nat
  BY RequestFields DEF BrokerInv
<1>4. room \in Nat /\ Granted(ls, t) \in Nat
  BY <1>0, <1>2, <1>3, HeadroomNat, GrantedNat DEF BrokerInv
<1>5. Granted(ls, t) <= room
  BY <1>1, <1>3, <1>4 DEF Granted, grant_locked, Least
<1>6. reserved_mb_locked \in Nat
  <2>1. \A o \in Reserver : reserved[o] \in Nat
    BY DEF BrokerInv, MiscSound
  <2> QED BY <2>1, SumNat, SizesAssumption DEF reserved_mb_locked
<1>7. leased >= Sum(Promised, Tenant)
  BY <1>3, ChargesCover
<1>8. leased \in Int
  <2> DEFINE S == {i \in DOMAIN ls : ls[i].tier <= tier \/ Young(ls[i])}
  <2>1. DOMAIN ls = 1..Len(ls) /\ Len(ls) \in Nat
    BY <1>0 DEF LeasesSound
  <2>2. IsFiniteSet(DOMAIN ls)
    BY <2>1, FS_Interval
  <2>3. IsFiniteSet(S)
    BY <2>2, FS_Subset
  <2>4. \A i \in S : charges_locked(ls)[i] \in Int
    BY <1>0, ChargesInt DEF BrokerInv
  <2> HIDE DEF S, ls, tier
  <2>5. Sum(charges_locked(ls), S) \in Int
    BY <2>3, <2>4, SumInt
  <2> QED BY <2>5 DEF leased_mb_for_tier_locked, S
<1>9. floor_for_tier(tier) \in Int /\ floor_for_tier(tier) >= Scratch
  <2>1. Scratch <= Keep \div 4
    BY DEF PromisesCovered
  <2>2. Keep \div 4 <= Keep \div 2 /\ Keep \div 4 <= (Keep * 3) \div 4 /\ Keep \div 4 <= Keep
    BY <1>2
  <2> HIDE DEF tier
  <2> QED BY <1>2, <1>3, <2>1, <2>2
        DEF floor_for_tier, Tier, TIER_PAID, TIER_SUB, TIER_FREE, TIER_BACKGROUND
<1>10. Sum(Claim, Tenant) = Sum(Promised, Tenant) + Sum(Lost, Tenant)
       /\ Sum(Promised, Tenant) \in Int /\ Sum(Lost, Tenant) \in Int
  <2>1. \A u \in Tenant : Promised[u] \in Int /\ Lost[u] \in Int /\ Claim[u] = Promised[u] + Lost[u]
    BY ClaimTypes DEF ClaimTable
  <2> QED BY <2>1, SizesAssumption, SumPlus, SumInt
<1>11. dfree[t] + idle + Sum(Lost, Tenant) <= Total
  BY <1>1 DEF PromiseInv
<1> HIDE DEF ls, leased
<1>12. room <= dfree[t] - floor_for_tier(tier) - reserved_mb_locked - leased
  <2>1. room > 0
    BY <1>1, <1>4, <1>5
  <2>2. room = IF dfree[t] < 0 THEN 0
               ELSE Max0(dfree[t] - floor_for_tier(tier) - reserved_mb_locked - leased)
    BY DEF headroom_locked, leased
  <2> HIDE DEF room, tier
  <2> QED BY <1>2, <1>6, <1>8, <1>9, <2>1, <2>2 DEF Max0
<1> HIDE DEF room, tier
<1>13. Scratch + idle + Sum(Claim, Tenant) + Granted(ls, t) <= Total
  BY <1>2, <1>4, <1>5, <1>6, <1>7, <1>8, <1>9, <1>10, <1>11, <1>12
<1> QED BY <1>13 DEF ls

LEMMA GrantKeepsPromises ==
    ASSUME PromisesCovered, BrokerInv, BrokerInv', PromiseInv, NEW t \in Tenant, LeaseGranted(t)
    PROVE  PromiseInv'
<1> DEFINE ls == Live(leases)  g == Granted(ls, t)  A == Tenant \ {t}
<1>0. /\ IsFiniteSet(Tenant) /\ Total \in Nat /\ Scratch \in Nat /\ idle \in Nat
      /\ mat \in [Tenant -> Nat] /\ pc \in [Tenant -> PC] /\ lid \in [Tenant -> (Tenant \X Nat) \cup {NoId}]
      /\ dfree \in [Tenant -> Nat \cup {-1}]
  BY SizesAssumption DEF BrokerInv, MemorySound, QueueSound, IdsSound, MiscSound
<1>1. /\ pc[t] = "locked" /\ pc' = [pc EXCEPT ![t] = "held"]
      /\ dfree' = [dfree EXCEPT ![t] = -1] /\ UNCHANGED <<mat, idle, scratch>>
      /\ leases' = Append(ls, NewLease(ls, t, g)) /\ lid' = [lid EXCEPT ![t] = NewId(ls, t)]
  BY DEF LeaseGranted, Return, Goto, device, NewLease
<1>2. g \in Nat \ {0} /\ SlotFree(ls) /\ LeasesSound(ls)
  <2>1. LeasesSound(ls)
    BY LiveSound DEF BrokerInv
  <2>2. g > 0
    BY DEF LeaseGranted
  <2> QED BY <2>1, <2>2, GrantedNat
<1>3. Granting(t)
  BY <1>1, <1>2 DEF Granting
<1>4. A \in SUBSET Tenant /\ t \notin A /\ \A u \in A : u \in Tenant /\ u # t
  OBVIOUS
<1>5. ClaimTable /\ ClaimTable' /\ PromiseTable /\ PromiseTable'
  BY ClaimTypes, ClaimTypesNext, PromiseFacts, PromiseFactsNext
<1>6. EntriesOld(A) /\ EntriesStay(A)
  BY <1>3, <1>4, EntriesGranted
<1>7. HoldersStay(A)
  BY <1>0, <1>1, <1>4 DEF HoldersStay
<1>8. HoldingsStay(A)
  <2>1. \A u \in A : mat'[u] = mat[u] /\ mat[u] \in Nat
    BY <1>0, <1>1, <1>4
  <2> QED BY <2>1 DEF HoldingsStay
<1>9. /\ \A j \in Promising' : leases'[j].owner \in A => mat'[leases'[j].owner] <= leases'[j].mb
      /\ \A u \in A : Claim'[u] <= Claim[u]
  BY <1>4, <1>6, <1>7, <1>8, ClaimsShrink
<1>10. \A u \in A : Lost'[u] <= Lost[u]
  BY <1>4, <1>6, <1>7, <1>8, LossesShrink
<1>11. mat[t] = 0 /\ mat'[t] = 0 /\ pc'[t] = "held"
  BY <1>0, <1>1 DEF PromiseInv, Holding
<1>12. PromiseOf(t) = {} /\ Promised[t] = 0 /\ Lost[t] = 0 /\ Claim[t] = 0 /\ Lost'[t] = 0
  <2>1. PromiseOf(t) = {}
    BY <1>1, <1>5 DEF PromiseTable, PromiseOf
  <2> QED BY <1>1, <1>5, <1>11, <2>1 DEF PromiseTable, ClaimTable
<1>13. \A j \in Promising' : leases'[j].owner = t => leases'[j].mb = g
  <2> SUFFICES ASSUME NEW j \in Promising', leases'[j].owner = t PROVE leases'[j].mb = g
    OBVIOUS
  <2>1. PICK n \in 1..(NLeases + 1) :
            NewId(ls, t) = <<t, n>> /\ \A k \in DOMAIN ls : ls[k].id # <<t, n>>
    BY <1>2, NewIdFresh
  <2>2. j \in DOMAIN leases' /\ leases'[j].id = lid'[t]
    BY DEF Promising, HoldsLive
  <2>3. lid'[t] = <<t, n>>
    BY <1>0, <1>1, <2>1
  <2>4. NewLease(ls, t, g).mb = g
    BY DEF NewLease
  <2>5. ls \in Seq(Lease) /\ Len(ls) \in Nat /\ DOMAIN ls = 1..Len(ls)
    BY <1>2 DEF LeasesSound
  <2> DEFINE l == NewLease(ls, t, g)
  <2> HIDE DEF ls, l, g
  <2>6. leases' = Append(ls, l)
    BY <1>1 DEF l
  <2>7. IF j \in DOMAIN ls THEN leases'[j] = ls[j] ELSE leases'[j] = l
    BY <2>2, <2>5, <2>6
  <2> QED BY <2>1, <2>2, <2>3, <2>4, <2>7 DEF l
<1>14. Claim'[t] <= g
  <2>0. Claim'[t] = Promised'[t] + Lost'[t] /\ Promised'[t] \in Nat
    BY <1>5 DEF ClaimTable
  <2>1. CASE PromiseOf(t)' = {}
    BY <1>2, <1>5, <1>12, <2>0, <2>1 DEF PromiseTable
  <2>2. CASE PromiseOf(t)' # {}
    <3>1. PICK j \in Promising' : leases'[j].owner = t
      BY <2>2 DEF PromiseOf
    <3>2. Promised'[t] = g
      BY <1>5, <1>13, <3>1 DEF PromiseTable
    <3> HIDE DEF g
    <3> QED BY <1>2, <1>12, <2>0, <3>2
  <2> QED BY <2>1, <2>2
<1> HIDE DEF g, ls, A
<1>15. Scratch + idle + Sum(Claim', Tenant) <= Total
  <2> DEFINE b == [u \in Tenant |-> IF u = t THEN g ELSE Claim[u]]
  <2>1. \A u \in Tenant : Claim[u] \in Int /\ Claim'[u] \in Int /\ b[u] \in Int
    BY <1>2, <1>5 DEF ClaimTable
  <2>2. \A u \in Tenant : u # t => b[u] = Claim[u]
    OBVIOUS
  <2>3. b[t] = g
    OBVIOUS
  <2>4. \A u \in Tenant : Claim'[u] <= b[u]
    <3> TAKE u \in Tenant
    <3>1. CASE u = t
      BY <1>14, <2>3, <3>1
    <3>2. CASE u # t
      BY <1>9, <2>2, <3>2 DEF A
    <3> QED BY <3>1, <3>2
  <2> HIDE DEF b
  <2>5. Sum(b, Tenant) = Sum(Claim, Tenant) - Claim[t] + b[t]
    BY <1>0, <2>1, <2>2, SumUpdate
  <2>6. Sum(Claim', Tenant) <= Sum(b, Tenant)
    BY <1>0, <2>1, <2>4, SumMonotone
  <2>7. Sum(Claim', Tenant) \in Int /\ Sum(Claim, Tenant) \in Int /\ Sum(b, Tenant) \in Int
    BY <1>0, <2>1, SumInt
  <2>8. Scratch + idle + Sum(Claim, Tenant) + g <= Total
    BY GrantCovered DEF g, ls
  <2> QED BY <1>0, <1>2, <1>12, <2>3, <2>5, <2>6, <2>7, <2>8
<1>16. ASSUME NEW u \in Tenant, pc'[u] = "locked"
       PROVE  dfree'[u] + idle' + Sum(Lost', Tenant) <= Total
  <2>1. u # t /\ pc[u] = "locked" /\ dfree'[u] = dfree[u] /\ dfree[u] \in Int
    BY <1>0, <1>1, <1>16
  <2>2. \A v \in Tenant : Lost[v] \in Int /\ Lost'[v] \in Int /\ Lost'[v] <= Lost[v]
    <3> TAKE v \in Tenant
    <3>1. Lost[v] \in Nat /\ Lost'[v] \in Nat
      BY <1>5 DEF ClaimTable
    <3>2. CASE v = t
      BY <1>12, <3>1, <3>2
    <3>3. CASE v # t
      BY <1>10, <3>1, <3>3 DEF A
    <3> QED BY <3>2, <3>3
  <2>3. Sum(Lost', Tenant) <= Sum(Lost, Tenant) /\ Sum(Lost', Tenant) \in Int /\ Sum(Lost, Tenant) \in Int
    BY <1>0, <2>2, SumMonotone, SumInt
  <2>4. dfree[u] + idle + Sum(Lost, Tenant) <= Total
    BY <2>1 DEF PromiseInv
  <2> QED BY <1>0, <1>1, <2>1, <2>3, <2>4
<1>17. \A j \in Promising' : mat'[leases'[j].owner] <= leases'[j].mb
  <2> TAKE j \in Promising'
  <2>1. leases'[j].owner \in Tenant
    BY <1>5 DEF PromiseTable
  <2>2. CASE leases'[j].owner = t
    BY <1>2, <1>11, <1>13, <2>2
  <2>3. CASE leases'[j].owner # t
    BY <1>9, <2>1, <2>3 DEF A
  <2> QED BY <2>2, <2>3
<1>18. \A u \in Tenant : pc'[u] \notin Holding => mat'[u] = 0
  BY <1>0, <1>1, <1>11 DEF PromiseInv, Holding
<1>19. scratch' <= Scratch
  BY <1>1 DEF PromiseInv
<1> QED BY <1>1, <1>15, <1>16, <1>17, <1>18, <1>19 DEF PromiseInv
\* A step of a caller that holds nothing and is granted nothing.
Passing(t) ==
    /\ pc[t] \notin Holding
    /\ \E w : w \notin {"held", "forced", "locked"} /\ pc' = [pc EXCEPT ![t] = w]
    /\ \A u \in Tenant : u # t => dfree'[u] = dfree[u]
    /\ lid' = lid /\ mat' = mat /\ scratch' = scratch /\ (idle' = idle \/ idle' = 0)
    /\ leases' = leases \/ leases' = Live(leases)

LEMMA PassingSteps ==
    ASSUME BrokerInv, NEW t \in Tenant,
           \/ \E r \in Request : Ask(t, r)
           \/ RefreshRead(t) \/ RefreshFails(t) \/ ovram_set_procs(t)
           \/ LeaseRefused(t) \/ LeaseWaits(t) \/ PressureFrees(t) \/ PressureFreesNothing(t)
           \/ Wake(t) \/ ForceStart(t) \/ GiveUp(t)
    PROVE  Passing(t)
<1>0. pc \in [Tenant -> PC] /\ dfree \in [Tenant -> Nat \cup {-1}]
  BY DEF BrokerInv, QueueSound, MiscSound
<1> USE <1>0 DEF Passing, Holding, Goto, broker, device, locals
<1>1. ASSUME NEW r \in Request, Ask(t, r) PROVE Passing(t)
  BY <1>1 DEF Ask
<1>2. CASE RefreshRead(t)
  BY <1>2 DEF RefreshRead
<1>3. CASE RefreshFails(t)
  BY <1>3 DEF RefreshFails
<1>4. CASE ovram_set_procs(t)
  BY <1>4 DEF ovram_set_procs
<1>5. CASE LeaseRefused(t)
  BY <1>5 DEF LeaseRefused, Return
<1>6. CASE LeaseWaits(t)
  BY <1>6 DEF LeaseWaits
<1>7. CASE PressureFrees(t)
  BY <1>7 DEF PressureFrees
<1>8. CASE PressureFreesNothing(t)
  BY <1>8 DEF PressureFreesNothing
<1>9. CASE Wake(t)
  BY <1>9 DEF Wake
<1>10. CASE ForceStart(t)
  BY <1>10 DEF ForceStart
<1>11. CASE GiveUp(t)
  BY <1>11 DEF GiveUp, Return
<1> QED BY <1>1, <1>2, <1>3, <1>4, <1>5, <1>6, <1>7, <1>8, <1>9, <1>10, <1>11

LEMMA PassingKeepsPromises ==
    ASSUME BrokerInv, BrokerInv', PromiseInv, NEW t \in Tenant, Passing(t)
    PROVE  PromiseInv'
<1>0. pc \in [Tenant -> PC] /\ mat[t] = 0 /\ idle \in Nat /\ scratch <= Scratch
  BY DEF BrokerInv, QueueSound, MemorySound, PromiseInv, Passing
<1>1. PICK w : w \notin {"held", "forced", "locked"} /\ pc' = [pc EXCEPT ![t] = w]
  BY DEF Passing
<1>2. \A u \in Tenant : u # t => /\ pc'[u] = pc[u] /\ lid'[u] = lid[u]
                                 /\ dfree'[u] = dfree[u] /\ mat'[u] = mat[u]
  BY <1>0, <1>1 DEF Passing
<1>3. pc'[t] = w /\ mat'[t] = 0 /\ idle' <= idle /\ scratch' <= Scratch
  BY <1>0, <1>1 DEF Passing
<1>4. EntriesOld(Tenant) /\ EntriesStay(Tenant)
  BY EntriesSame, EntriesSwept DEF Passing
<1> QED BY <1>1, <1>2, <1>3, <1>4, CallerKeepsPromises

\* The other steps that make no promise.
LEMMA OtherCallsKeepPromises ==
    ASSUME BrokerInv, BrokerInv', PromiseInv, NEW t \in Tenant,
           device_free_mb_now(t) \/ ovram_lease_force(t) \/ ovram_release(t) \/ Crash(t)
    PROVE  PromiseInv'
<1>0. /\ pc \in [Tenant -> PC] /\ mat \in [Tenant -> Nat] /\ idle \in Nat /\ scratch <= Scratch
      /\ dfree \in [Tenant -> Nat \cup {-1}] /\ lid \in [Tenant -> (Tenant \X Nat) \cup {NoId}]
      /\ (pc[t] \notin Holding => mat[t] = 0)
  BY DEF BrokerInv, QueueSound, MemorySound, MiscSound, IdsSound, PromiseInv
<1>1. CASE device_free_mb_now(t)
  <2>1. /\ pc[t] = "measure" /\ pc' = [pc EXCEPT ![t] = "locked"]
        /\ leases' = leases /\ lid' = lid /\ mat' = mat /\ idle' = idle /\ scratch' = scratch
    BY <1>1 DEF device_free_mb_now, Goto, broker, device
  <2>2. PICK f : (f = Free \/ f = -1) /\ dfree' = [dfree EXCEPT ![t] = f]
    BY <1>1 DEF device_free_mb_now
  <2>3. EntriesOld(Tenant) /\ EntriesStay(Tenant)
    BY <2>1, EntriesSame
  <2>4. dfree'[t] + idle' + Sum(mat', Tenant) <= Total
    <3>1. /\ Free = Total - Allocated /\ Allocated = idle + scratch + Sum(mat, Tenant)
          /\ Allocated <= Total /\ scratch \in Nat /\ Total \in Nat
      BY SizesAssumption DEF Free, Allocated, BrokerInv, MemorySound
    <3>2. Sum(mat, Tenant) \in Nat
      BY <1>0, SizesAssumption, SumNat
    <3>3. dfree'[t] = f
      BY <1>0, <2>2
    <3>4. f + idle + Sum(mat, Tenant) <= Total
      BY <1>0, <2>2, <3>1, <3>2
    <3> QED BY <2>1, <3>3, <3>4
  <2>5. pc'[t] = "locked" /\ mat'[t] = 0
    BY <1>0, <2>1 DEF Holding
  <2>6. \A u \in Tenant : u # t => /\ pc'[u] = pc[u] /\ lid'[u] = lid[u]
                                   /\ dfree'[u] = dfree[u] /\ mat'[u] = mat[u]
    BY <1>0, <2>1, <2>2
  <2>7. idle' <= idle /\ scratch' <= Scratch
    BY <1>0, <2>1
  <2> QED BY <2>3, <2>4, <2>5, <2>6, <2>7, CallerKeepsPromises
<1>2. CASE ovram_lease_force(t)
  <2> DEFINE ls == Live(leases)
  <2>1. /\ pc[t] = "force" /\ mat' = mat /\ idle' = idle /\ scratch' = scratch
        /\ dfree' = [dfree EXCEPT ![t] = -1]
    BY <1>2 DEF ovram_lease_force, device, Return
  <2>2. mat'[t] = 0
    BY <1>0, <2>1 DEF Holding
  <2>3. CASE SlotFree(ls)
    <3>1. /\ leases' = Append(ls, NewLease(ls, t, req[t].mb)) /\ pc' = [pc EXCEPT ![t] = "forced"]
          /\ lid' = [lid EXCEPT ![t] = NewId(ls, t)]
      BY <1>2, <2>3 DEF ovram_lease_force, Return, Goto, NewLease
    <3>2. req[t].mb \in Nat \ {0}
      BY RequestFields DEF BrokerInv
    <3>3. Granting(t)
      BY <2>3, <3>1, <3>2 DEF Granting
    <3>4. pc'[t] = "forced"
      BY <1>0, <3>1
    <3>5. EntriesOld(Tenant) /\ EntriesStay(Tenant)
      BY <3>3, <3>4, EntriesGranted
    <3>6. \A u \in Tenant : u # t => /\ pc'[u] = pc[u] /\ lid'[u] = lid[u]
                                     /\ dfree'[u] = dfree[u] /\ mat'[u] = mat[u]
      BY <1>0, <2>1, <3>1
    <3>7. idle' <= idle /\ scratch' <= Scratch
      BY <1>0, <2>1
    <3> QED BY <2>2, <3>4, <3>5, <3>6, <3>7, CallerKeepsPromises
  <2>4. CASE ~SlotFree(ls)
    <3>1. leases' = ls /\ lid' = lid /\ pc' = [pc EXCEPT ![t] = "idle"]
      BY <1>2, <2>4 DEF ovram_lease_force, Return, Goto
    <3>2. Passing(t)
      BY <1>0, <2>1, <3>1 DEF Passing, Holding
    <3> QED BY <3>2, PassingKeepsPromises
  <2> QED BY <2>3, <2>4
<1>3. CASE ovram_release(t) \/ Crash(t)
  <2>1. /\ pc' = [pc EXCEPT ![t] = "idle"] /\ lid' = [lid EXCEPT ![t] = NoId]
        /\ dfree' = dfree /\ idle' = idle /\ scratch' = scratch
        /\ mat' = [mat EXCEPT ![t] = 0]
    <3>1. CASE ovram_release(t)
      BY <1>0, <3>1 DEF ovram_release, Goto, device
    <3>2. CASE Crash(t)
      BY <3>2 DEF Crash, Goto
    <3> QED BY <1>3, <3>1, <3>2
  <2>2. EntriesOld(Tenant) /\ EntriesStay(Tenant)
    <3>1. CASE ovram_release(t)
      BY <3>1, EntriesReleased
    <3>2. CASE Crash(t)
      BY <3>2, EntriesSame DEF Crash, broker
    <3> QED BY <1>3, <3>1, <3>2
  <2>3. pc'[t] = "idle" /\ mat'[t] = 0 /\ idle' <= idle /\ scratch' <= Scratch
    BY <1>0, <2>1
  <2>4. \A u \in Tenant : u # t => /\ pc'[u] = pc[u] /\ lid'[u] = lid[u]
                                   /\ dfree'[u] = dfree[u] /\ mat'[u] = mat[u]
    BY <1>0, <2>1
  <2> QED BY <2>2, <2>3, <2>4, CallerKeepsPromises
<1> QED BY <1>1, <1>2, <1>3
\* The steps that move no caller: the clock, the table and the memory.
LEMMA QuietStepsKeepPromises ==
    ASSUME BrokerInv, BrokerInv', PromiseInv, pc' = pc, lid' = lid, dfree' = dfree,
           EntriesOld(Tenant), HoldingsStay(Tenant), idle' = idle, scratch' <= Scratch,
           \A u \in Tenant : pc[u] \notin Holding => mat'[u] = 0,
           EntriesStay(Tenant) \/ \A u \in Tenant : pc[u] # "locked"
    PROVE  PromiseInv'
<1>0. idle \in Nat
  BY DEF BrokerInv, MemorySound
<1>1. HoldersStay(Tenant) /\ MemoryStays /\ FiguresStay
  BY <1>0 DEF HoldersStay, MemoryStays, FiguresStay
<1> QED BY <1>1, PromisesKept

LEMMA QuietPromises ==
    ASSUME BrokerInv, BrokerInv', PromiseInv,
           \/ \E t \in Tenant : ovram_renew(t) \/ Materialise(t) \/ FreeMemory(t)
           \/ \E o \in Reserver, mb \in ReserveMb : ovram_reserve(o, mb)
           \/ ovram_snapshot \/ ScratchChanges \/ Tick \/ UNCHANGED vars
    PROVE  PromiseInv'
<1>0. /\ mat \in [Tenant -> Nat] /\ scratch <= Scratch
      /\ \A u \in Tenant : pc[u] \notin Holding => mat[u] = 0
  BY DEF BrokerInv, MemorySound, PromiseInv
<1>1. mat' = mat => HoldingsStay(Tenant)
  <2>1. \A u \in Tenant : mat[u] <= mat[u]
    BY <1>0
  <2> QED BY <2>1 DEF HoldingsStay
<1>2. ASSUME NEW t \in Tenant, ovram_renew(t) PROVE PromiseInv'
  BY <1>0, <1>1, <1>2, EntriesRenewed, QuietStepsKeepPromises DEF ovram_renew, device, locals
<1>3. ASSUME NEW t \in Tenant, Materialise(t) PROVE PromiseInv'
  <2>1. /\ pc[t] \in Holding /\ mat' = [mat EXCEPT ![t] = @ + 1]
        /\ pc' = pc /\ lid' = lid /\ dfree' = dfree /\ leases' = leases /\ idle' = idle
        /\ scratch' = scratch
    BY <1>3 DEF Materialise, broker, locals
  <2>2. PICK i \in DOMAIN leases : HoldsLive(t, leases[i]) /\ Young(leases[i]) /\ mat[t] < leases[i].mb
    BY <1>3 DEF Materialise
  <2>3. leases[i] \in Lease
    BY DEF BrokerInv, LeasesSound
  <2>4. leases[i].mb \in Nat
    BY <2>3 DEF Lease
  <2>5. HoldingsStay(Tenant)
    <3> SUFFICES ASSUME NEW u \in Tenant, pc'[u] = "held"
                 PROVE  \/ mat'[u] <= mat[u]
                        \/ \E j \in Promising' : leases'[j].owner = u /\ mat'[u] <= leases'[j].mb
      BY DEF HoldingsStay
    <3>1. CASE u # t
      BY <1>0, <2>1, <3>1
    <3>2. CASE u = t
      <4>1. i \in Promising' /\ leases'[i].owner = t
        BY <2>1, <2>2, <3>2 DEF Promising, HoldsLive, Young
      <4>2. mat'[t] <= leases'[i].mb
        BY <1>0, <2>1, <2>2, <2>4
      <4> QED BY <3>2, <4>1, <4>2
    <3> QED BY <3>1, <3>2
  <2>6. \A u \in Tenant : pc[u] \notin Holding => mat'[u] = 0
    BY <1>0, <2>1
  <2>7. EntriesOld(Tenant) /\ EntriesStay(Tenant)
    BY <2>1, EntriesSame
  <2> QED BY <1>0, <2>1, <2>5, <2>6, <2>7, QuietStepsKeepPromises
<1>4. ASSUME NEW t \in Tenant, FreeMemory(t) PROVE PromiseInv'
  <2>1. /\ mat' = [mat EXCEPT ![t] = 0]
        /\ pc' = pc /\ lid' = lid /\ dfree' = dfree /\ leases' = leases /\ idle' = idle
        /\ scratch' = scratch
    BY <1>4 DEF FreeMemory, broker, locals
  <2>2. \A u \in Tenant : mat'[u] <= mat[u] /\ (mat[u] = 0 => mat'[u] = 0)
    BY <1>0, <2>1
  <2>3. HoldingsStay(Tenant)
    BY <2>2 DEF HoldingsStay
  <2>4. EntriesOld(Tenant) /\ EntriesStay(Tenant)
    BY <2>1, EntriesSame
  <2> QED BY <1>0, <2>1, <2>2, <2>3, <2>4, QuietStepsKeepPromises
<1>5. ASSUME NEW o \in Reserver, NEW mb \in ReserveMb, ovram_reserve(o, mb) PROVE PromiseInv'
  BY <1>0, <1>1, <1>5, EntriesSame, QuietStepsKeepPromises DEF ovram_reserve, device, locals
<1>6. CASE ovram_snapshot
  BY <1>0, <1>1, <1>6, EntriesSwept, QuietStepsKeepPromises DEF ovram_snapshot, device, locals
<1>7. CASE ScratchChanges
  <2>1. scratch' <= Scratch
    BY <1>7, SizesAssumption DEF ScratchChanges
  <2> QED BY <1>0, <1>1, <1>7, <2>1, EntriesSame, QuietStepsKeepPromises
        DEF ScratchChanges, broker, locals
<1>8. CASE Tick
  <2>1. \A u \in Tenant : pc[u] # "locked"
    BY <1>8 DEF Tick, Holding
  <2>2. EntriesOld(Tenant)
    BY <1>8, EntriesAged
  <2> QED BY <1>0, <1>1, <1>8, <2>1, <2>2, QuietStepsKeepPromises DEF Tick, device
<1>9. CASE UNCHANGED vars
  BY <1>0, <1>1, <1>9, EntriesSame, QuietStepsKeepPromises DEF vars, broker, device, locals
<1> QED BY <1>2, <1>3, <1>4, <1>5, <1>6, <1>7, <1>8, <1>9

LEMMA PromiseInductive ==
    ASSUME PromisesCovered, BrokerInv, PromiseInv, [Next]_vars
    PROVE  PromiseInv'
<1>0. BrokerInv'
  BY BrokerInductive
<1>1. ASSUME NEW t \in Tenant,
             (\E r \in Request : Ask(t, r)) \/ Step(t) \/ ovram_release(t) \/ Crash(t)
      PROVE  PromiseInv'
  BY <1>0, <1>1, PassingSteps, PassingKeepsPromises, OtherCallsKeepPromises, GrantKeepsPromises DEF Step
<1>2. ASSUME \/ \E t \in Tenant : ovram_renew(t) \/ Materialise(t) \/ FreeMemory(t)
             \/ \E o \in Reserver, mb \in ReserveMb : ovram_reserve(o, mb)
             \/ ovram_snapshot \/ ScratchChanges \/ Tick \/ UNCHANGED vars
      PROVE  PromiseInv'
  BY <1>0, <1>2, QuietPromises
<1> QED BY <1>1, <1>2 DEF Next, HolderStep

LEMMA PromiseInitial == Init => PromiseInv
<1> SUFFICES ASSUME Init PROVE PromiseInv
  OBVIOUS
<1>1. Promising = {}
  BY DEF Promising, Init
<1> QED BY <1>1, SizesAssumption DEF PromiseInv, Init

\* A number a tenant may rely on until the lease expires (ovram.h 20-23): what the
\* live leases promise is free or taken by force, for any number of tenants,
\* requests and slots, although the free memory is read outside the lock and
\* holders crash, expire and renew.  The credit that reported processes earn is
\* left out: with it the promise can be broken, which the stale-credit run shows.
THEOREM PromisesHold == PromisesCovered => (Spec => []NoOvercommit)
<1> SUFFICES ASSUME PromisesCovered PROVE Spec => []NoOvercommit
  OBVIOUS
<1>1. BrokerInv /\ PromiseInv /\ [Next]_vars => (BrokerInv /\ PromiseInv)'
  BY BrokerInductive, PromiseInductive
<1>2. Spec => [](BrokerInv /\ PromiseInv)
  BY <1>1, BrokerInitial, PromiseInitial, PTL DEF Spec
<1> QED BY <1>2, PromiseSound, PTL
-----------------------------------------------------------------------------
(* The embedded models.  Across windows: a window that is past its          *)
(* admission holds every permit, nothing evicts, and the LLM is gone only   *)
(* while some window runs its worker or is about to reload.                 *)

WThread == Chat \cup Window
Admitted == {"chat", "generating", "release"}
Emptied == {"unload_llm", "relay", "reload_llm", "reload_embed"}
ChatSound(c) ==
    /\ model_pc[c] \in {"idle", "guard", "embedding", "admit"} \cup Admitted
    /\ model_pc[c] \in Admitted => c \in holders
WindowSound(w) ==
    /\ model_pc[w] \in {"idle", "unload_embed", "release"} \cup Emptied
    /\ model_pc[w] # "idle" => holders = {w}
    /\ model_pc[w] \in Emptied => embed = FALSE
    /\ model_pc[w] = "relay" => llm = None
WindowInv ==
    /\ DOMAIN model_pc = WThread
    /\ evicted = FALSE
    /\ \A c \in Chat : ChatSound(c)
    /\ \A w \in Window : WindowSound(w)
    /\ llm = None => \E w \in Window : model_pc[w] \in {"relay", "reload_llm"}

LEMMA WindowInvSound == WindowInv => W!WindowClear /\ W!AdmittedChatHasModel
<1> SUFFICES ASSUME WindowInv PROVE W!WindowClear /\ W!AdmittedChatHasModel
  OBVIOUS
<1>1. W!WindowClear
  BY DEF W!WindowClear, W!ollm_ready, WindowInv, WindowSound, Emptied
<1>2. ASSUME NEW c \in Chat, model_pc[c] = "chat", llm = None PROVE FALSE
  <2>1. c \in holders
    BY <1>2 DEF WindowInv, ChatSound, Admitted
  <2>2. PICK w \in Window : model_pc[w] \in {"relay", "reload_llm"}
    BY <1>2 DEF WindowInv
  <2>3. holders = {w}
    BY <2>2 DEF WindowInv, WindowSound
  <2> QED BY <1>2, <2>1, <2>2, <2>3
<1> QED BY <1>1, <1>2 DEF W!AdmittedChatHasModel, W!ollm_ready

\* A chat's step changes neither model, and takes permits only outside windows.
LEMMA ChatKeepsWindows ==
    ASSUME WindowInv, NEW c \in Chat, W!ChatStep(c)
    PROVE  WindowInv'
<1>0. /\ c \notin Window /\ c \in WThread /\ DOMAIN model_pc = WThread /\ evicted = FALSE
      /\ ChatSound(c) /\ \A w \in Window : WindowSound(w) /\ w \in WThread /\ w # c
  BY EmbeddedAssumption DEF W!ThreadAssumption, WindowInv, WThread
<1> DEFINE Moves(S) == \E p \in S : model_pc' = [model_pc EXCEPT ![c] = p]
<1>1. /\ llm' = llm /\ embed' = embed /\ evicted' = evicted
      /\ \/ model_pc[c] \notin Admitted /\ holders' = holders
            /\ Moves({"idle", "guard", "embedding", "admit"})
         \/ model_pc[c] = "admit" /\ holders \cap Window = {} /\ holders' = holders \cup {c} /\ Moves({"chat"})
         \/ model_pc[c] \in Admitted /\ holders' = holders /\ Moves({"generating", "release"})
         \/ model_pc[c] = "release" /\ holders' = holders \ {c} /\ Moves({"idle"})
  <2> USE <1>0 DEF Admitted, W!Goto, W!models, W!scheduler
  <2>1. CASE W!EnsureLoaded(c)
    BY <2>1 DEF W!EnsureLoaded
  <2>2. CASE W!EnsureLock(c) \/ W!EnsureReload(c) \/ W!EnsureUnlock(c)
    BY <2>2 DEF W!EnsureLock, W!EnsureReload, W!EnsureUnlock, ChatSound
  <2>3. CASE W!GuardBegin(c) \/ W!GuardEnd(c)
    BY <2>3 DEF W!GuardBegin, W!GuardEnd
  <2>4. CASE W!Admit(c)
    BY <2>4 DEF W!Admit
  <2>5. CASE W!ChatBegin(c) \/ W!ChatEnd(c)
    BY <2>5 DEF W!ChatBegin, W!ChatEnd
  <2>6. CASE W!Release(c)
    BY <2>6 DEF W!Release
  <2> QED BY <2>1, <2>2, <2>3, <2>4, <2>5, <2>6 DEF W!ChatStep
<1>2. \A w \in Window : model_pc'[w] = model_pc[w]
  BY <1>0, <1>1
<1>3. \A w \in Window : WindowSound(w)'
  <2> TAKE w \in Window
  <2>1. WindowSound(w) /\ w # c /\ model_pc'[w] = model_pc[w]
    BY <1>0, <1>2
  <2>2. model_pc[w] # "idle" => holders' = {w}
    BY <1>0, <1>1, <2>1 DEF WindowSound, ChatSound
  <2> QED BY <1>1, <2>1, <2>2 DEF WindowSound
<1>4. \A d \in Chat : ChatSound(d)'
  <2> TAKE d \in Chat
  <2>1. ChatSound(d) /\ d \in WThread
    BY DEF WindowInv, WThread
  <2>2. CASE d = c
    BY <1>0, <1>1, <2>1, <2>2 DEF ChatSound, Admitted
  <2>3. CASE d # c
    <3>1. model_pc'[d] = model_pc[d] /\ (d \in holders => d \in holders')
      BY <1>0, <1>1, <2>1, <2>3
    <3> QED BY <2>1, <3>1 DEF ChatSound
  <2> QED BY <2>2, <2>3
<1>5. DOMAIN model_pc' = WThread
  BY <1>0, <1>1
<1> QED BY <1>0, <1>1, <1>2, <1>3, <1>4, <1>5 DEF WindowInv

LEMMA WindowKeepsWindows ==
    ASSUME WindowInv, NEW w \in Window, W!WindowStep(w)
    PROVE  WindowInv'
<1>0. /\ w \in WThread /\ DOMAIN model_pc = WThread /\ evicted = FALSE /\ Boot # None
      /\ WindowSound(w) /\ \A c \in Chat : c # w /\ c \in WThread /\ ChatSound(c)
  BY EmbeddedAssumption DEF W!ThreadAssumption, W!ModelAssumption, WindowInv, WThread
<1> DEFINE Moves(p, q) == model_pc[w] = p /\ model_pc' = [model_pc EXCEPT ![w] = q]
<1>1. /\ evicted' = evicted
      /\ \/ /\ Moves("idle", "unload_embed") /\ holders = {} /\ holders' = {w}
            /\ llm' = llm /\ embed' = embed
         \/ /\ Moves("unload_embed", "unload_llm") /\ embed' = FALSE
            /\ llm' = llm /\ holders' = holders
         \/ /\ Moves("unload_llm", "relay") /\ llm' = None
            /\ embed' = embed /\ holders' = holders
         \/ /\ Moves("relay", "reload_llm") /\ llm' = llm /\ embed' = embed /\ holders' = holders
         \/ /\ Moves("reload_llm", "reload_embed") /\ llm' = Boot
            /\ embed' = embed /\ holders' = holders
         \/ Moves("reload_embed", "release") /\ llm' = llm /\ holders' = holders
         \/ Moves("release", "idle") /\ holders' = {} /\ llm' = llm /\ embed' = embed
  <2> USE DEF W!Goto, W!models, W!scheduler
  <2>1. CASE W!WindowAdmit(w)
    BY <2>1 DEF W!WindowAdmit
  <2>2. CASE W!WindowUnloadEmbed(w)
    BY <2>2 DEF W!WindowUnloadEmbed
  <2>3. CASE W!WindowUnloadLlm(w)
    BY <2>3 DEF W!WindowUnloadLlm, W!ollm_shutdown
  <2>4. CASE W!WindowRelay(w)
    BY <2>4 DEF W!WindowRelay
  <2>5. CASE W!WindowReloadLlm(w)
    BY <2>5 DEF W!WindowReloadLlm, W!ollm_init, W!ollm_init_fails
  <2>6. CASE W!WindowReloadEmbed(w)
    BY <2>6 DEF W!WindowReloadEmbed
  <2>7. CASE W!WindowRelease(w)
    BY <2>7 DEF W!WindowRelease
  <2> QED BY <2>1, <2>2, <2>3, <2>4, <2>5, <2>6, <2>7 DEF W!WindowStep
<1>2. \A x \in Window : x # w => model_pc'[x] = model_pc[x] /\ model_pc[x] = "idle"
  <2> SUFFICES ASSUME NEW x \in Window, x # w PROVE model_pc'[x] = model_pc[x] /\ model_pc[x] = "idle"
    OBVIOUS
  <2>1. WindowSound(x) /\ x \in WThread
    BY DEF WindowInv, WThread
  <2>2. model_pc[x] = "idle"
    BY <1>0, <1>1, <2>1 DEF WindowSound
  <2> QED BY <1>0, <1>1, <2>1, <2>2
<1>3. \A x \in Window : WindowSound(x)'
  <2> TAKE x \in Window
  <2>1. CASE x = w
    BY <1>0, <1>1, <2>1 DEF WindowSound, Emptied
  <2>2. CASE x # w
    BY <1>2, <2>2 DEF WindowSound, Emptied
  <2> QED BY <2>1, <2>2
<1>4. \A c \in Chat : ChatSound(c)'
  <2> TAKE c \in Chat
  <2>1. c # w /\ c \in WThread /\ ChatSound(c) /\ model_pc'[c] = model_pc[c]
    BY <1>0, <1>1
  <2>2. model_pc[c] \in Admitted => FALSE
    BY <1>0, <1>1, <2>1 DEF ChatSound, WindowSound
  <2> QED BY <2>1, <2>2 DEF ChatSound
<1>5. ASSUME llm' = None PROVE \E x \in Window : model_pc'[x] \in {"relay", "reload_llm"}
  <2>1. llm = None => model_pc[w] \in {"relay", "reload_llm"}
    BY <1>2 DEF WindowInv
  <2>2. model_pc'[w] \in {"relay", "reload_llm"}
    BY <1>0, <1>1, <1>5, <2>1
  <2> QED BY <2>2
<1>6. DOMAIN model_pc' = WThread
  BY <1>0, <1>1
<1> QED BY <1>0, <1>1, <1>3, <1>4, <1>5, <1>6 DEF WindowInv

LEMMA WindowInductive == WindowInv /\ [W!Next]_(W!vars) => WindowInv'
<1> SUFFICES ASSUME WindowInv, [W!Next]_(W!vars) PROVE WindowInv'
  OBVIOUS
<1>1. CASE UNCHANGED W!vars
  BY <1>1 DEF W!vars, WindowInv, ChatSound, WindowSound
<1>2. CASE W!IdleElapses
  BY <1>2 DEF W!IdleElapses, W!models, WindowInv, ChatSound, WindowSound
<1> QED BY <1>1, <1>2, ChatKeepsWindows, WindowKeepsWindows DEF W!Next

LEMMA WindowInitial == W!Init => WindowInv
<1> SUFFICES ASSUME W!Init PROVE WindowInv
  OBVIOUS
<1>1. \A t \in WThread : model_pc[t] = "idle"
  BY DEF W!Init, W!Thread, WThread
<1>2. DOMAIN model_pc = WThread /\ evicted = FALSE /\ llm # None
  BY EmbeddedAssumption DEF W!Init, W!Thread, WThread, W!ModelAssumption
<1> QED BY <1>1, <1>2 DEF WindowInv, ChatSound, WindowSound, WThread, Emptied, Admitted
\* With the hook, the admin calls and loads that fail: the owner of the swap
\* lock is the only thread that loads or unloads, and where it is about to load
\* no model is resident.
Loading == {"reload", "load", "swap_load", "swap_restore"}
LifecycleInv ==
    /\ L!TypeOK /\ stranded = FALSE
    /\ \A t \in L!Thread : model_pc[t] \in Loading => llm = None

\* What one thread's step does: it moves, and changes the model only as the
\* owner of the lock
Locking == {"reload", "unlock", "evict", "load", "unload", "swap_unload", "swap_load", "swap_restore"}
ThreadMoves(t, p) ==
    /\ p \in L!PC /\ model_pc' = [model_pc EXCEPT ![t] = p]
    /\ \/ p \in Locking /\ swap_lock' = t /\ (swap_lock = None \/ swap_lock = t)
       \/ p \notin Locking /\ swap_lock = t /\ swap_lock' = None
       \/ p \notin Locking /\ swap_lock # t /\ swap_lock' = swap_lock
    /\ stranded' = FALSE /\ llm' \in Model \cup {None}
    /\ p \in Loading => llm' = None
    /\ llm' = llm \/ swap_lock = t
    /\ embed' \in BOOLEAN /\ active_path' \in Model /\ evicted' \in BOOLEAN
    /\ gs_path' \in Model \cup {None} /\ fresh' \in BOOLEAN
    /\ holders' \subseteq Chat

LEMMA MovesKeepLifecycle ==
    ASSUME LifecycleInv, NEW t \in L!Thread, NEW p, ThreadMoves(t, p),
           target' \in [Admin -> [next : Model, previous : Model]]
    PROVE  LifecycleInv'
<1>0. /\ model_pc \in [L!Thread -> L!PC] /\ swap_lock \in L!Thread \cup {None} /\ None \notin L!Thread
      /\ \A u \in L!Thread : u = swap_lock <=> model_pc[u] \in Locking
  BY EmbeddedAssumption DEF LifecycleInv, L!TypeOK, L!ThreadAssumption, Locking
<1>1. model_pc' \in [L!Thread -> L!PC] /\ swap_lock' \in L!Thread \cup {None}
  BY <1>0 DEF ThreadMoves
<1>2. \A u \in L!Thread : model_pc'[u] = IF u = t THEN p ELSE model_pc[u]
  BY <1>0 DEF ThreadMoves
<1>3. \A u \in L!Thread : u = swap_lock' <=> model_pc'[u] \in Locking
  BY <1>0, <1>2 DEF ThreadMoves
<1>4. \A u \in L!Thread : model_pc'[u] \in Loading => llm' = None
  <2> SUFFICES ASSUME NEW u \in L!Thread, model_pc'[u] \in Loading PROVE llm' = None
    OBVIOUS
  <2>1. CASE u = t
    BY <1>2, <2>1 DEF ThreadMoves
  <2>2. CASE u # t
    <3>1. model_pc[u] \in Loading /\ llm = None /\ u = swap_lock
      BY <1>0, <1>2, <2>2 DEF LifecycleInv, Loading, Locking
    <3> QED BY <2>2, <3>1 DEF ThreadMoves
  <2> QED BY <2>1, <2>2
<1>5. L!TypeOK'
  BY <1>1, <1>3 DEF L!TypeOK, ThreadMoves, Locking
<1> QED BY <1>4, <1>5 DEF LifecycleInv, ThreadMoves

LEMMA ChatKeepsLifecycle ==
    ASSUME LifecycleInv, NEW c \in Chat, L!ChatStep(c)
    PROVE  \E p : ThreadMoves(c, p) /\ target' = target
<1>0. /\ c \in L!Thread /\ None \notin L!Thread /\ None \notin Model /\ swap_lock \in L!Thread \cup {None}
      /\ (c = swap_lock <=> model_pc[c] \in Locking)
      /\ llm \in Model \cup {None} /\ stranded = FALSE /\ embed \in BOOLEAN /\ active_path \in Model
      /\ evicted \in BOOLEAN /\ gs_path \in Model \cup {None} /\ fresh \in BOOLEAN
      /\ holders \subseteq Chat /\ (model_pc[c] \in Loading => llm = None)
  BY EmbeddedAssumption
     DEF LifecycleInv, L!TypeOK, L!ThreadAssumption, L!ModelAssumption, L!Thread, Locking
<1> USE <1>0 DEF ThreadMoves, L!PC, Locking, Loading, L!Goto, L!models, L!scheduler,
                 L!ollm_ready, L!ollm_init, L!ollm_init_fails, L!ollm_shutdown
<1>1. CASE L!EnsureLoaded(c)
  BY <1>1 DEF L!EnsureLoaded
<1>2. CASE L!EnsureLock(c)
  <2>1. CASE ~L!ollm_ready /\ evicted
    <3>1. ThreadMoves(c, "reload")
      BY <1>2, <2>1 DEF L!EnsureLock
    <3> QED BY <1>2, <3>1 DEF L!EnsureLock
  <2>2. CASE ~(~L!ollm_ready /\ evicted)
    <3>1. ThreadMoves(c, "unlock")
      BY <1>2, <2>2 DEF L!EnsureLock
    <3> QED BY <1>2, <3>1 DEF L!EnsureLock
  <2> QED BY <2>1, <2>2
<1>3. CASE L!EnsureReload(c)
  BY <1>3 DEF L!EnsureReload
<1>4. CASE L!EnsureUnlock(c)
  BY <1>4 DEF L!EnsureUnlock
<1>5. CASE L!GuardBegin(c)
  BY <1>5 DEF L!GuardBegin
<1>6. CASE L!GuardEnd(c)
  BY <1>6 DEF L!GuardEnd
<1>7. CASE L!Admit(c)
  BY <1>7 DEF L!Admit
<1>8. CASE L!ChatBegin(c)
  BY <1>8 DEF L!ChatBegin
<1>9. CASE L!ChatEnd(c)
  BY <1>9 DEF L!ChatEnd
<1>10. CASE L!Release(c)
  BY <1>10 DEF L!Release
<1> QED BY <1>1, <1>2, <1>3, <1>4, <1>5, <1>6, <1>7, <1>8, <1>9, <1>10 DEF L!ChatStep

LEMMA HookKeepsLifecycle ==
    ASSUME LifecycleInv, NEW h \in Hook, L!PressureLock(h) \/ L!PressureEvict(h)
    PROVE  \E p : ThreadMoves(h, p) /\ target' = target
<1>0. /\ h \in L!Thread /\ None \notin L!Thread /\ swap_lock \in L!Thread \cup {None}
      /\ (h = swap_lock <=> model_pc[h] \in Locking)
      /\ llm \in Model \cup {None} /\ stranded = FALSE /\ embed \in BOOLEAN /\ active_path \in Model
      /\ evicted \in BOOLEAN /\ gs_path \in Model \cup {None} /\ fresh \in BOOLEAN /\ holders \subseteq Chat
  BY EmbeddedAssumption DEF LifecycleInv, L!TypeOK, L!ThreadAssumption, L!Thread, Locking
<1> USE <1>0 DEF ThreadMoves, L!PC, Locking, Loading, L!Goto, L!models, L!ollm_shutdown
<1>1. CASE L!PressureLock(h)
  BY <1>1 DEF L!PressureLock
<1>2. CASE L!PressureEvict(h)
  BY <1>2 DEF L!PressureEvict
<1> QED BY <1>1, <1>2

LEMMA AdminKeepsLifecycle ==
    ASSUME LifecycleInv, NEW a \in Admin, L!AdminStep(a)
    PROVE  (\E p : ThreadMoves(a, p)) /\ target' \in [Admin -> [next : Model, previous : Model]]
<1>0. /\ a \in L!Thread /\ None \notin L!Thread /\ None \notin Model /\ swap_lock \in L!Thread \cup {None}
      /\ (a = swap_lock <=> model_pc[a] \in Locking)
      /\ llm \in Model \cup {None} /\ stranded = FALSE /\ embed \in BOOLEAN /\ active_path \in Model
      /\ evicted \in BOOLEAN /\ gs_path \in Model \cup {None} /\ fresh \in BOOLEAN
      /\ holders \subseteq Chat /\ (model_pc[a] \in Loading => llm = None)
  BY EmbeddedAssumption
     DEF LifecycleInv, L!TypeOK, L!ThreadAssumption, L!ModelAssumption, L!Thread, Locking
<1>1. target \in [Admin -> [next : Model, previous : Model]]
  BY DEF LifecycleInv, L!TypeOK
<1>2. target[a].next \in Model /\ target[a].previous \in Model
  BY <1>1
<1> USE <1>0, <1>2 DEF ThreadMoves, L!PC, Locking, Loading, L!Goto, L!models, L!scheduler,
                 L!ollm_ready, L!ollm_init, L!ollm_init_fails, L!ollm_shutdown, L!AdminEnds,
                 L!llm_admin_load_fails
<1>3. ASSUME NEW op \in {"load", "unload", "swap_unload"}, NEW m \in Model, L!AdminLock(a, op, m)
      PROVE  (\E p : ThreadMoves(a, p)) /\ target' \in [Admin -> [next : Model, previous : Model]]
  <2>1. ThreadMoves(a, op)
    BY <1>3 DEF L!AdminLock
  <2>2. target' = [target EXCEPT ![a] = [next |-> m, previous |-> active_path]]
    BY <1>3 DEF L!AdminLock
  <2> QED BY <1>1, <2>1, <2>2
<1>4. CASE L!AdminUnload(a)
  BY <1>1, <1>4 DEF L!AdminUnload
<1>5. CASE L!AdminLoad(a)
  BY <1>1, <1>5 DEF L!AdminLoad
<1>6. CASE L!SwapUnload(a)
  BY <1>1, <1>6 DEF L!SwapUnload
<1>7. CASE L!SwapLoad(a)
  BY <1>1, <1>7 DEF L!SwapLoad
<1>8. CASE L!SwapRestore(a)
  BY <1>1, <1>8 DEF L!SwapRestore
<1> QED BY <1>3, <1>4, <1>5, <1>6, <1>7, <1>8 DEF L!AdminStep

LEMMA LifecycleInductive == LifecycleInv /\ [L!Next]_(L!vars) => LifecycleInv'
<1> SUFFICES ASSUME LifecycleInv, [L!Next]_(L!vars) PROVE LifecycleInv'
  OBVIOUS
<1>0. target \in [Admin -> [next : Model, previous : Model]]
  BY DEF LifecycleInv, L!TypeOK
<1>1. CASE UNCHANGED L!vars
  BY <1>1 DEF L!vars, LifecycleInv, L!TypeOK
<1>2. CASE L!IdleElapses
  BY <1>2 DEF L!IdleElapses, L!models, LifecycleInv, L!TypeOK
<1>3. ASSUME NEW c \in Chat, L!ChatStep(c) PROVE LifecycleInv'
  <2>1. c \in L!Thread
    BY DEF L!Thread
  <2> QED BY <1>0, <1>3, <2>1, ChatKeepsLifecycle, MovesKeepLifecycle
<1>4. ASSUME NEW h \in Hook, L!PressureLock(h) \/ L!PressureEvict(h) PROVE LifecycleInv'
  <2>1. h \in L!Thread
    BY DEF L!Thread
  <2> QED BY <1>0, <1>4, <2>1, HookKeepsLifecycle, MovesKeepLifecycle
<1>5. ASSUME NEW a \in Admin, L!AdminStep(a) PROVE LifecycleInv'
  <2>1. a \in L!Thread
    BY DEF L!Thread
  <2> QED BY <1>5, <2>1, AdminKeepsLifecycle, MovesKeepLifecycle
<1> QED BY <1>1, <1>2, <1>3, <1>4, <1>5 DEF L!Next

LEMMA LifecycleInitial == L!Init => LifecycleInv
<1> SUFFICES ASSUME L!Init PROVE LifecycleInv
  OBVIOUS
<1>1. \A t \in L!Thread : model_pc[t] = "idle" /\ t # None
  BY EmbeddedAssumption DEF L!Init, L!ThreadAssumption
<1> QED BY <1>1, EmbeddedAssumption DEF L!Init, L!ModelAssumption, LifecycleInv, L!TypeOK, L!PC, Loading
DeviceInv ==
    /\ part = "window" => WindowInv
    /\ part = "lifecycle" => LifecycleInv
DeviceNext == VramMoves \/ WindowMoves \/ LifecycleMoves

LEMMA DeviceInductive == DeviceInv /\ [DeviceNext]_allVars => DeviceInv'
<1> SUFFICES ASSUME DeviceInv, [DeviceNext]_allVars PROVE DeviceInv'
  OBVIOUS
<1>1. CASE VramMoves \/ UNCHANGED allVars
  <2>1. part' = part /\ UNCHANGED modelVars
    BY <1>1 DEF VramMoves, allVars
  <2>2. WindowInv => WindowInv'
    <3>1. UNCHANGED W!vars
      BY <2>1 DEF modelVars, W!vars
    <3> QED BY <3>1, WindowInductive
  <2>3. LifecycleInv => LifecycleInv'
    <3>1. UNCHANGED L!vars
      BY <2>1 DEF modelVars, L!vars
    <3> QED BY <3>1, LifecycleInductive
  <2> QED BY <2>1, <2>2, <2>3 DEF DeviceInv
<1>2. CASE WindowMoves
  BY <1>2, WindowInductive DEF WindowMoves, DeviceInv
<1>3. CASE LifecycleMoves
  BY <1>3, LifecycleInductive DEF LifecycleMoves, DeviceInv
<1> QED BY <1>1, <1>2, <1>3 DEF DeviceNext

LEMMA DeviceInvariant == DeviceSpec => []DeviceInv
<1>1. DeviceInit => DeviceInv
  BY WindowInitial, LifecycleInitial DEF DeviceInit, DeviceInv
<1>2. DeviceSpec => DeviceInit /\ [][DeviceNext]_allVars
  BY DEF DeviceSpec, DeviceNext
<1> QED BY <1>1, <1>2, DeviceInductive, PTL

\* "unloads its embedded LLM and embedding model only after that exclusive
\* background admission, runs the one-shot 3D worker, reloads both models"
\* (README): for any number of chats and windows, the worker of a window runs
\* with no embedded model resident, and a chat admitted before or after finds
\* one (handle_proxy_as_tier, llm_ensure_loaded).
THEOREM WindowsKeep == DeviceSpec => []WindowKept
<1>1. DeviceInv => WindowKept
  BY WindowInvSound DEF DeviceInv, WindowKept
<1> QED BY <1>1, DeviceInvariant, PTL

\* A load never overwrites a resident model, whichever chats reload, hooks evict
\* and admin calls load, unload and swap, and however loads fail
\* (g_llm_swap_lock, llm_admin_load).
THEOREM NoModelStranded == DeviceSpec => []NothingStranded
<1>1. DeviceInv => NothingStranded
  BY DEF DeviceInv, NothingStranded, LifecycleInv, L!NothingStranded
<1> QED BY <1>1, DeviceInvariant, PTL

\* The model a generation reads is neither unloaded nor replaced under it:
\* every step that changes it takes the write side of the lifecycle lock, which
\* a generation holds for reading (ollm_init, ollm_shutdown, ollm_chat).
THEOREM GenerationsKeepModel == DeviceSpec => GenerationKeepsModel
<1> DEFINE Kept == \A c \in Chat :
                model_pc[c] = "generating" /\ model_pc'[c] = "generating" => llm' = llm
<1>1. ASSUME W!Next PROVE llm' = llm \/ W!NoReader
  <2> USE DEF W!models, W!ollm_init, W!ollm_init_fails, W!ollm_shutdown
  <2>1. ASSUME NEW c \in Chat, W!ChatStep(c) PROVE llm' = llm \/ W!NoReader
    BY <2>1 DEF W!ChatStep, W!EnsureLoaded, W!EnsureLock, W!EnsureReload, W!EnsureUnlock, W!GuardBegin,
                W!GuardEnd, W!Admit, W!ChatBegin, W!ChatEnd, W!Release
  <2>2. ASSUME NEW w \in Window, W!WindowStep(w) PROVE llm' = llm \/ W!NoReader
    BY <2>2 DEF W!WindowStep, W!WindowAdmit, W!WindowUnloadEmbed, W!WindowUnloadLlm, W!WindowRelay,
                W!WindowReloadLlm, W!WindowReloadEmbed, W!WindowRelease
  <2>3. CASE W!IdleElapses
    BY <2>3 DEF W!IdleElapses
  <2> QED BY <1>1, <2>1, <2>2, <2>3 DEF W!Next
<1>2. ASSUME L!Next PROVE llm' = llm \/ L!NoReader
  <2> USE DEF L!models, L!ollm_init, L!ollm_init_fails, L!ollm_shutdown
  <2>1. ASSUME NEW c \in Chat, L!ChatStep(c) PROVE llm' = llm \/ L!NoReader
    BY <2>1 DEF L!ChatStep, L!EnsureLoaded, L!EnsureLock, L!EnsureReload, L!EnsureUnlock, L!GuardBegin,
                L!GuardEnd, L!Admit, L!ChatBegin, L!ChatEnd, L!Release
  <2>2. ASSUME NEW h \in Hook, L!PressureLock(h) \/ L!PressureEvict(h) PROVE llm' = llm \/ L!NoReader
    BY <2>2 DEF L!PressureLock, L!PressureEvict
  <2>3. ASSUME NEW a \in Admin, L!AdminStep(a) PROVE llm' = llm \/ L!NoReader
    BY <2>3 DEF L!AdminStep, L!AdminLock, L!AdminUnload, L!AdminLoad, L!SwapUnload, L!SwapLoad,
                L!SwapRestore, L!llm_admin_load_fails
  <2>4. CASE L!IdleElapses
    BY <2>4 DEF L!IdleElapses
  <2> QED BY <1>2, <2>1, <2>2, <2>3, <2>4 DEF L!Next
<1>3. [DeviceNext]_allVars => [Kept]_modelVars
  <2> SUFFICES ASSUME [DeviceNext]_allVars PROVE [Kept]_modelVars
    OBVIOUS
  <2>1. CASE VramMoves \/ UNCHANGED allVars
    BY <2>1 DEF VramMoves, allVars
  <2>2. CASE WindowMoves
    BY <1>1, <2>2 DEF WindowMoves, W!NoReader
  <2>3. CASE LifecycleMoves
    BY <1>2, <2>3 DEF LifecycleMoves, L!NoReader
  <2> QED BY <2>1, <2>2, <2>3 DEF DeviceNext
<1>4. DeviceSpec => [][DeviceNext]_allVars
  BY PTL DEF DeviceSpec, DeviceNext
<1> QED BY <1>3, <1>4, PTL DEF GenerationKeepsModel
\* The composed device takes only steps of the broker, so what is proved of the
\* broker alone (BrokerTables, LeasesEndByRight, PromisesHold) holds beside the
\* embedded models.
THEOREM BrokerInDevice == DeviceSpec => Spec
<1>1. DeviceInit => Init
  BY DEF DeviceInit
<1>2. [DeviceNext]_allVars => [Next]_vars
  BY DEF DeviceNext, VramMoves, WindowMoves, LifecycleMoves, allVars
<1>3. DeviceSpec => DeviceInit /\ [][DeviceNext]_allVars
  BY DEF DeviceSpec, DeviceNext
<1> QED BY <1>1, <1>2, <1>3, PTL DEF Spec
=============================================================================
