---------------------------- MODULE Jobs_proofs ----------------------------
(***************************************************************************)
(* Proofs about Jobs, for any set of keys, workers, gpus and lease lengths *)
(* and any busy timeout: "A GPU can have only one unexpired lease"; and    *)
(* about LocalWorker, the workers that drive the queue.                    *)
(***************************************************************************)
EXTENDS LocalWorker, TLAPS

IInv == TypeOK /\ OneLeasePerGpu

LEMMA InvInit == Init => IInv
BY AttemptsAssumption DEF Init, IInv, TypeOK, OneLeasePerGpu, Running, State

(* A claim: the rows it requeues leave the running state, and the gpu it    *)
(* takes has no running row left, because a row whose lease is not expired  *)
(* at the clock the claim read makes the gpu busy at that same clock.       *)
LEMMA ClaimJobInv ==
    ASSUME IInv, NEW w \in Worker, NEW g \in Gpu, NEW k \in Key, NEW avail, NEW kinds,
           NEW L \in Leases, NEW lag \in 0..BusyS,
           ClaimJob(w, g, k, avail, kinds, L, lag)
    PROVE  IInv'
<1> USE DEF IInv, TypeOK
<1>1. lag \in Int /\ L \in Int
  BY LeasesAssumption
<1>2. /\ state' = [j \in Key |-> IF j = k THEN "running"
                                 ELSE IF j \in Expired(lag) THEN "queued" ELSE state[j]]
      /\ worker' = [j \in Key |-> IF j = k THEN w
                                  ELSE IF j \in Expired(lag) THEN NoWorker ELSE worker[j]]
      /\ gpu' = [j \in Key |-> IF j = k THEN g
                               ELSE IF j \in Expired(lag) THEN NoGpu ELSE gpu[j]]
  BY DEF ClaimJob, Requeued
<1>3. TypeOK'
  <2>1. lease' \in [Key -> Int]
    BY <1>1 DEF ClaimJob, Requeued
  <2>2. attempts' \in [Key -> 0..MaxAttempts]
    BY AttemptsAssumption DEF ClaimJob
  <2>3. state' \in [Key -> State] /\ worker' \in [Key -> Worker \cup {NoWorker}]
        /\ gpu' \in [Key -> Gpu \cup {NoGpu}]
    BY <1>2 DEF State
  <2>4. \A j \in Key : (state'[j] = "running") = (worker'[j] # NoWorker)
    BY <1>2, NamesAssumption DEF Expired, Running
  <2>5. \A j \in Key : (state'[j] = "running") = (gpu'[j] # NoGpu)
    BY <1>2, NamesAssumption DEF Expired, Running
  <2> QED BY <2>1, <2>2, <2>3, <2>4, <2>5
<1>4. \A j \in Running : j \notin Expired(lag) => gpu[j] # g
  BY <1>1 DEF ClaimJob, Busy, Expired, Running
<1>5. \A j \in Running' : j = k \/ (j \in Running /\ j \notin Expired(lag) /\ gpu'[j] = gpu[j])
  BY <1>2 DEF Running
<1>6. gpu'[k] = g
  BY <1>2
<1>7. OneLeasePerGpu'
  BY <1>4, <1>5, <1>6 DEF OneLeasePerGpu
<1> QED BY <1>3, <1>7

LEMMA ClaimNothingInv ==
    ASSUME IInv, NEW g \in Gpu, NEW avail, NEW kinds, NEW lag \in 0..BusyS,
           ClaimNothing(g, avail, kinds, lag)
    PROVE  IInv'
<1> USE DEF IInv, TypeOK
<1>1. TypeOK'
  BY DEF ClaimNothing, Requeued, Expired, Running, State
<1>2. \A j \in Running' : j \in Running /\ gpu'[j] = gpu[j]
  BY DEF ClaimNothing, Requeued, Expired, Running
<1> QED BY <1>1, <1>2 DEF OneLeasePerGpu

LEMMA InvNext == IInv /\ [Next]_vars => IInv'
<1> SUFFICES ASSUME IInv, [Next]_vars PROVE IInv'
  OBVIOUS
<1> USE DEF IInv, TypeOK, OneLeasePerGpu, Running, State
<1>1. CASE Tick
  BY <1>1, LeasesAssumption DEF Tick, Aged
<1>2. ASSUME NEW k \in Key, Submit(k) PROVE IInv'
  BY <1>2 DEF Submit
<1>3. ASSUME NEW k \in Key, Retry(k) PROVE IInv'
  BY <1>3 DEF Retry
<1>4. ASSUME NEW w \in Worker, NEW g \in Gpu, Claim(w, g) PROVE IInv'
  <2> HIDE DEF IInv, TypeOK, OneLeasePerGpu
  <2> QED BY <1>4, ClaimJobInv, ClaimNothingInv DEF Claim
<1>5. ASSUME NEW w \in Worker, NEW k \in Key, NEW L \in Leases, NEW lag \in 0..BusyS,
             Heartbeat(w, k, L, lag)
      PROVE  IInv'
  BY <1>5, LeasesAssumption DEF Heartbeat
<1>6. ASSUME NEW w \in Worker, NEW k \in Key, NEW to \in Settlement, Settle(w, k, to)
      PROVE  IInv'
  BY <1>6, NamesAssumption DEF Settle, Settlement, Owns
<1>7. CASE UNCHANGED vars
  BY <1>7 DEF vars
<1> QED BY <1>1, <1>2, <1>3, <1>4, <1>5, <1>6, <1>7 DEF Next

\* Rows are well formed: worker, gpu and lease columns are set exactly while a
\* row is running.
THEOREM RowsWellFormed == Spec => []TypeOK
<1>1. IInv => TypeOK
  BY DEF IInv
<1> QED BY <1>1, InvInit, InvNext, PTL DEF Spec

\* No two rows are ever running on one gpu, however old the clock readings are
\* that claims, expiries and heartbeats work with.
THEOREM GpuExclusive == Spec => []OneLeasePerGpu
<1>1. IInv => OneLeasePerGpu
  BY DEF IInv
<1> QED BY <1>1, InvInit, InvNext, PTL DEF Spec

\* The table of the queue is sound in every reachable state.
THEOREM TableSound == Spec => []RowsSound
<1>1. TypeOK /\ OneLeasePerGpu <=> RowsSound
  BY DEF RowsSound
<1>2. QED  BY <1>1, RowsWellFormed, GpuExclusive, PTL

\* A finished job stays finished.
THEOREM ResultsAreFinal == Spec => SucceededIsFinal
<1>1. TypeOK /\ [Next]_vars
      => [\A k \in Key : state[k] = "succeeded" => state'[k] = "succeeded"]_vars
  <2> SUFFICES ASSUME TypeOK, Next, NEW k \in Key, state[k] = "succeeded"
               PROVE  state'[k] = "succeeded"
    BY DEF vars
  <2> USE DEF TypeOK
  <2>1. ASSUME NEW w, NEW g, Claim(w, g) PROVE state'[k] = "succeeded"
    <3>1. \A lag : k \notin Expired(lag)
      BY DEF Expired, Running
    <3>2. ASSUME NEW j \in Key, NEW avail, NEW kinds, NEW L, NEW lag,
                 ClaimJob(w, g, j, avail, kinds, L, lag)
          PROVE  state'[k] = "succeeded"
      <4>1. j # k
        BY <3>1, <3>2 DEF ClaimJob, IsFirst, Claimable
      <4> QED BY <3>1, <3>2, <4>1 DEF ClaimJob, Requeued
    <3>3. ASSUME NEW avail, NEW kinds, NEW lag, ClaimNothing(g, avail, kinds, lag)
          PROVE  state'[k] = "succeeded"
      BY <3>1, <3>3 DEF ClaimNothing, Requeued
    <3> QED BY <2>1, <3>2, <3>3 DEF Claim
  <2>2. CASE Tick
    BY <2>2 DEF Tick
  <2>3. ASSUME NEW j \in Key, Submit(j) \/ Retry(j) PROVE state'[k] = "succeeded"
    BY <2>3 DEF Submit, Retry
  <2>4. ASSUME NEW w, NEW j \in Key, NEW L, NEW lag, Heartbeat(w, j, L, lag)
        PROVE  state'[k] = "succeeded"
    BY <2>4 DEF Heartbeat
  <2>5. ASSUME NEW w, NEW j \in Key, NEW to, Settle(w, j, to) PROVE state'[k] = "succeeded"
    BY <2>5 DEF Settle, Owns
  <2> QED BY <2>1, <2>2, <2>3, <2>4, <2>5 DEF Next
<1> QED BY <1>1, RowsWellFormed, PTL DEF Spec, SucceededIsFinal
-----------------------------------------------------------------------------
(* The workers.  That a beating worker owns its job is not inductive: the  *)
(* lease of its row has to outlast whatever the heartbeat thread is doing, *)
(* so WInv keeps a floor under it.  A refresh leaves at least              *)
(* LeaseSeconds - BusyS on the lease, the thread then sleeps BeatEvery and *)
(* its next beat commits within BusyS of reading the clock.                *)

LeaseLongEnough == LeaseSeconds > BeatEvery + 2 * BusyS

WTypeOK ==
    /\ wpc \in [Worker -> {"idle", "claiming", "dispatching", "finishing", "failing", "down"}]
    /\ wkey \in [Worker -> Key \cup {NoKey}]
    /\ wlag \in [Worker -> 0..BusyS]
    /\ hb \in [Worker -> {"off", "waiting", "beating"}]
    /\ hbt \in [Worker -> Nat]
    /\ late \in SUBSET [worker : Worker, key : Key, lag : 0..BusyS]
    /\ \A w \in Worker :
        /\ Working(w) => wkey[w] \in Key
        /\ hb[w] # "off" => Working(w)
        /\ hb[w] = "waiting" => hbt[w] <= BeatEvery
        /\ hb[w] = "beating" => hbt[w] <= BusyS

Floor(w) == LeaseSeconds - BusyS - hbt[w] - (IF hb[w] = "beating" THEN BeatEvery ELSE 0)
Kept(w) == hb[w] # "off" => Owns(w, wkey[w]) /\ lease[wkey[w]] >= Floor(w)
WInv == IInv /\ WTypeOK /\ \A w \in Worker : Kept(w)

LEMMA Times == /\ BusyS \in Nat /\ LeaseSeconds \in Nat /\ LeaseSeconds > 0
               /\ BeatEvery \in Nat /\ BeatEvery >= 1 /\ LeaseSeconds \in Leases
<1>1. BusyS \in Nat /\ LeaseSeconds \in Nat /\ LeaseSeconds > 0 /\ LeaseSeconds \in Leases
  BY LeasesAssumption, WorkerAssumption
<1>2. LeaseSeconds \div 3 \in Nat
  BY <1>1
<1> QED BY <1>1, <1>2 DEF BeatEvery

\* A worker only ever performs operations of the queue.
LEMMA WorkerStep == WTypeOK /\ [WNext]_allvars => [Next]_vars
<1> SUFFICES ASSUME WTypeOK, [WNext]_allvars PROVE [Next]_vars
  OBVIOUS
<1> USE DEF WTypeOK
<1>1. CASE WTick
  BY <1>1 DEF WTick, Next
<1>2. ASSUME NEW k \in Key, SubmitJob(k) \/ RetryJob(k) PROVE [Next]_vars
  BY <1>2 DEF SubmitJob, RetryJob, Next
<1>c. ASSUME NEW w \in Worker, NEW k \in Key, ClaimNow(w, k) PROVE Next
  <2>1. GpuOf[w] \in Gpu /\ wlag[w] \in 0..BusyS
    BY WorkerAssumption
  <2>2. Claim(w, GpuOf[w])
    BY <1>c, <2>1, Times DEF ClaimNow, Claim
  <2> QED BY <2>1, <2>2 DEF Next
<1>s. ASSUME NEW w \in Worker, NEW from, NEW to, Step(w, from, to) PROVE UNCHANGED vars
  BY <1>s DEF Step
<1>3. ASSUME NEW w \in Worker, Advance(w) PROVE [Next]_vars
  <2>1. CASE ClaimGot(w)
    BY <1>c, <2>1 DEF ClaimGot
  <2>2. CASE ClaimEmpty(w)
    <3>1. GpuOf[w] \in Gpu /\ wlag[w] \in 0..BusyS
      BY WorkerAssumption
    <3>2. Claim(w, GpuOf[w])
      BY <2>2, <3>1, Times DEF ClaimEmpty, Claim
    <3> QED BY <3>1, <3>2 DEF Next
  <2>3. CASE Finish(w)
    BY <2>3 DEF Finish, Working, Next, Settlement
  <2>4. CASE Fail(w)
    <3>1. wkey[w] \in Key /\ \E to \in Settlement : Settle(w, wkey[w], to)
      BY <2>4 DEF Fail, Working, Settlement
    <3> QED BY <3>1 DEF Next
  <2>5. CASE FailRefused(w)
    BY <2>5 DEF FailRefused
  <2> QED BY <1>3, <1>s, <2>1, <2>2, <2>3, <2>4, <2>5
          DEF Advance, ClaimStart, DispatchOk, DispatchRaises, FinishRefused, Restart
<1>4. ASSUME NEW w \in Worker, Beat(w) PROVE [Next]_vars
  <2>1. CASE BeatOk(w)
    <3>1. wkey[w] \in Key /\ hbt[w] \in 0..BusyS
      BY <2>1, Times DEF BeatOk
    <3> QED BY <2>1, <3>1, Times DEF BeatOk, Next
  <2> QED BY <1>4, <2>1 DEF Beat, BeatStart, BeatEnds
<1>5. ASSUME NEW w \in Worker, ClaimLost(w) \/ FinishError(w) \/ FailError(w) \/ Crash(w)
      PROVE  [Next]_vars
  BY <1>5, <1>c, <1>s DEF ClaimLost, FinishError, FailError, Crash
<1>6. ASSUME NEW b \in late, LateBeat(b) PROVE [Next]_vars
  <2>1. b.worker \in Worker /\ b.key \in Key /\ b.lag \in 0..BusyS
    OBVIOUS
  <2> QED BY <1>6, <2>1, Times DEF LateBeat, Next
<1>7. CASE UNCHANGED allvars
  BY <1>7 DEF allvars
<1> QED BY <1>1, <1>2, <1>3, <1>4, <1>5, <1>6, <1>7 DEF WNext

\* The local state of the workers is well typed.
LEMMA WTypeNext == WTypeOK /\ [WNext]_allvars => WTypeOK'
<1> SUFFICES ASSUME WTypeOK, [WNext]_allvars PROVE WTypeOK'
  OBVIOUS
<1> USE Times DEF WTypeOK, Working, own
<1>1. CASE WTick
  <2>1. wlag' \in [Worker -> 0..BusyS]
    BY <1>1 DEF WTick
  <2>2. hbt' \in [Worker -> Nat]
    BY <1>1 DEF WTick
  <2>3. late' \in SUBSET [worker : Worker, key : Key, lag : 0..BusyS]
    <3> SUFFICES ASSUME NEW b \in late
                 PROVE  [b EXCEPT !.lag = @ + 1] \in [worker : Worker, key : Key, lag : 0..BusyS]
      BY <1>1 DEF WTick
    <3> QED BY <1>1 DEF WTick
  <2>4. UNCHANGED <<wpc, wkey, hb>>
    BY <1>1 DEF WTick
  <2>5. \A w \in Worker : /\ hb[w] = "waiting" => hbt'[w] <= BeatEvery
                          /\ hb[w] = "beating" => hbt'[w] <= BusyS
    BY <1>1 DEF WTick
  <2> QED BY <2>1, <2>2, <2>3, <2>4, <2>5
<1>2. ASSUME NEW k \in Key, SubmitJob(k) \/ RetryJob(k) PROVE WTypeOK'
  BY <1>2 DEF SubmitJob, RetryJob
<1>l. ASSUME NEW w \in Worker, NEW where \in {"idle", "down"}, Leave(w, where) PROVE WTypeOK'
  <2>1. late' \in SUBSET [worker : Worker, key : Key, lag : 0..BusyS]
    BY <1>l DEF Leave, StopHeartbeat
  <2> QED BY <1>l, <2>1 DEF Leave, StopHeartbeat
<1>s. ASSUME NEW w \in Worker, NEW from, NEW to, Step(w, from, to),
             \/ from = "idle" /\ to = "claiming"
             \/ from \in {"dispatching", "finishing"} /\ to \in {"finishing", "failing"}
             \/ from = "down" /\ to = "idle"
      PROVE  WTypeOK'
  BY <1>s DEF Step
<1>3. ASSUME NEW w \in Worker, Advance(w) PROVE WTypeOK'
  <2>1. CASE ClaimGot(w)
    <3> HIDE DEF NoKey
    <3>1. PICK k \in Key : wkey' = [wkey EXCEPT ![w] = k]
      BY <2>1 DEF ClaimGot
    <3> QED BY <2>1, <3>1 DEF ClaimGot
  <2> QED BY <1>3, <1>l, <1>s, <2>1
          DEF Advance, ClaimStart, DispatchOk, DispatchRaises, FinishRefused, Restart,
              ClaimEmpty, Finish, Fail, FailRefused
<1>4. ASSUME NEW w \in Worker, Beat(w) PROVE WTypeOK'
  BY <1>4 DEF Beat, BeatStart, BeatOk, BeatEnds
<1>5. ASSUME NEW w \in Worker, ClaimLost(w) \/ FinishError(w) \/ FailError(w) \/ Crash(w)
      PROVE  WTypeOK'
  BY <1>5, <1>l, <1>s DEF ClaimLost, FinishError, FailError, Crash
<1>6. ASSUME NEW b \in late, LateBeat(b) PROVE WTypeOK'
  BY <1>6 DEF LateBeat
<1>7. CASE UNCHANGED allvars
  BY <1>7 DEF allvars
<1> QED BY <1>1, <1>2, <1>3, <1>4, <1>5, <1>6, <1>7 DEF WNext

\* While the floor holds, no claim finds the row of a beating worker expired.
LEMMA NotExpired ==
    ASSUME WInv, LeaseLongEnough, NEW w \in Worker, hb[w] # "off", NEW lag \in 0..BusyS
    PROVE  wkey[w] \in Key /\ wkey[w] \in Running /\ wkey[w] \notin Expired(lag)
<1>1. /\ wkey[w] \in Key /\ state[wkey[w]] = "running" /\ hbt[w] \in Nat
      /\ lease[wkey[w]] >= Floor(w) /\ lease[wkey[w]] \in Int
      /\ hb[w] = "waiting" \/ hb[w] = "beating"
      /\ hb[w] = "waiting" => hbt[w] <= BeatEvery
      /\ hb[w] = "beating" => hbt[w] <= BusyS
  BY DEF WInv, IInv, TypeOK, WTypeOK, Kept, Owns
<1>2. Floor(w) > 0 /\ Floor(w) \in Int
  BY <1>1, Times DEF Floor, LeaseLongEnough
<1>3. lag \in Int /\ lag >= 0
  BY Times
<1>4. ~(lease[wkey[w]] <= -lag)
  BY <1>1, <1>2, <1>3
<1> QED BY <1>1, <1>4 DEF Running, Expired

\* A claim, by whichever worker, leaves that row as it is.
LEMMA ClaimSpares ==
    ASSUME WInv, LeaseLongEnough, NEW w \in Worker, hb[w] # "off", NEW v \in Worker,
           \/ \E k \in Key : ClaimNow(v, k)
           \/ \E avail \in Mib, kinds \in KindSets :
                ClaimNothing(GpuOf[v], avail, kinds, wlag[v])
    PROVE  /\ state'[wkey[w]] = state[wkey[w]] /\ worker'[wkey[w]] = worker[wkey[w]]
           /\ lease'[wkey[w]] = lease[wkey[w]]
<1> DEFINE j == wkey[w]
<1>1. wlag[v] \in 0..BusyS
  BY DEF WInv, WTypeOK
<1>2. j \in Key /\ j \in Running /\ j \notin Expired(wlag[v]) /\ state[j] = "running"
  BY <1>1, NotExpired DEF Running
<1> HIDE DEF j
<1>3. ASSUME NEW k \in Key, ClaimNow(v, k)
      PROVE  state'[j] = state[j] /\ worker'[j] = worker[j] /\ lease'[j] = lease[j]
  <2>1. j # k
    BY <1>2, <1>3 DEF ClaimNow, ClaimJob, IsFirst, Claimable
  <2> QED BY <1>2, <1>3, <2>1 DEF ClaimNow, ClaimJob, Requeued
<1>4. ASSUME NEW avail \in Mib, NEW kinds \in KindSets,
             ClaimNothing(GpuOf[v], avail, kinds, wlag[v])
      PROVE  state'[j] = state[j] /\ worker'[j] = worker[j] /\ lease'[j] = lease[j]
  BY <1>2, <1>4 DEF ClaimNothing, Requeued
<1> QED BY <1>3, <1>4 DEF j

\* A row its worker does not settle keeps its owner.
LEMMA SettleSpares ==
    ASSUME WInv, NEW w \in Worker, hb[w] # "off", NEW v \in Worker, v # w,
           NEW to, Settle(v, wkey[v], to)
    PROVE  /\ state'[wkey[w]] = state[wkey[w]] /\ worker'[wkey[w]] = worker[wkey[w]]
           /\ lease'[wkey[w]] = lease[wkey[w]]
<1>1. wkey[w] \in Key /\ worker[wkey[w]] = w /\ worker[wkey[v]] = v
  BY DEF WInv, WTypeOK, Kept, Owns, Settle
<1> QED BY <1>1 DEF Settle, WInv, IInv, TypeOK

\* What keeps a row and its worker's thread as they are, or renews the lease, keeps
\* the floor.
LEMMA KeptSame ==
    ASSUME WInv, NEW w \in Worker,
           hb'[w] = hb[w] /\ hbt'[w] = hbt[w] /\ wkey'[w] = wkey[w],
           hb[w] # "off" =>
             /\ state'[wkey[w]] = state[wkey[w]] /\ worker'[wkey[w]] = worker[wkey[w]]
             /\ lease'[wkey[w]] = lease[wkey[w]]
    PROVE  Kept(w)'
BY DEF WInv, Kept, Owns, Floor

LEMMA KeptNext == LeaseLongEnough /\ WInv /\ [WNext]_allvars => \A w \in Worker : Kept(w)'
<1> SUFFICES ASSUME LeaseLongEnough, WInv, [WNext]_allvars, NEW w \in Worker PROVE Kept(w)'
  OBVIOUS
<1>t. /\ WTypeOK /\ IInv /\ TypeOK /\ Kept(w) /\ hbt[w] \in Nat
      /\ hb[w] \in {"off", "waiting", "beating"}
      /\ hb[w] # "off" => Owns(w, wkey[w]) /\ wkey[w] \in Key /\ Working(w)
      /\ \A k \in Key : lease[k] \in Int
  BY DEF WInv, WTypeOK, IInv, TypeOK, Kept
<1>off. ASSUME hb'[w] = "off" PROVE Kept(w)'
  BY <1>off DEF Kept
<1>1. CASE WTick
  <2>1. /\ wkey' = wkey /\ hb' = hb /\ state' = state /\ worker' = worker
        /\ hb[w] # "off" => hbt'[w] = hbt[w] + 1
        /\ lease' = Aged
    BY <1>1 DEF WTick, Tick
  <2>2. ASSUME hb[w] # "off" PROVE lease'[wkey[w]] >= lease[wkey[w]] - 1 /\ lease'[wkey[w]] \in Int
    BY <1>t, <2>1, <2>2 DEF Aged
  <2>3. ASSUME hb[w] # "off" PROVE Floor(w) \in Int /\ Floor(w)' = Floor(w) - 1
    BY <1>t, <2>1, <2>3, Times DEF Floor
  <2>4. ASSUME hb[w] # "off" PROVE lease'[wkey[w]] >= Floor(w)'
    BY <1>t, <2>2, <2>3, <2>4 DEF Kept
  <2> QED BY <1>t, <2>1, <2>4 DEF Kept, Owns
<1>2. ASSUME NEW k \in Key, SubmitJob(k) \/ RetryJob(k) PROVE Kept(w)'
  <2>1. UNCHANGED <<wkey, hb, hbt, worker, lease>>
    BY <1>2 DEF SubmitJob, RetryJob, Submit, Retry, own
  <2>2. hb[w] # "off" => state'[wkey[w]] = state[wkey[w]]
    BY <1>2, <1>t DEF SubmitJob, RetryJob, Submit, Retry, Owns, TypeOK
  <2> QED BY <2>1, <2>2, KeptSame
<1>l. ASSUME NEW v \in Worker, NEW where, Leave(v, where)
      PROVE  /\ v = w => hb'[w] = "off"
             /\ v # w => hb'[w] = hb[w] /\ hbt'[w] = hbt[w] /\ wkey'[w] = wkey[w]
  BY <1>l, <1>t DEF Leave, StopHeartbeat, WTypeOK
<1>u. ASSUME UNCHANGED vars, UNCHANGED <<wkey, hb, hbt>> PROVE Kept(w)'
  BY <1>u, KeptSame DEF vars
<1>s. ASSUME NEW v \in Worker, NEW from, NEW to, Step(v, from, to) PROVE Kept(w)'
  BY <1>s, <1>u DEF Step
<1>x. ASSUME NEW v \in Worker, NEW where, Leave(v, where), UNCHANGED vars PROVE Kept(w)'
  BY <1>x, <1>l, <1>off, KeptSame DEF vars
<1>3. ASSUME NEW v \in Worker, Advance(v) PROVE Kept(w)'
  <2>1. CASE ClaimGot(v)
    <3>1. CASE v # w
      <4>1. hb'[w] = hb[w] /\ hbt'[w] = hbt[w] /\ wkey'[w] = wkey[w]
        BY <1>t, <2>1, <3>1 DEF ClaimGot, WTypeOK
      <4>2. \E k \in Key : ClaimNow(v, k)
        BY <2>1 DEF ClaimGot
      <4> QED BY <4>1, <4>2, ClaimSpares, KeptSame
    <3>2. CASE v = w
      <4>1. PICK k \in Key : ClaimNow(w, k) /\ wkey' = [wkey EXCEPT ![w] = k]
        BY <2>1, <3>2 DEF ClaimGot
      <4>2. /\ state'[k] = "running" /\ worker'[k] = w
            /\ lease'[k] = LeaseSeconds - wlag[w]
        BY <1>t, <4>1 DEF ClaimNow, ClaimJob, Requeued, TypeOK
      <4>3. hb'[w] = "waiting" /\ hbt'[w] = 0 /\ wkey'[w] = k /\ wlag[w] \in 0..BusyS
        BY <1>t, <2>1, <3>2, <4>1 DEF ClaimGot, WTypeOK
      <4> QED BY <4>2, <4>3, Times DEF Kept, Floor, Owns
    <3> QED BY <3>1, <3>2
  <2>2. CASE ClaimEmpty(v)
    <3>1. Leave(v, "idle") /\ \E avail \in Mib, kinds \in KindSets :
                                ClaimNothing(GpuOf[v], avail, kinds, wlag[v])
      BY <2>2 DEF ClaimEmpty
    <3> QED BY <3>1, <1>l, <1>off, ClaimSpares, KeptSame
  <2>3. CASE Finish(v)
    BY <2>3, <1>l, <1>off, SettleSpares, KeptSame DEF Finish
  <2>4. CASE Fail(v)
    BY <2>4, <1>l, <1>off, SettleSpares, KeptSame DEF Fail
  <2>5. CASE FailRefused(v)
    BY <2>5, <1>x DEF FailRefused
  <2> QED BY <1>3, <1>s, <2>1, <2>2, <2>3, <2>4, <2>5
          DEF Advance, ClaimStart, DispatchOk, DispatchRaises, FinishRefused, Restart
<1>4. ASSUME NEW v \in Worker, Beat(v) PROVE Kept(w)'
  <2>1. CASE BeatStart(v)
    <3>1. CASE v # w
      BY <1>t, <2>1, <3>1, KeptSame DEF BeatStart, WTypeOK, vars
    <3>2. CASE v = w
      <4>1. /\ hb[w] = "waiting" /\ hbt[w] <= BeatEvery
            /\ hb'[w] = "beating" /\ hbt'[w] = 0 /\ UNCHANGED <<wkey, state, worker, lease>>
        BY <1>t, <2>1, <3>2 DEF BeatStart, WTypeOK, vars
      <4>2. lease[wkey[w]] >= LeaseSeconds - BusyS - hbt[w] /\ lease[wkey[w]] \in Int
        BY <1>t, <4>1, Times DEF Kept, Floor
      <4>3. lease[wkey[w]] >= LeaseSeconds - BusyS - BeatEvery
        BY <1>t, <4>1, <4>2, Times
      <4> QED BY <1>t, <4>1, <4>3, Times DEF Kept, Floor, Owns
    <3> QED BY <3>1, <3>2
  <2>2. CASE BeatOk(v)
    <3>1. CASE v # w
      <4>1. hb'[w] = hb[w] /\ hbt'[w] = hbt[w] /\ wkey'[w] = wkey[w]
        BY <1>t, <2>2, <3>1 DEF BeatOk, WTypeOK
      <4>2. ASSUME hb[w] # "off" PROVE worker[wkey[v]] = v /\ worker[wkey[w]] = w
        BY <1>t, <2>2, <4>2 DEF BeatOk, Heartbeat, Owns
      <4>3. UNCHANGED <<state, worker>> /\ \A k \in Key : k # wkey[v] => lease'[k] = lease[k]
        BY <1>t, <2>2 DEF BeatOk, Heartbeat, TypeOK
      <4> QED BY <1>t, <3>1, <4>1, <4>2, <4>3, KeptSame
    <3>2. CASE v = w
      <4>1. /\ hb[w] = "beating" /\ hbt[w] <= BusyS
            /\ hb'[w] = "waiting" /\ hbt'[w] = 0 /\ UNCHANGED <<wkey, state, worker>>
            /\ wkey[w] \in Key /\ lease'[wkey[w]] = LeaseSeconds - hbt[w]
        BY <1>t, <2>2, <3>2 DEF BeatOk, WTypeOK, Heartbeat, TypeOK
      <4> QED BY <1>t, <4>1, Times DEF Kept, Floor, Owns
    <3> QED BY <3>1, <3>2
  <2>3. CASE BeatEnds(v)
    BY <1>t, <2>3, <1>off, KeptSame DEF BeatEnds, WTypeOK, vars
  <2> QED BY <1>4, <2>1, <2>2, <2>3 DEF Beat
<1>5. ASSUME NEW v \in Worker, ClaimLost(v) \/ FinishError(v) \/ FailError(v) \/ Crash(v)
      PROVE  Kept(w)'
  <2>1. CASE ClaimLost(v)
    <3>1. CASE \E k \in Key : ClaimNow(v, k)
      BY <2>1, <3>1, <1>l, <1>off, ClaimSpares, KeptSame DEF ClaimLost
    <3> QED BY <2>1, <3>1, <1>x DEF ClaimLost
  <2> QED BY <1>5, <2>1, <1>x, <1>s DEF FinishError, FailError, Crash
<1>6. ASSUME NEW b \in late, LateBeat(b) PROVE Kept(w)'
  <2>1. UNCHANGED <<wkey, hb, hbt>> /\ b.lag \in 0..BusyS /\ b.key \in Key
    BY <1>6, <1>t DEF LateBeat, WTypeOK
  <2>2. CASE UNCHANGED vars
    BY <1>u, <2>1, <2>2
  <2>3. CASE Heartbeat(b.worker, b.key, LeaseSeconds, b.lag)
    <3>1. UNCHANGED <<state, worker>>
          /\ \A k \in Key : lease'[k] = IF k = b.key THEN LeaseSeconds - b.lag ELSE lease[k]
      BY <1>t, <2>3 DEF Heartbeat, TypeOK
    <3>2. CASE hb[w] # "off" /\ wkey[w] = b.key
      <4>1. lease'[wkey[w]] = LeaseSeconds - b.lag
        BY <1>t, <3>1, <3>2
      <4>2. Floor(w)' <= LeaseSeconds - BusyS
        BY <1>t, <2>1, Times DEF Floor
      <4>3. Floor(w)' \in Int
        BY <1>t, <2>1, Times DEF Floor
      <4>4. lease'[wkey[w]] >= Floor(w)'
        BY <2>1, <4>1, <4>2, <4>3, Times
      <4> QED BY <1>t, <2>1, <3>1, <3>2, <4>4 DEF Kept, Owns
    <3>3. CASE ~(hb[w] # "off" /\ wkey[w] = b.key)
      BY <1>t, <2>1, <3>1, <3>3, KeptSame
    <3> QED BY <3>2, <3>3
  <2> QED BY <1>6, <2>2, <2>3 DEF LateBeat
<1>7. CASE UNCHANGED allvars
  BY <1>7, <1>u DEF allvars, own
<1> QED BY <1>1, <1>2, <1>3, <1>4, <1>5, <1>6, <1>7 DEF WNext

LEMMA WTypeInit == WInit => WTypeOK
BY Times DEF WInit, WTypeOK, Working, NoKey

\* The workers of local_worker.py only ever use the queue through its operations, with
\* clock readings at most BusyS old: what is proved of the queue holds of them.
THEOREM WorkersUseTheQueue == WSpec => Spec
<1>1. WInit => Init
  BY DEF WInit
<1> QED BY <1>1, WTypeInit, WTypeNext, WorkerStep, PTL DEF WSpec, Spec

LEMMA WInvInit == WInit => WInv
<1>1. WInit => \A w \in Worker : Kept(w)
  BY DEF WInit, Kept
<1> QED BY <1>1, InvInit, WTypeInit DEF WInit, WInv

LEMMA WInvNext == LeaseLongEnough /\ WInv /\ [WNext]_allvars => WInv'
BY WorkerStep, WTypeNext, InvNext, KeptNext DEF WInv

\* A worker whose heartbeat thread is alive never loses its job, for any number of
\* workers, gpus, jobs and faults, if the lease outlasts a heartbeat interval and two
\* waits for the write lock.
THEOREM BeatingWorkersOwn == LeaseLongEnough => (WSpec => []LeaseKept)
<1> SUFFICES ASSUME LeaseLongEnough PROVE WSpec => []LeaseKept
  OBVIOUS
<1>1. WInv => LeaseKept
  BY DEF WInv, Kept, LeaseKept
<1>2. WInv /\ [WNext]_allvars => WInv'
  BY WInvNext
<1> QED BY <1>1, <1>2, WInvInit, PTL DEF WSpec
=============================================================================
