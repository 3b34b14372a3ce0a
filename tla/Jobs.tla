-------------------------------- MODULE Jobs --------------------------------
(***************************************************************************)
(* The job queue of src/src/jobs.c: one SQLite table shared by every       *)
(* process, each operation one statement or one BEGIN IMMEDIATE            *)
(* transaction, so each is one atomic action here.                         *)
(*                                                                         *)
(* The clock is wall time in seconds.  Times are kept relative to the      *)
(* present: lease[k] is lease_expires - now of a running row, and lag is   *)
(* how long ago the caller read the clock (now_unix() runs before the      *)
(* statement, which may wait busy_timeout for the write lock).             *)
(* Any process may call any operation at any moment here; LocalWorker      *)
(* drives the same actions the way runtime/local_worker.py does.           *)
(***************************************************************************)
EXTENDS Integers, FiniteSets

CONSTANTS
    Key,        \* job keys; their order breaks ties
    Worker,     \* worker names
    Gpu,        \* gpu names
    NoWorker, NoGpu,  \* the empty strings of a row that is not running
    Priority,   \* Priority[k], fixed at submission
    Kind,       \* Kind[k]
    Need,       \* Need[k], required_mib
    Mib,        \* the amounts of free memory a caller may report
    KindSets,   \* the kinds a caller may accept
    Leases,     \* lease lengths callers ask for, in seconds
    BusyS,      \* busy_timeout, in seconds
    MaxAttempts \* attempts saturates here; callers compare it only below

ASSUME KeyAssumption == Key \subseteq Nat
ASSUME NamesAssumption == NoWorker \notin Worker /\ NoGpu \notin Gpu
ASSUME LeasesAssumption == Leases \subseteq Nat \ {0} /\ BusyS \in Nat
ASSUME AttemptsAssumption == MaxAttempts \in Nat \ {0}

VARIABLES
    state,      \* state column, "absent" while there is no row
    worker, gpu, lease, attempts,
    created,    \* created_unix, as the rank of its second among the rows'
    ticked      \* a second has passed since the newest row was created

vars == <<state, worker, gpu, lease, attempts, created, ticked>>

State == {"absent", "queued", "running", "succeeded", "failed"}
Running == {k \in Key : state[k] = "running"}

-----------------------------------------------------------------------------
Init ==
    /\ state = [k \in Key |-> "absent"]
    /\ worker = [k \in Key |-> NoWorker]
    /\ gpu = [k \in Key |-> NoGpu]
    /\ lease = [k \in Key |-> 0]
    /\ attempts = [k \in Key |-> 0]
    /\ created = [k \in Key |-> 0]
    /\ ticked = FALSE

\* omni_job_submit: ON CONFLICT DO NOTHING, so only an absent row changes
Newest == {k \in Key : state[k] # "absent" /\ \A j \in Key : created[j] <= created[k]}
Submit(k) ==
    /\ state[k] = "absent"
    /\ state' = [state EXCEPT ![k] = "queued"]
    /\ created' = [created EXCEPT ![k] =
                      IF Newest = {} THEN 1
                      ELSE created[CHOOSE j \in Newest : TRUE] + (IF ticked THEN 1 ELSE 0)]
    /\ ticked' = FALSE
    /\ UNCHANGED <<worker, gpu, lease, attempts>>

\* The rows that a claim with a clock read lag seconds ago requeues.
Expired(lag) == {k \in Running : lease[k] <= -lag}

\* A column once the expired rows are back in the queue
Requeued(lag, column, value) ==
    [k \in Key |-> IF k \in Expired(lag) THEN value ELSE column[k]]

\* SELECT 1 ... WHERE state='running' AND gpu=? AND lease_expires>?
\* Seeded fault: the lease is compared with a second, fresh reading of the clock.
Busy_FreshClock(g, lag) == \E k \in Running : gpu[k] = g /\ lease[k] > 0
Busy(g, lag) == \E k \in Running : gpu[k] = g /\ lease[k] > -lag

\* ORDER BY priority DESC, created_unix, job_key
Before(j, k) ==
    \/ Priority[j] > Priority[k]
    \/ Priority[j] = Priority[k] /\ created[j] < created[k]
    \/ Priority[j] = Priority[k] /\ created[j] = created[k] /\ j < k
Claimable(avail, kinds, lag) ==
    {k \in Key : /\ state[k] = "queued" \/ k \in Expired(lag)
                 /\ Need[k] <= avail /\ Kind[k] \in kinds}
IsFirst(k, S) == k \in S /\ \A j \in S \ {k} : Before(k, j)

\* omni_job_claim that returns 1 with the job k
ClaimJob(w, g, k, avail, kinds, L, lag) ==
    /\ ~Busy(g, lag)
    /\ IsFirst(k, Claimable(avail, kinds, lag))
    /\ state' = [Requeued(lag, state, "queued") EXCEPT ![k] = "running"]
    /\ worker' = [Requeued(lag, worker, NoWorker) EXCEPT ![k] = w]
    /\ gpu' = [Requeued(lag, gpu, NoGpu) EXCEPT ![k] = g]
    /\ lease' = [Requeued(lag, lease, 0) EXCEPT ![k] = L - lag]
    /\ attempts' = [attempts EXCEPT ![k] = IF @ < MaxAttempts THEN @ + 1 ELSE @]
    /\ UNCHANGED <<created, ticked>>

\* omni_job_claim that returns 0: the requeue is committed all the same
ClaimNothing(g, avail, kinds, lag) ==
    /\ Busy(g, lag) \/ Claimable(avail, kinds, lag) = {}
    /\ state' = Requeued(lag, state, "queued")
    /\ worker' = Requeued(lag, worker, NoWorker)
    /\ gpu' = Requeued(lag, gpu, NoGpu)
    /\ lease' = Requeued(lag, lease, 0)
    /\ UNCHANGED <<attempts, created, ticked>>

\* The rows that an UPDATE ... WHERE state='running' AND worker=? finds.
\* Seeded fault: the worker is not part of the condition.
Owns_AnyWorker(w, k) == state[k] = "running"
Owns(w, k) == state[k] = "running" /\ worker[k] = w

\* omni_job_heartbeat that returns 1: the lease runs from the clock it read
Heartbeat(w, k, L, lag) ==
    /\ Owns(w, k)
    /\ lease' = [lease EXCEPT ![k] = L - lag]
    /\ UNCHANGED <<state, worker, gpu, attempts, created, ticked>>

\* settle that returns 1: omni_job_finish ("succeeded"), omni_job_fail
\* ("queued" with retry, "failed" without)
Settle(w, k, to) ==
    /\ Owns(w, k)
    /\ state' = [state EXCEPT ![k] = to]
    /\ worker' = [worker EXCEPT ![k] = NoWorker]
    /\ gpu' = [gpu EXCEPT ![k] = NoGpu]
    /\ lease' = [lease EXCEPT ![k] = 0]
    /\ UNCHANGED <<attempts, created, ticked>>
Settlement == {"succeeded", "queued", "failed"}

\* omni_job_retry.
\* Seeded fault: a finished job can be retried too.
Retry_AnySettled(k) ==
    /\ state[k] \in {"failed", "succeeded"}
    /\ state' = [state EXCEPT ![k] = "queued"]
    /\ UNCHANGED <<worker, gpu, lease, attempts, created, ticked>>
Retry(k) ==
    /\ state[k] = "failed"
    /\ state' = [state EXCEPT ![k] = "queued"]
    /\ UNCHANGED <<worker, gpu, lease, attempts, created, ticked>>

\* A second passes; below -BusyS a lease is expired for every caller
Aged == [k \in Key |-> IF k \in Running /\ lease[k] > -BusyS THEN lease[k] - 1 ELSE lease[k]]
Tick ==
    /\ lease' = Aged
    /\ ticked' = TRUE
    /\ UNCHANGED <<state, worker, gpu, attempts, created>>

Claim(w, g) ==
    \E avail \in Mib, kinds \in KindSets, L \in Leases, lag \in 0..BusyS :
        \/ \E k \in Key : ClaimJob(w, g, k, avail, kinds, L, lag)
        \/ ClaimNothing(g, avail, kinds, lag)

Next ==
    \/ Tick
    \/ \E k \in Key : Submit(k) \/ Retry(k)
    \/ \E w \in Worker, g \in Gpu : Claim(w, g)
    \/ \E w \in Worker, k \in Key, L \in Leases, lag \in 0..BusyS : Heartbeat(w, k, L, lag)
    \/ \E w \in Worker, k \in Key, to \in Settlement : Settle(w, k, to)

Spec == Init /\ [][Next]_vars

-----------------------------------------------------------------------------
\* Types, and the columns of a row: worker, gpu and lease are set exactly while it runs.
TypeOK ==
    /\ state \in [Key -> State]
    /\ worker \in [Key -> Worker \cup {NoWorker}]
    /\ gpu \in [Key -> Gpu \cup {NoGpu}]
    /\ lease \in [Key -> Int]
    /\ attempts \in [Key -> 0..MaxAttempts]
    /\ \A k \in Key : (state[k] = "running") = (worker[k] # NoWorker)
    /\ \A k \in Key : (state[k] = "running") = (gpu[k] # NoGpu)

\* "A GPU can have only one unexpired lease" (jobs.h), and more: two rows are
\* never running on one gpu, however stale the clocks that claims, expiries and
\* heartbeats are computed from.
OneLeasePerGpu ==
    \A j, k \in Running : gpu[j] = gpu[k] => j = k

\* The table stays sound: the columns of every row agree with its state, and no gpu
\* runs two rows.
RowsSound == TypeOK /\ OneLeasePerGpu

\* A result is final: no late settle, expiry, resubmission or retry takes a job
\* out of succeeded.
SucceededIsFinal ==
    [][\A k \in Key : state[k] = "succeeded" => state'[k] = "succeeded"]_vars
=============================================================================
