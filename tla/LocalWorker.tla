---------------------------- MODULE LocalWorker ----------------------------
(***************************************************************************)
(* Queue workers (src/runtime/local_worker.py) draining the job queue of   *)
(* Jobs through omni-job (src/src/jobctl.c).  Each worker is a loop that   *)
(* claims, dispatches and settles, and a daemon thread that sends a        *)
(* heartbeat every max(1, lease // 3) seconds.  Every omni-job call is a   *)
(* process of its own: it reads the clock, waits at most BusyS for the     *)
(* write lock and runs one statement.  An omni-job that exits non-zero     *)
(* raises in its caller: in the heartbeat thread that ends the thread, in  *)
(* finish it leads to fail, in claim and in fail it ends the worker.       *)
(*                                                                         *)
(* Faults (a worker killed, an omni-job that fails or whose answer is lost,*)
(* an operator's retry) draw on a budget of MaxFaults.                     *)
(***************************************************************************)
EXTENDS Jobs

CONSTANTS
    GpuOf,        \* --gpu of each worker
    LeaseSeconds, \* --lease-seconds
    MaxFaults

ASSUME WorkerAssumption ==
    GpuOf \in [Worker -> Gpu] /\ LeaseSeconds \in Leases /\ MaxFaults \in Nat

VARIABLES
    wpc,    \* idle, claiming, dispatching, finishing, failing, down
    wkey,   \* the job a worker works on
    wtry,   \* claimed["attempts"]
    wlag,   \* seconds since its claim read the clock
    hb,     \* the heartbeat thread: off, waiting, beating
    hbt,    \* seconds since it began to wait, or since its beat read the clock
    late,   \* heartbeats still in flight after their thread was abandoned
    faults

own == <<wpc, wkey, wtry, wlag, hb, hbt, late, faults>>
allvars == <<vars, own>>

NoKey == -1
\* max(1, lease // 3)
BeatEvery == IF LeaseSeconds \div 3 > 1 THEN LeaseSeconds \div 3 ELSE 1
Working(w) == wpc[w] \in {"dispatching", "finishing", "failing"}

WInit ==
    /\ Init
    /\ wpc = [w \in Worker |-> "idle"]
    /\ wkey = [w \in Worker |-> NoKey]
    /\ wtry = [w \in Worker |-> 0]
    /\ wlag = [w \in Worker |-> 0]
    /\ hb = [w \in Worker |-> "off"]
    /\ hbt = [w \in Worker |-> 0]
    /\ late = {}
    /\ faults = 0

Fault == faults < MaxFaults /\ faults' = faults + 1
Fine  == UNCHANGED faults

\* stop.set(); heartbeat.join(timeout=2): a beat in flight goes on without us
StopHeartbeat(w) ==
    /\ hb' = [hb EXCEPT ![w] = "off"]
    /\ hbt' = [hbt EXCEPT ![w] = 0]
    /\ late' = IF hb[w] = "beating"
               THEN late \cup {[worker |-> w, key |-> wkey[w], lag |-> hbt[w]]} ELSE late

\* The end of a loop iteration, or of the process
Leave(w, where) ==
    /\ wpc' = [wpc EXCEPT ![w] = where]
    /\ wkey' = [wkey EXCEPT ![w] = NoKey]
    /\ wtry' = [wtry EXCEPT ![w] = 0]
    /\ wlag' = [wlag EXCEPT ![w] = 0]
    /\ StopHeartbeat(w)

Step(w, from, to) ==
    /\ wpc[w] = from
    /\ wpc' = [wpc EXCEPT ![w] = to]
    /\ UNCHANGED <<vars, wkey, wtry, wlag, hb, hbt, late>>

-----------------------------------------------------------------------------
\* omni-job claim starts: now_unix()
ClaimStart(w) == Step(w, "idle", "claiming") /\ Fine

ClaimNow(w, k) == \E avail \in Mib, kinds \in KindSets :
    ClaimJob(w, GpuOf[w], k, avail, kinds, LeaseSeconds, wlag[w])

\* The claim commits and its answer arrives: the heartbeat thread starts
ClaimGot(w) ==
    /\ wpc[w] = "claiming"
    /\ \E k \in Key :
        /\ ClaimNow(w, k)
        /\ wkey' = [wkey EXCEPT ![w] = k]
        /\ wtry' = [wtry EXCEPT ![w] = attempts'[k]]
    /\ wpc' = [wpc EXCEPT ![w] = "dispatching"]
    /\ wlag' = [wlag EXCEPT ![w] = 0]
    /\ hb' = [hb EXCEPT ![w] = "waiting"]
    /\ hbt' = [hbt EXCEPT ![w] = 0]
    /\ Fine /\ UNCHANGED late

\* "empty": sleep and poll again
ClaimEmpty(w) ==
    /\ wpc[w] = "claiming"
    /\ \E avail \in Mib, kinds \in KindSets : ClaimNothing(GpuOf[w], avail, kinds, wlag[w])
    /\ Leave(w, "idle") /\ Fine

\* The claim fails, or commits and its answer is lost: the worker dies
ClaimLost(w) ==
    /\ wpc[w] = "claiming"
    /\ (\E k \in Key : ClaimNow(w, k)) \/ UNCHANGED vars
    /\ Leave(w, "down") /\ Fault

\* dispatch returns and the result file is in place, or something raised
DispatchOk(w)     == Step(w, "dispatching", "finishing") /\ Fine
DispatchRaises(w) == Step(w, "dispatching", "failing") /\ Fine

Finish(w) ==
    /\ wpc[w] = "finishing"
    /\ Settle(w, wkey[w], "succeeded")
    /\ Leave(w, "idle") /\ Fine

\* finish found no row (exit 3) or the database failed (exit 1): the except
\* branch reports a failure
FinishRefused(w) == Step(w, "finishing", "failing") /\ ~Owns(w, wkey[w]) /\ Fine
FinishError(w)   == Step(w, "finishing", "failing") /\ Fault

\* Seeded fault: attempts are not compared with --max-attempts
Fail_AlwaysRetries(w) ==
    /\ wpc[w] = "failing"
    /\ Settle(w, wkey[w], "queued")
    /\ Leave(w, "idle") /\ Fine

Fail(w) ==
    /\ wpc[w] = "failing"
    /\ Settle(w, wkey[w], IF wtry[w] < MaxAttempts THEN "queued" ELSE "failed")
    /\ Leave(w, "idle") /\ Fine

\* fail found no row either: the exception leaves run() and the worker dies
FailRefused(w) ==
    /\ wpc[w] = "failing" /\ ~Owns(w, wkey[w])
    /\ Leave(w, "down") /\ Fine /\ UNCHANGED vars
FailError(w) ==
    /\ wpc[w] = "failing"
    /\ Leave(w, "down") /\ Fault /\ UNCHANGED vars

\* The worker is killed; its supervisor starts it again under the same name
Crash(w) ==
    /\ wpc[w] \in {"idle", "dispatching", "finishing", "failing"}
    /\ Leave(w, "down") /\ Fault /\ UNCHANGED vars
Restart(w) == Step(w, "down", "idle") /\ Fine

-----------------------------------------------------------------------------
(* The heartbeat thread.                                                   *)

BeatStart(w) ==
    /\ hb[w] = "waiting" /\ hbt[w] >= BeatEvery
    /\ hb' = [hb EXCEPT ![w] = "beating"]
    /\ hbt' = [hbt EXCEPT ![w] = 0]
    /\ UNCHANGED <<vars, wpc, wkey, wtry, wlag, late, faults>>

BeatOk(w) ==
    /\ hb[w] = "beating"
    /\ Heartbeat(w, wkey[w], LeaseSeconds, hbt[w])
    /\ hb' = [hb EXCEPT ![w] = "waiting"]
    /\ hbt' = [hbt EXCEPT ![w] = 0]
    /\ UNCHANGED <<wpc, wkey, wtry, wlag, late, faults>>

\* exit 3 or a database error: the thread dies, the worker does not notice
BeatEnds(w) ==
    /\ hb[w] = "beating"
    /\ (~Owns(w, wkey[w]) /\ Fine) \/ Fault
    /\ hb' = [hb EXCEPT ![w] = "off"]
    /\ hbt' = [hbt EXCEPT ![w] = 0]
    /\ UNCHANGED <<vars, wpc, wkey, wtry, wlag, late>>

\* A beat that its worker no longer waits for, under the name it was sent with
LateBeat(b) ==
    /\ IF Owns(b.worker, b.key) THEN Heartbeat(b.worker, b.key, LeaseSeconds, b.lag)
                                ELSE UNCHANGED vars
    /\ late' = late \ {b}
    /\ UNCHANGED <<wpc, wkey, wtry, wlag, hb, hbt, faults>>

\* A second passes for everybody.  No omni-job outlives its busy_timeout and
\* no heartbeat thread oversleeps.
WTick ==
    /\ \A w \in Worker :
        /\ wpc[w] = "claiming" => wlag[w] < BusyS
        /\ hb[w] = "waiting" => hbt[w] < BeatEvery
        /\ hb[w] = "beating" => hbt[w] < BusyS
    /\ \A b \in late : b.lag < BusyS
    /\ Tick
    /\ wlag' = [w \in Worker |-> IF wpc[w] = "claiming" THEN wlag[w] + 1 ELSE wlag[w]]
    /\ hbt' = [w \in Worker |-> IF hb[w] = "off" THEN hbt[w] ELSE hbt[w] + 1]
    /\ late' = {[b EXCEPT !.lag = @ + 1] : b \in late}
    /\ UNCHANGED <<wpc, wkey, wtry, hb, faults>>

SubmitJob(k) == Submit(k) /\ UNCHANGED own
\* omni-job retry, typed by an operator
RetryJob(k)  == Retry(k) /\ Fault /\ UNCHANGED <<wpc, wkey, wtry, wlag, hb, hbt, late>>

\* What a worker does when nothing fails
Advance(w) ==
    \/ ClaimStart(w) \/ ClaimGot(w) \/ ClaimEmpty(w)
    \/ DispatchOk(w) \/ DispatchRaises(w)
    \/ Finish(w) \/ FinishRefused(w) \/ Fail(w) \/ FailRefused(w)
    \/ Restart(w)
Beat(w) == BeatStart(w) \/ BeatOk(w) \/ BeatEnds(w)

WNext ==
    \/ WTick
    \/ \E k \in Key : SubmitJob(k) \/ RetryJob(k)
    \/ \E w \in Worker : Advance(w) \/ Beat(w)
    \/ \E w \in Worker : ClaimLost(w) \/ FinishError(w) \/ FailError(w) \/ Crash(w)
    \/ \E b \in late : LateBeat(b)

WSpec == WInit /\ [][WNext]_allvars

(* Fairness: workers, heartbeats and the clock run; a dispatch ends.        *)
(* Nothing is assumed about submissions and faults.                         *)
WFairSpec ==
    /\ WSpec
    /\ WF_allvars(WTick)
    /\ WF_allvars(\E b \in late : LateBeat(b))
    /\ \A w \in Worker : WF_allvars(Advance(w)) /\ WF_allvars(Beat(w))

-----------------------------------------------------------------------------
\* A worker whose heartbeat thread is alive still owns the job it works on: no
\* expiry by another worker's stale or fresh clock, no settlement by a worker
\* that lost the job, no heartbeat left over from an earlier attempt takes it
\* away.  Holds when LeaseSeconds > BeatEvery + 2 * BusyS.
LeaseKept == \A w \in Worker : Working(w) /\ hb[w] # "off" => Owns(w, wkey[w])

\* A job that was submitted is settled in the end, through any bounded number
\* of killed workers, lost answers, dead heartbeat threads and failed calls.
JobSettles ==
    \A k \in Key : state[k] \in {"queued", "running"} ~> state[k] \in {"succeeded", "failed"}
=============================================================================
