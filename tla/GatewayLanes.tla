---------------------------- MODULE GatewayLanes ----------------------------
(***************************************************************************)
(* The three kinds of GPU lane of the gateway, src/src/main.c, and the     *)
(* standing remotes a request may be sent to instead of waiting:           *)
(*   proxy   handle_proxy_as_tier: a worker behind an HTTP upstream        *)
(*   image   handle_images: the embedded diffusion model, under a VRAM     *)
(*           lease                                                         *)
(*   llm     handle_chat and handle_completions: the embedded LLM          *)
(* A request acquires permits (Admission), is served locally or relayed,   *)
(* may fall back from one to the other, answers its client and returns     *)
(* what it took.  The handler's own record of what it took is charge, the  *)
(* variable "permits" of each handler; permits of Admission is what the    *)
(* scheduler gave it.                                                      *)
(*                                                                         *)
(* The breaker of a remote (OProxyBreaker) is a choice between open and    *)
(* closed, a relay (OProxyPool) ends with no byte, a partial or a whole    *)
(* response written to the client, and the VRAM lease (OVram) is granted or *)
(* denied.                                                                 *)
(***************************************************************************)
EXTENDS Integers, FiniteSets

CONSTANTS
    Thread,      \* worker threads, one request each at a time
    Slots,
    Request,     \* lane, permits, whether background, whether exclusive
    ActiveLimit, \* sequences that count as saturated (llm_overflow_active)
    QueueLimit   \* llm_overflow_queue

Lane == {"proxy", "image", "llm"}

ASSUME SlotsAssumption == Slots \in Nat \ {0} /\ IsFiniteSet(Thread)
ASSUME LimitAssumption == ActiveLimit \in Nat /\ QueueLimit \in Nat
ASSUME RequestAssumption ==
    /\ Request # {}
    /\ Request \subseteq [lane : Lane, need : 1..Slots, background : BOOLEAN,
                          exclusive : BOOLEAN]

VARIABLES
    permits, alone, waiting, \* the scheduler, see Admission
    pc,           \* where each thread is
    req,          \* its request
    overflow,     \* the remote it may use (FALSE: NULL)
    charge,       \* the handler's variable permits
    lease,        \* it holds a VRAM lease
    wire,         \* what has been written to its client
    closing,      \* ohttp_force_close was called
    llm_inflight, \* g_llm_inflight
    llm_waiting   \* g_llm_waiting

sched == <<permits, alone, waiting>>
counters == <<llm_inflight, llm_waiting>>
vars == <<sched, pc, req, overflow, charge, lease, wire, closing, counters>>

S == INSTANCE Admission WITH Client <- Thread

PC == {"idle", "try", "acquire", "queued", "proxy_local", "proxy_remote", "release",
       "lease", "generate", "image_ok", "image_failed", "image_remote",
       "llm_check", "llm_try", "llm_offer", "llm_remote", "llm_admit", "llm_admitted", "llm_count",
       "llm_generate", "llm_uncount"}

\* About to call osched_release_n
Releasing == {"proxy_local", "release", "lease", "image_ok", "image_failed", "llm_uncount"}
Remote == {"proxy_remote", "image_remote", "llm_remote"}

Goto(t, at) == pc' = [pc EXCEPT ![t] = at]
Charge(t, n) == charge' = [charge EXCEPT ![t] = n]
TryGrant(t) == S!TryGrant(t, req[t].need, req[t].exclusive)
Refused(t) == ~(waiting = {} /\ S!Fits(req[t].need, req[t].exclusive))

\* Bytes for the client.  Anything after a first byte of another response is
\* spliced onto it.
Write(t, what) ==
    wire' = [wire EXCEPT ![t] = IF what = "none" THEN @
                                ELSE IF @ = "none" THEN what ELSE "spliced"]

\* respond_error and ohttp_respond: a whole response; the handler returns
Answer(t) == Write(t, "whole") /\ Goto(t, "idle")

\* What oproxy_target_relay may have written when it returns
Outcome == {"none", "partial", "whole"}

\* After a relay: 502 if nothing was written, else close a partial response; a
\* whole one may ask for the connection to be closed too
Settle(t) ==
    /\ Write(t, IF wire[t] = "none" THEN "whole" ELSE "none")
    /\ \E c \in BOOLEAN : closing' = [closing EXCEPT ![t] = wire[t] = "partial" \/ c]
    /\ Goto(t, "idle")

Init ==
    /\ S!AdmissionInit
    /\ pc = [t \in Thread |-> "idle"]
    /\ req = [t \in Thread |-> CHOOSE r \in Request : TRUE]
    /\ overflow = [t \in Thread |-> FALSE]
    /\ charge = [t \in Thread |-> 0]
    /\ lease = [t \in Thread |-> FALSE]
    /\ wire = [t \in Thread |-> "whole"]
    /\ closing = [t \in Thread |-> FALSE]
    /\ llm_inflight = 0 /\ llm_waiting = 0

-----------------------------------------------------------------------------
(* Admission, shared by the proxy and the image lane                       *)

\* A request arrives; overflow_for and image_overflow_for look at its tier and
\* at the breaker.  An image that is cached, or that finds no diffusion model
\* and no remote, is answered at once (the second kind with 503).
Arrive(t, r, remote) ==
    /\ pc[t] = "idle"
    /\ req' = [req EXCEPT ![t] = r]
    /\ overflow' = [overflow EXCEPT ![t] = remote]
    /\ closing' = [closing EXCEPT ![t] = FALSE]
    /\ Charge(t, IF r.lane = "llm" THEN 0 ELSE r.need)
    /\ \/ /\ Goto(t, IF r.lane = "llm" THEN (IF remote THEN "llm_check" ELSE "llm_admit")
                     ELSE IF remote THEN "try" ELSE "acquire")
          /\ wire' = [wire EXCEPT ![t] = "none"]
       \/ /\ r.lane = "image" /\ remote
          /\ Goto(t, "image_remote")
          /\ wire' = [wire EXCEPT ![t] = "none"]
       \/ /\ r.lane = "image"
          /\ wire' = [wire EXCEPT ![t] = "whole"]
          /\ UNCHANGED pc
    /\ UNCHANGED <<sched, lease, counters>>

\* Where a grant leads
Local(t) == CASE req[t].lane = "proxy" -> "proxy_local"
              [] req[t].lane = "image" -> "lease"
              [] req[t].lane = "llm" -> "llm_admitted"

\* Seeded fault: a request that holds its permits acquires them once more
Try_AcquiresTwice(t) ==
    /\ pc[t] = "try"
    /\ \/ TryGrant(t) /\ Goto(t, "acquire")
       \/ Refused(t) /\ Goto(t, "acquire") /\ UNCHANGED sched
    /\ UNCHANGED <<req, overflow, charge, lease, wire, closing, counters>>

\* osched_try_acquire_n; refused, the remote if its breaker allows and (images)
\* the frontier table does not say to stay, else the queue
Try(t) ==
    /\ pc[t] = "try"
    /\ \/ TryGrant(t) /\ Goto(t, Local(t)) /\ UNCHANGED charge
       \/ /\ Refused(t)
          /\ \/ Goto(t, IF req[t].lane = "proxy" THEN "proxy_remote" ELSE "image_remote")
                /\ Charge(t, 0)
             \/ Goto(t, "acquire") /\ UNCHANGED charge
          /\ UNCHANGED sched
    /\ UNCHANGED <<req, overflow, lease, wire, closing, counters>>

\* osched_acquire_n: at once, or queued
Acquire(t) ==
    /\ pc[t] = "acquire"
    /\ \/ TryGrant(t) /\ Goto(t, Local(t))
       \/ S!Enqueue(t, req[t].need, req[t].exclusive) /\ Goto(t, "queued")
    /\ Charge(t, req[t].need)
    /\ UNCHANGED <<req, overflow, lease, wire, closing, counters>>

Granted(t) ==
    /\ pc[t] = "queued"
    /\ S!Grant(t, req[t].need, req[t].exclusive)
    /\ Goto(t, Local(t))
    /\ UNCHANGED <<req, overflow, charge, lease, wire, closing, counters>>

\* Admission timeout: 503; an image whose frontier table prefers it goes remote
TimedOut(t) ==
    /\ pc[t] = "queued"
    /\ S!Expire(t)
    /\ Charge(t, 0)
    /\ \/ Answer(t)
       \/ req[t].lane = "image" /\ overflow[t] /\ Goto(t, "image_remote") /\ UNCHANGED wire
    /\ llm_waiting' = IF req[t].lane = "llm" THEN llm_waiting - 1 ELSE llm_waiting
    /\ UNCHANGED <<req, overflow, lease, closing, llm_inflight>>

-----------------------------------------------------------------------------
(* handle_proxy_as_tier                                                    *)

\* osched_release_n with the handler's count
ReleasePermits(t) == S!Return(t, charge[t]) /\ Charge(t, 0)

\* The relay to the local worker.  A worker that wrote nothing is retried on the
\* remote, if there is one and its breaker allows; the permits go back first.
\* An invalid credential ends the request before the relay.
ProxyLocal(t) ==
    /\ pc[t] = "proxy_local"
    /\ \/ Answer(t) /\ ReleasePermits(t)
       \/ /\ overflow[t]
          /\ ReleasePermits(t)
          /\ Goto(t, "proxy_remote")
          /\ UNCHANGED wire
       \/ /\ \E o \in Outcome : Write(t, o)
          /\ Goto(t, "release")
          /\ UNCHANGED <<sched, charge>>
    /\ UNCHANGED <<req, overflow, lease, closing, counters>>

\* The relay to the remote, or an invalid credential for it
ProxyRemote(t) ==
    /\ pc[t] = "proxy_remote"
    /\ \/ \E o \in Outcome : Write(t, o) /\ Goto(t, "release")
       \/ Answer(t)
    /\ UNCHANGED <<sched, req, overflow, charge, lease, closing, counters>>

\* The last release, of whatever the handler still counts, and the answer
Release(t) ==
    /\ pc[t] = "release"
    /\ ReleasePermits(t)
    /\ Settle(t)
    /\ UNCHANGED <<req, overflow, lease, counters>>

-----------------------------------------------------------------------------
(* handle_images                                                           *)

\* Refused by the device after admission: the permits go back, then the remote
\* or 503
LeaseDenied(t) ==
    /\ ReleasePermits(t)
    /\ IF overflow[t] THEN Goto(t, "image_remote") /\ UNCHANGED wire ELSE Answer(t)
    /\ UNCHANGED lease

\* image_gpu_lease, and the check of the free memory of a device without broker
Lease(t) ==
    /\ pc[t] = "lease"
    /\ \/ /\ \E l \in BOOLEAN : lease' = [lease EXCEPT ![t] = l]
          /\ Goto(t, "generate")
          /\ UNCHANGED <<sched, charge, wire>>
       \/ LeaseDenied(t)
    /\ UNCHANGED <<req, overflow, closing, counters>>

\* osd_generate, then image_gpu_release
Generate(t) ==
    /\ pc[t] = "generate"
    /\ lease' = [lease EXCEPT ![t] = FALSE]
    /\ Goto(t, "image_ok") \/ Goto(t, "image_failed")
    /\ UNCHANGED <<sched, req, overflow, charge, wire, closing, counters>>

\* The permits go back; the image, the remote or 500
ImageDone(t) ==
    /\ pc[t] \in {"image_ok", "image_failed"}
    /\ ReleasePermits(t)
    /\ IF pc[t] = "image_failed" /\ overflow[t]
       THEN Goto(t, "image_remote") /\ UNCHANGED wire
       ELSE Answer(t)
    /\ UNCHANGED <<req, overflow, lease, closing, counters>>

\* relay_image_overflow: a breaker that closed meanwhile or an invalid
\* credential answers at once; else the relay, which holds nothing
ImageRemote(t) ==
    /\ pc[t] = "image_remote"
    /\ \/ Answer(t) /\ UNCHANGED charge
       \/ \E o \in Outcome : Write(t, o) /\ Goto(t, "release") /\ Charge(t, 0)
    /\ UNCHANGED <<sched, req, overflow, lease, closing, counters>>

-----------------------------------------------------------------------------
(* The LLM lane: llm_overflow_relay, llm_admit, the generation, llm_release *)

\* Fewer in flight than the limit: try for permits; else offer it to the remote
LlmCheck(t) ==
    /\ pc[t] = "llm_check"
    /\ Goto(t, IF llm_inflight < ActiveLimit /\ ~req[t].background
               THEN "llm_try" ELSE "llm_offer")
    /\ UNCHANGED <<sched, req, overflow, charge, lease, wire, closing, counters>>

\* Refused permits with a short local queue: queue too
LlmTry(t) ==
    /\ pc[t] = "llm_try"
    /\ \/ TryGrant(t) /\ Charge(t, req[t].need) /\ Goto(t, "llm_count")
       \/ /\ Refused(t)
          /\ Goto(t, IF llm_waiting < QueueLimit THEN "llm_admit" ELSE "llm_offer")
          /\ UNCHANGED <<sched, charge>>
    /\ UNCHANGED <<req, overflow, lease, wire, closing, counters>>

\* Seeded fault: a remote that cannot be used sends the request round again
LlmOffer_Retries(t) ==
    /\ pc[t] = "llm_offer"
    /\ Goto(t, "llm_remote") \/ Goto(t, "llm_check")
    /\ UNCHANGED <<sched, req, overflow, charge, lease, wire, closing, counters>>

\* The breaker and the credential of the remote
LlmOffer(t) ==
    /\ pc[t] = "llm_offer"
    /\ Goto(t, "llm_remote") \/ Goto(t, "llm_admit")
    /\ UNCHANGED <<sched, req, overflow, charge, lease, wire, closing, counters>>

\* Seeded fault: every relay that fails falls back to the local queue
LlmRemote_FallsBack(t) ==
    /\ pc[t] = "llm_remote"
    /\ \E o \in Outcome :
         /\ Write(t, o)
         /\ Goto(t, IF o = "whole" THEN "idle" ELSE "llm_admit")
    /\ UNCHANGED <<sched, req, overflow, charge, lease, closing, counters>>

\* overflow_sink: a 429 or 503 of the remote is swallowed, like a relay that
\* wrote nothing, and the request queues locally
LlmRemote(t) ==
    /\ pc[t] = "llm_remote"
    /\ \E o \in Outcome :
         /\ Write(t, o)
         /\ Goto(t, IF o = "none" THEN "llm_admit" ELSE "idle")
         /\ \E c \in BOOLEAN : closing' = [closing EXCEPT ![t] = o = "partial" \/ (o = "whole" /\ c)]
    /\ UNCHANGED <<sched, req, overflow, charge, lease, counters>>

\* llm_admit: count the waiter, acquire (Acquire, Granted, TimedOut), uncount it
LlmAdmit(t) ==
    /\ pc[t] = "llm_admit"
    /\ llm_waiting' = llm_waiting + 1
    /\ Goto(t, "acquire")
    /\ UNCHANGED <<sched, req, overflow, charge, lease, wire, closing, llm_inflight>>

LlmAdmitted(t) ==
    /\ pc[t] = "llm_admitted"
    /\ llm_waiting' = llm_waiting - 1
    /\ Goto(t, "llm_count")
    /\ UNCHANGED <<sched, req, overflow, charge, lease, wire, closing, llm_inflight>>

LlmCount(t) ==
    /\ pc[t] = "llm_count"
    /\ llm_inflight' = llm_inflight + 1
    /\ Goto(t, "llm_generate")
    /\ UNCHANGED <<sched, req, overflow, charge, lease, wire, closing, llm_waiting>>

\* The generation and the answer, a stream or a body, an error if it failed;
\* then the first half of llm_release
LlmGenerate(t) ==
    /\ pc[t] = "llm_generate"
    /\ Write(t, "whole")
    /\ llm_inflight' = llm_inflight - 1
    /\ Goto(t, "llm_uncount")
    /\ UNCHANGED <<sched, req, overflow, charge, lease, closing, llm_waiting>>

\* The second half of llm_release
LlmRelease(t) ==
    /\ pc[t] = "llm_uncount"
    /\ ReleasePermits(t)
    /\ Goto(t, "idle")
    /\ UNCHANGED <<req, overflow, lease, wire, closing, counters>>

-----------------------------------------------------------------------------

Step(t) ==
    \/ Try(t) \/ Acquire(t) \/ Granted(t) \/ TimedOut(t)
    \/ ProxyLocal(t) \/ ProxyRemote(t) \/ Release(t)
    \/ Lease(t) \/ Generate(t) \/ ImageDone(t) \/ ImageRemote(t)
    \/ LlmCheck(t) \/ LlmTry(t) \/ LlmOffer(t) \/ LlmRemote(t) \/ LlmAdmit(t)
    \/ LlmAdmitted(t) \/ LlmCount(t) \/ LlmGenerate(t) \/ LlmRelease(t)

Next ==
    \E t \in Thread :
      \/ \E r \in Request, remote \in BOOLEAN : Arrive(t, r, remote)
      \/ Step(t)

Spec == Init /\ [][Next]_vars

\* A handler that can go on does, because relays, leases and generations end and
\* every admission has a timeout; nothing is assumed about new requests.
FairSpec == Spec /\ \A t \in Thread : WF_vars(Step(t))

-----------------------------------------------------------------------------
(* Properties                                                              *)

\* The types
TypeOK ==
    /\ permits \in [Thread -> 0..Slots] /\ alone \subseteq Thread /\ waiting \subseteq Thread
    /\ pc \in [Thread -> PC] /\ req \in [Thread -> Request]
    /\ overflow \in [Thread -> BOOLEAN] /\ charge \in [Thread -> 0..Slots]
    /\ lease \in [Thread -> BOOLEAN]
    /\ wire \in [Thread -> Outcome \cup {"spliced"}] /\ closing \in [Thread -> BOOLEAN]
    /\ llm_inflight \in 0..Cardinality(Thread) /\ llm_waiting \in 0..Cardinality(Thread)

\* "A proxied lane with a standing remote must return every permit it takes"
\* (tests/test_proxy_overflow_permits.py), and so must the others: on every path
\* the scheduler has given a request exactly what its handler will give back,
\* and nothing once the handler has returned.
PermitsReturned ==
    \A t \in Thread :
      /\ pc[t] \in Releasing => permits[t] = charge[t]
      /\ pc[t] = "idle" => permits[t] = 0

\* "The local permit is released first, so the retry cannot hold the device it
\* just failed to use" (README): whoever waits for a remote holds neither
\* permits nor a VRAM lease.
NothingHeldOnRemote ==
    \A t \in Thread : pc[t] \in Remote => permits[t] = 0 /\ ~lease[t]

\* A VRAM lease is held under permits only, and returned before them.
LeaseUnderPermit == \A t \in Thread : lease[t] => permits[t] > 0

\* Nothing of the device leaks or is held where it is not used: permits and leases,
\* on every path of every lane.
NothingLeaks == PermitsReturned /\ NothingHeldOnRemote /\ LeaseUnderPermit

\* "retrying would splice a second response onto a partial one" (README): every
\* client gets one response, and a connection with a partial one is closed.
AnsweredOnce ==
    \A t \in Thread :
      /\ wire[t] # "spliced"
      /\ pc[t] = "idle" => wire[t] = "whole" \/ (wire[t] = "partial" /\ closing[t])

\* The counters that decide about overflow come back to zero: a path that
\* misses one would slowly send all text to the remote, or none.
CountersBalance ==
    /\ llm_inflight = Cardinality({t \in Thread : pc[t] = "llm_generate"})
    /\ (\A t \in Thread : pc[t] = "idle") => llm_waiting = 0

\* Every request that arrives is answered, wherever its fallbacks lead.
EveryoneAnswered == \A t \in Thread : pc[t] # "idle" ~> pc[t] = "idle"

\* The lanes drain: nobody stays in them for ever, and the counters that decide
\* about overflow say so.
LanesDrain == EveryoneAnswered /\ [](TypeOK /\ CountersBalance)
=============================================================================
