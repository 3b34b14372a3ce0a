------------------------- MODULE Generation_proofs -------------------------
(***************************************************************************)
(* Proofs about the path of a generation: the gateway's lane that admits   *)
(* it, GatewayLanes, for any number of threads and slots, any request      *)
(* classes and any overflow limits; and the engine that serves a chat,     *)
(* LlmEngine, for any number of clients, slots and requests, any prompts,  *)
(* drafts, ring, step budget and KV pool.                                  *)
(***************************************************************************)
EXTENDS GatewayLanes, LlmEngine, CollectionTheorems, FiniteSetTheorems, SequenceTheorems, TLAPS

-----------------------------------------------------------------------------
(* The lanes                                                               *)

\* The types the argument needs.  That permits stays within the slots is the
\* scheduler's business (OSched_proofs) and the counters play no part.
Types ==
    /\ permits \in [Thread -> Nat]
    /\ pc \in [Thread -> PC]
    /\ req \in [Thread -> Request]
    /\ charge \in [Thread -> Nat]
    /\ lease \in [Thread -> BOOLEAN]
    /\ wire \in [Thread -> Outcome \cup {"spliced"}]
    /\ closing \in [Thread -> BOOLEAN]

\* Inside a local section: the permits of charge are held
Admitted == {"proxy_local", "lease", "generate", "image_ok", "image_failed",
             "llm_admitted", "llm_count", "llm_generate", "llm_uncount"}

\* What a thread holds, by where it is
Holds ==
    \A t \in Thread :
      /\ permits[t] = IF pc[t] \in Admitted \cup {"release"} THEN charge[t] ELSE 0
      /\ pc[t] \in Admitted => charge[t] > 0
      /\ pc[t] \in {"try", "queued"} => charge[t] = req[t].need
      /\ pc[t] = "proxy_remote" => charge[t] = 0

\* A lease is held during the generation only
LeaseGenerates == \A t \in Thread : lease[t] => pc[t] = "generate"

\* What a client has seen, by where its handler is
Wired ==
    \A t \in Thread :
      /\ wire[t] # "spliced"
      /\ pc[t] \notin {"idle", "release", "llm_uncount"} => wire[t] = "none"
      /\ pc[t] = "llm_uncount" => wire[t] = "whole"
      /\ pc[t] = "idle" => wire[t] = "whole" \/ (wire[t] = "partial" /\ closing[t])

IInv == Types /\ Holds /\ LeaseGenerates /\ Wired

LEMMA IInvInit == Init => IInv
BY RequestAssumption, SlotsAssumption
   DEF Init, IInv, Types, Holds, LeaseGenerates, Wired, Admitted, PC, Outcome,
       S!AdmissionInit

LEMMA IInvNext == IInv /\ [Next]_vars => IInv'
<1> SUFFICES ASSUME IInv, [Next]_vars PROVE IInv'
  OBVIOUS
<1>r. \A r \in Request : r.need \in Nat /\ r.need > 0 /\ r.lane \in Lane
  BY RequestAssumption, SlotsAssumption
<1> USE DEF IInv, Types, Holds, LeaseGenerates, Wired, Admitted, PC, Outcome, Lane,
            Goto, Charge, Write, Answer, Settle, Local, ReleasePermits, LeaseDenied,
            TryGrant, Refused, S!TryGrant, S!Enqueue, S!Grant, S!Expire, S!Return, S!Give,
            sched, counters
<1>0. ASSUME NEW t \in Thread, NEW r \in Request, NEW m \in BOOLEAN, Arrive(t, r, m)
      PROVE  IInv'
  BY <1>0, <1>r DEF Arrive
<1>1. ASSUME NEW t \in Thread, Try(t) PROVE IInv'
  <2>1. Types'
    BY <1>1, <1>r DEF Try
  <2>2. Holds'
    BY <1>1, <1>r DEF Try
  <2>3. LeaseGenerates'
    BY <1>1, <1>r DEF Try
  <2>4. Wired'
    BY <1>1, <1>r DEF Try
  <2> QED BY <2>1, <2>2, <2>3, <2>4
<1>2. ASSUME NEW t \in Thread, Acquire(t) PROVE IInv'
  BY <1>2, <1>r DEF Acquire
<1>3. ASSUME NEW t \in Thread, Granted(t) PROVE IInv'
  <2>1. Types'
    BY <1>3, <1>r DEF Granted
  <2>2. Holds'
    BY <1>3, <1>r DEF Granted
  <2>3. LeaseGenerates'
    BY <1>3, <1>r DEF Granted
  <2>4. Wired'
    BY <1>3, <1>r DEF Granted
  <2> QED BY <2>1, <2>2, <2>3, <2>4
<1>4. ASSUME NEW t \in Thread, TimedOut(t) PROVE IInv'
  BY <1>4, <1>r, SMTT(40) DEF TimedOut
<1>5. ASSUME NEW t \in Thread, ProxyLocal(t) PROVE IInv'
  BY <1>5, <1>r DEF ProxyLocal
<1>6. ASSUME NEW t \in Thread, ProxyRemote(t) PROVE IInv'
  <2>1. Types'
    BY <1>6, <1>r DEF ProxyRemote
  <2>2. Holds'
    BY <1>6, <1>r DEF ProxyRemote
  <2>3. LeaseGenerates'
    BY <1>6, <1>r DEF ProxyRemote
  <2>4. Wired'
    BY <1>6, <1>r DEF ProxyRemote
  <2> QED BY <2>1, <2>2, <2>3, <2>4
<1>7. ASSUME NEW t \in Thread, Release(t) PROVE IInv'
  <2>1. Types'
    BY <1>7, <1>r DEF Release
  <2>2. Holds'
    BY <1>7, <1>r DEF Release
  <2>3. LeaseGenerates'
    BY <1>7, <1>r DEF Release
  <2>4. Wired'
    BY <1>7, <1>r, ZenonT(40) DEF Release
  <2> QED BY <2>1, <2>2, <2>3, <2>4
<1>8. ASSUME NEW t \in Thread, Lease(t) PROVE IInv'
  BY <1>8, <1>r, SMTT(40) DEF Lease
<1>9. ASSUME NEW t \in Thread, Generate(t) PROVE IInv'
  BY <1>9, <1>r DEF Generate
<1>10. ASSUME NEW t \in Thread, ImageDone(t) PROVE IInv'
  BY <1>10, <1>r, SMTT(40) DEF ImageDone
<1>11. ASSUME NEW t \in Thread, ImageRemote(t) PROVE IInv'
  BY <1>11, <1>r DEF ImageRemote
<1>12. ASSUME NEW t \in Thread, LlmCheck(t) PROVE IInv'
  BY <1>12, <1>r DEF LlmCheck
<1>13. ASSUME NEW t \in Thread, LlmTry(t) PROVE IInv'
  BY <1>13, <1>r DEF LlmTry
<1>14. ASSUME NEW t \in Thread, LlmOffer(t) PROVE IInv'
  BY <1>14, <1>r DEF LlmOffer
<1>15. ASSUME NEW t \in Thread, LlmRemote(t) PROVE IInv'
  <2>1. Types'
    BY <1>15, <1>r DEF LlmRemote
  <2>2. Holds'
    BY <1>15, <1>r DEF LlmRemote
  <2>3. LeaseGenerates'
    BY <1>15, <1>r DEF LlmRemote
  <2>4. Wired'
    <3>1. PICK o \in Outcome, c \in BOOLEAN :
            /\ wire'[t] = (IF o = "none" THEN wire[t]
                           ELSE IF wire[t] = "none" THEN o ELSE "spliced")
            /\ pc'[t] = (IF o = "none" THEN "llm_admit" ELSE "idle")
            /\ closing'[t] = (o = "partial" \/ (o = "whole" /\ c))
      BY <1>15 DEF LlmRemote
    <3>2. wire[t] = "none"
      BY <1>15 DEF LlmRemote
    <3>3. o = "partial" => closing'[t]
      BY <3>1
    <3>4. \A u \in Thread \ {t} : wire'[u] = wire[u] /\ pc'[u] = pc[u] /\ closing'[u] = closing[u]
      BY <1>15 DEF LlmRemote
    <3> QED BY <3>1, <3>2, <3>3, <3>4
  <2> QED BY <2>1, <2>2, <2>3, <2>4
<1>16. ASSUME NEW t \in Thread, LlmAdmit(t) PROVE IInv'
  BY <1>16, <1>r DEF LlmAdmit
<1>17. ASSUME NEW t \in Thread, LlmAdmitted(t) PROVE IInv'
  BY <1>17, <1>r DEF LlmAdmitted
<1>18. ASSUME NEW t \in Thread, LlmCount(t) PROVE IInv'
  BY <1>18, <1>r DEF LlmCount
<1>19. ASSUME NEW t \in Thread, LlmGenerate(t) PROVE IInv'
  BY <1>19, <1>r DEF LlmGenerate
<1>20. ASSUME NEW t \in Thread, LlmRelease(t) PROVE IInv'
  BY <1>20, <1>r DEF LlmRelease
<1>21. CASE UNCHANGED vars
  BY <1>21 DEF vars
<1> QED BY <1>0, <1>1, <1>2, <1>3, <1>4, <1>5, <1>6, <1>7, <1>8, <1>9, <1>10, <1>11, <1>12, <1>13, <1>14, <1>15, <1>16, <1>17, <1>18, <1>19, <1>20, <1>21 DEF Next, Step

LEMMA Inductive == Spec => []IInv
BY IInvInit, IInvNext, PTL DEF Spec

\* However try-acquires, queues, timeouts, failed relays, denied leases and
\* fallbacks follow one another, a handler releases exactly what the scheduler
\* gave it, and has nothing left when it returns.
THEOREM EveryPermitReturned == Spec => []PermitsReturned
<1>1. IInv => PermitsReturned
  BY DEF IInv, Holds, PermitsReturned, Releasing, Admitted
<1> QED BY <1>1, Inductive, PTL

\* A request at a remote holds no part of the local device.
THEOREM RemoteHoldsNothing == Spec => []NothingHeldOnRemote
<1>1. IInv => NothingHeldOnRemote
  BY DEF IInv, Types, Holds, LeaseGenerates, NothingHeldOnRemote, Remote, Admitted
<1> QED BY <1>1, Inductive, PTL

\* The VRAM lease of an image lives inside its permits.
THEOREM LeaseInsidePermits == Spec => []LeaseUnderPermit
<1>1. IInv => LeaseUnderPermit
  BY DEF IInv, Types, Holds, LeaseGenerates, LeaseUnderPermit, Admitted
<1> QED BY <1>1, Inductive, PTL

\* No path of a handler leaks permits or a lease, or holds them at a remote.
THEOREM LanesLeakNothing == Spec => []NothingLeaks
<1>1. PermitsReturned /\ NothingHeldOnRemote /\ LeaseUnderPermit <=> NothingLeaks
  BY DEF NothingLeaks
<1>2. QED  BY <1>1, EveryPermitReturned, RemoteHoldsNothing, LeaseInsidePermits, PTL

\* One response per request: no fallback splices a second one onto the first,
\* and no handler returns without an answer.
THEOREM OneAnswer == Spec => []AnsweredOnce
<1>1. IInv => AnsweredOnce
  BY DEF IInv, Wired, AnsweredOnce
<1> QED BY <1>1, Inductive, PTL

-----------------------------------------------------------------------------
(* The text engine                                                         *)

Fields == {"busy", "pins", "used", "toks", "count", "state", "in_step", "stop", "failed", "has_next", "rm",
           "prompt", "done", "past", "produced", "ring", "src", "len", "order", "chunk", "draft"}
IsSlot(s) ==
    /\ DOMAIN s = Fields
    /\ s.busy \in BOOLEAN /\ s.in_step \in BOOLEAN /\ s.stop \in BOOLEAN /\ s.failed \in BOOLEAN
    /\ s.has_next \in BOOLEAN /\ s.state \in {"idle", "prefill", "decode", "done"}
    /\ s.toks \in Seq(Nat) /\ s.prompt \in Seq(Nat)
    /\ s.pins \in Int /\ s.rm \in Nat \cup {-1} /\ s.src \in 0 .. NSlots
    /\ s.used \in Nat /\ s.count \in Nat /\ s.done \in Nat /\ s.past \in Nat /\ s.produced \in Nat
    /\ s.ring \in Nat /\ s.len \in Nat /\ s.order \in Nat /\ s.chunk \in Nat /\ s.draft \in Nat
EngineTypes ==
    /\ setup \in Setups
    /\ DOMAIN slot = SlotId /\ \A i \in SlotId : IsSlot(slot[i])
    /\ hold \in BOOLEAN
    /\ epc \in {"sleep", "build", "decode", "apply"}
    /\ step \in {"none", "ok", "error", "full"}
    /\ victim \in 0 .. NSlots
    /\ cpc \in [Client -> {"idle", "submit", "pull", "release"}]
    /\ mine \in [Client -> 0 .. NSlots]
    /\ taken \in [Client -> Nat]
    /\ order \in Nat

\* A request at work has a slot of its own, idle until it is submitted
Owned ==
    /\ \A c \in Client : cpc[c] # "idle" =>
         /\ mine[c] \in SlotId /\ slot[mine[c]].busy
         /\ slot[mine[c]].state = "idle" <=> cpc[c] = "submit"
    /\ \A c, d \in Client : cpc[c] # "idle" /\ cpc[d] # "idle" /\ mine[c] = mine[d] => c = d
\* A free slot is idle and forks nothing, and no slot forks itself
FreeClean ==
    \A i \in SlotId :
      /\ ~slot[i].busy => slot[i].state = "idle" /\ slot[i].src = NoSlot
      /\ slot[i].state = "idle" => slot[i].rm = -1
      /\ slot[i].src # i
\* What is in the step is live, and a step is under way only between build and apply
StepShape ==
    /\ \A i \in SlotId : slot[i].in_step => epc \in {"decode", "apply"} /\ Live(slot[i])
    /\ epc = "decode" => \E i \in SlotId : slot[i].in_step
    /\ epc = "apply" <=> step # "none"
    /\ step = "full" <=> victim # NoSlot
    /\ step = "full" => slot[victim].in_step
\* What is kept of a cache, and what is done of a prompt, is within the prompt
Bounds ==
    \A i \in SlotId :
      /\ slot[i].busy => slot[i].len <= Len(slot[i].prompt)
      /\ slot[i].state = "prefill" => slot[i].done <= Len(slot[i].prompt)
      /\ slot[i].state = "prefill" /\ slot[i].in_step => slot[i].chunk <= Len(slot[i].prompt) - slot[i].done
Shape == EngineTypes /\ Owned /\ FreeClean /\ Bounds /\ StepShape /\ PinsExact

-----------------------------------------------------------------------------
(* What the cells of a slot hold.  The invariant relates a slot s, the      *)
(* cells it has, the outcome st of the step and its victim v, in setup u    *)

\* The token that belongs at place k of a sequence: its prompt, then what is generated
Word(s, k) == IF k <= Len(s.prompt) THEN s.prompt[k] ELSE 0
\* The first count tokens of a slot are in its cells
Held(s, cells) ==
    /\ s.count <= Len(cells) /\ s.count <= Len(s.toks)
    /\ \A k \in 1 .. s.count : cells[k][1] = s.toks[k]
\* A request whose cache the engine has not touched yet
Unbuilt(s) == s.busy /\ (s.state = "idle" \/ s.rm >= 0)
UnbuiltSound(s) ==
    /\ s.len < Len(s.prompt) /\ s.state # "decode" /\ ~s.in_step
    /\ s.state # "idle" => s.rm = s.len /\ s.done = s.len /\ s.toks = s.prompt /\ s.produced = 0
    /\ s.src = NoSlot => s.count = s.len /\ \A k \in 1 .. s.len : s.toks[k] = s.prompt[k]
    /\ s.src # NoSlot => s.count = 0
\* How many cells a built sequence has, by what the step has done to it
Stepped(s, st) == s.in_step /\ st = "ok"
PrefillSound(i, s, n, st, v) ==
    /\ s.done < Len(s.prompt) /\ s.produced = 0
    /\ s.in_step => s.chunk \in 1 .. Len(s.prompt) - s.done
    /\ Stepped(s, st) => s.draft = 0
    /\ n = IF v = i THEN 0 ELSE IF Stepped(s, st) THEN s.done + s.chunk ELSE s.done
DecodeSound(i, s, n, st, v) ==
    /\ s.done = Len(s.prompt) /\ s.produced \in 1 .. MaxNew - 1 /\ s.past = Len(s.prompt) + s.produced - 1
    /\ Stepped(s, st) => s.draft \in 0 .. MaxNew - s.produced - 1
    /\ n = IF v = i THEN 0 ELSE IF Stepped(s, st) THEN s.past + 1 + s.draft ELSE s.past
DoneSound(s, n) == ~s.failed => n = IF s.done < Len(s.prompt) THEN s.done ELSE s.past
BuiltSound(i, s, cells, st, v) ==
    /\ s.toks = s.prompt
    /\ \A k \in 1 .. Len(cells) : cells[k][1] = Word(s, k)
    /\ s.state = "prefill" => PrefillSound(i, s, Len(cells), st, v)
    /\ s.state = "decode" => DecodeSound(i, s, Len(cells), st, v)
    /\ s.state = "done" => DoneSound(s, Len(cells))
SlotSound(u, i, s, cells, st, v) ==
    /\ Held(s, cells)
    /\ s.busy => s.prompt \in Prompts
    /\ s.src # NoSlot => u.share /\ Unbuilt(s)
    /\ Unbuilt(s) => UnbuiltSound(s)
    /\ s.busy /\ ~Unbuilt(s) => BuiltSound(i, s, cells, st, v)
\* A pending fork f of i finds in its source the prefix it counts on, and the source keeps it
ForkSound(i, s, cells, f) ==
    f.src = i =>
      /\ s.src = NoSlot
      /\ f.len <= Len(cells) /\ \A k \in 1 .. f.len : cells[k][1] = f.prompt[k]
      /\ s.busy => f.len <= Len(s.prompt)
      /\ Unbuilt(s) => f.len <= s.len
\* A cell has a token and the request that computed it
PoolType == kv \in [SlotId -> Seq(Nat \X Nat)]
CacheSound ==
    /\ PoolType
    /\ \A i \in SlotId : SlotSound(setup, i, slot[i], kv[i], step, victim)
    /\ \A i, j \in SlotId : ForkSound(i, slot[i], kv[i], slot[j])

-----------------------------------------------------------------------------
(* Facts about the operators                                               *)

LEMMA MinOfTwo ==
    ASSUME NEW a \in Int, NEW b \in Int
    PROVE  Min({a, b}) = IF a <= b THEN a ELSE b
<1>1. IsFiniteSet({a, b})
  <2>1. {a, b} = {a} \cup {b}
    OBVIOUS
  <2>2. IsFiniteSet({a}) /\ IsFiniteSet({b})
    BY FS_Singleton
  <2> QED BY <2>1, <2>2, FS_Union
<1>2. Min({a, b}) \in {a, b} /\ \A y \in {a, b} : Min({a, b}) <= y
  BY <1>1, LeastElement
<1> QED BY <1>2

LEMMA CutFacts ==
    ASSUME NEW E, NEW s \in Seq(E), NEW n \in Nat, n <= Len(s)
    PROVE  Cut(s, n) \in Seq(E) /\ Len(Cut(s, n)) = n /\ \A k \in 1 .. n : Cut(s, n)[k] = s[k]
<1>1. \A k \in 1 .. n : s[k] \in E
  OBVIOUS
<1>2. /\ SubSeq(s, 1, n) \in Seq(E)
      /\ Len(SubSeq(s, 1, n)) = IF 1 <= n THEN n - 1 + 1 ELSE 0
      /\ \A k \in 1 .. n - 1 + 1 : SubSeq(s, 1, n)[k] = s[1 + k - 1]
  BY <1>1, SubSeqProperties
<1>3. n - 1 + 1 = n /\ \A k \in 1 .. n : 1 + k - 1 = k
  OBVIOUS
<1> QED BY <1>2, <1>3 DEF Cut

LEMMA CutSame ==
    ASSUME NEW s, NEW t, NEW n \in Nat
    PROVE  Cut(s, n) = Cut(t, n) <=> \A k \in 1 .. n : s[k] = t[k]
<1> DEFINE E == {s[k] : k \in 1 .. n} \cup {t[k] : k \in 1 .. n}
<1>0. n \in Int /\ 1 \in Int /\ n - 1 + 1 = n /\ \A k \in 1 .. n : 1 + k - 1 = k
  OBVIOUS
<1>1. \A k \in 1 .. n : s[k] \in E /\ t[k] \in E
  OBVIOUS
<1> HIDE DEF E
<1>2. /\ SubSeq(s, 1, n) \in Seq(E)
      /\ Len(SubSeq(s, 1, n)) = IF 1 <= n THEN n - 1 + 1 ELSE 0
      /\ \A k \in 1 .. n - 1 + 1 : SubSeq(s, 1, n)[k] = s[1 + k - 1]
  BY <1>0, <1>1, SubSeqProperties
<1>3. /\ SubSeq(t, 1, n) \in Seq(E)
      /\ Len(SubSeq(t, 1, n)) = IF 1 <= n THEN n - 1 + 1 ELSE 0
      /\ \A k \in 1 .. n - 1 + 1 : SubSeq(t, 1, n)[k] = t[1 + k - 1]
  BY <1>0, <1>1, SubSeqProperties
<1> DEFINE a == SubSeq(s, 1, n)
           b == SubSeq(t, 1, n)
<1>4. a \in Seq(E) /\ Len(a) = n /\ \A k \in 1 .. n : a[k] = s[k]
  BY <1>0, <1>2
<1>5. b \in Seq(E) /\ Len(b) = n /\ \A k \in 1 .. n : b[k] = t[k]
  BY <1>0, <1>3
<1> HIDE DEF a, b
<1>6. a = b <=> \A k \in 1 .. n : a[k] = b[k]
  BY <1>4, <1>5, SeqEqual
<1> QED BY <1>4, <1>5, <1>6 DEF Cut, a, b

\* A shared prefix is shorter than the prompt and than what the slot holds of it
LEMMA SharedPrefix ==
    ASSUME EngineTypes, NEW i \in SlotId, NEW p \in Seq(Nat), Len(p) > 0
    PROVE  /\ common_prefix(i, p) \in Nat /\ common_prefix(i, p) < Len(p)
           /\ common_prefix(i, p) > 0 => common_prefix(i, p) < slot[i].count
           /\ \A k \in 1 .. common_prefix(i, p) : slot[i].toks[k] = p[k]
<1> DEFINE c == slot[i].count
           t == slot[i].toks
           H == {n \in 1 .. Min({c, Len(p)}) : Cut(t, n) = Cut(p, n)}
           Q == {0} \cup {k - 1 : k \in H}
<1>1. c \in Nat /\ t \in Seq(Nat)
  BY DEF EngineTypes, IsSlot, Fields
<1>2. Len(p) \in Nat
  OBVIOUS
<1> HIDE DEF c, t
<1>3. Min({c, Len(p)}) = IF c <= Len(p) THEN c ELSE Len(p)
  BY <1>1, <1>2, MinOfTwo, SMTT(40)
<1>4. \A x \in Q : x \in Nat /\ x <= Len(p)
  <2>1. \A k \in H : k \in Nat /\ k >= 1 /\ k <= Len(p)
    BY <1>1, <1>2, <1>3
  <2> HIDE DEF H
  <2> QED BY <2>1, <1>2
<1>5. IsFiniteSet(Q)
  <2> HIDE DEF Q
  <2>1. Q \subseteq 0 .. Len(p)
    BY <1>4, <1>2
  <2>2. IsFiniteSet(0 .. Len(p))
    BY <1>2, FS_Interval
  <2> QED BY <2>1, <2>2, FS_Subset
<1>6. PICK m \in Q : \A y \in Q : m >= y
  <2>1. \A x \in Q : x \in Int
    BY <1>4
  <2>2. 0 \in Q
    OBVIOUS
  <2> HIDE DEF Q
  <2> QED BY <1>5, <2>1, <2>2, GreatestElement
<1>7. common_prefix(i, p) = Max(Q)
  BY DEF common_prefix, c, t
<1>8. Max(Q) \in Q
  BY <1>6 DEF Max
<1>9. \A n \in H : /\ n \in Nat /\ n >= 1 /\ n <= c /\ n <= Len(p)
                   /\ \A k \in 1 .. n : t[k] = p[k]
  <2> SUFFICES ASSUME NEW n \in H
               PROVE  /\ n \in Nat /\ n >= 1 /\ n <= c /\ n <= Len(p)
                      /\ \A k \in 1 .. n : t[k] = p[k]
    OBVIOUS
  <2>1. n \in Nat /\ n >= 1 /\ n <= c /\ n <= Len(p)
    BY <1>1, <1>2, <1>3
  <2>2. Cut(t, n) = Cut(p, n)
    OBVIOUS
  <2>3. \A k \in 1 .. n : t[k] = p[k]
    BY <2>1, <2>2, CutSame
  <2> QED BY <2>1, <2>3
<1>10. CASE Max(Q) = 0
  <2> HIDE DEF Q
  <2> QED BY <1>10, <1>7, <1>2
<1>11. CASE Max(Q) # 0
  <2>1. PICK n \in H : Max(Q) = n - 1
    BY <1>8, <1>11
  <2> HIDE DEF H, Q
  <2> QED BY <2>1, <1>9, <1>7, <1>11, <1>1, <1>2, SMTT(40) DEF c, t
<1> QED BY <1>10, <1>11

LEMMA SlotsFinite == IsFiniteSet(SlotId) /\ Cardinality(SlotId) = NSlots /\ NoSlot \notin SlotId /\ SlotId \subseteq 0 .. NSlots
<1>1. NSlots \in Nat /\ NSlots > 0
  BY LlmAssumption
<1>2. IsFiniteSet(1 .. NSlots) /\ Cardinality(1 .. NSlots) = NSlots
  BY <1>1, FS_Interval
<1> QED BY <1>1, <1>2 DEF SlotId, NoSlot

\* The choice of a slot always has an outcome
LEMMA BestFree ==
    ASSUME EngineTypes, NEW p \in Seq(Nat), Len(p) > 0, Free # {}
    PROVE  Best(p) \in Free /\ Best(p) \in SlotId
<1> DEFINE c(i) == common_prefix(i, p)
           Better(i, j) == \/ c(i) > c(j) \/ (c(i) = c(j) /\ slot[i].used < slot[j].used)
                           \/ (c(i) = c(j) /\ slot[i].used = slot[j].used /\ i < j)
           R == {w \in Free \X Free : Better(w[2], w[1])}
<1>1. Free \subseteq SlotId /\ IsFiniteSet(Free)
  BY SlotsFinite, FS_Subset DEF Free
<1>2. \A i \in Free : c(i) \in Nat /\ slot[i].used \in Nat /\ i \in Int
  <2>1. \A i \in Free : c(i) \in Nat
    BY <1>1, SharedPrefix
  <2>2. \A i \in Free : slot[i].used \in Nat
    BY <1>1 DEF EngineTypes, IsSlot, Fields
  <2>3. \A i \in Free : i \in Int
    BY <1>1 DEF SlotId
  <2> HIDE DEF c
  <2> QED BY <2>1, <2>2, <2>3
<1>3. \A i, j \in Free : <<i, j>> \in R <=> Better(j, i)
  OBVIOUS
<1> HIDE DEF c, R
<1>4. Orders(R, Free)
  <2>1. \A x \in Free : <<x, x>> \notin R
    BY <1>2, <1>3
  <2>2. \A x, y, z \in Free : <<x, y>> \in R /\ <<y, z>> \in R => <<x, z>> \in R
    <3> SUFFICES ASSUME NEW x \in Free, NEW y \in Free, NEW z \in Free, Better(y, x), Better(z, y)
                 PROVE  Better(z, x)
      BY <1>3
    <3> DEFINE u(i) == slot[i].used
    <3>1. /\ c(x) \in Nat /\ c(y) \in Nat /\ c(z) \in Nat /\ x \in Int /\ y \in Int /\ z \in Int
          /\ u(x) \in Nat /\ u(y) \in Nat /\ u(z) \in Nat
      BY <1>2
    <3> HIDE DEF u
    <3> QED BY <3>1 DEF u
  <2>3. \A x, y \in Free : x # y => <<x, y>> \in R \/ <<y, x>> \in R
    <3> SUFFICES ASSUME NEW x \in Free, NEW y \in Free, x # y
                 PROVE  Better(y, x) \/ Better(x, y)
      BY <1>3
    <3>1. /\ c(x) \in Nat /\ c(y) \in Nat /\ x \in Int /\ y \in Int
          /\ slot[x].used \in Nat /\ slot[y].used \in Nat
      BY <1>2
    <3> QED BY <3>1
  <2> QED BY <2>1, <2>2, <2>3 DEF Orders
<1>5. PICK m \in Free : \A x \in Free : x # m => <<x, m>> \in R
  BY <1>1, <1>4, LastElement
<1>6. \A j \in Free \ {m} : Better(m, j)
  BY <1>3, <1>5
<1>7. Best(p) = CHOOSE i \in Free : \A j \in Free \ {i} : Better(i, j)
  BY DEF Best, c
<1> HIDE DEF Better
<1> QED BY <1>1, <1>5, <1>6, <1>7

\* A source is another slot, that holds more of the prompt
LEMMA SourceOther ==
    ASSUME EngineTypes, NEW p \in Seq(Nat), Len(p) > 0, Free # {}, Source(p) # NoSlot
    PROVE  /\ Source(p) \in SlotId /\ Source(p) # Best(p) /\ Share
           /\ common_prefix(Source(p), p) > 0
<1> DEFINE b == Best(p)
           c(i) == common_prefix(i, p)
           more == {i \in SlotId \ {b} : Share /\ c(i) > c(b) + ShareMin}
           Better(i, j) == c(i) > c(j) \/ (c(i) = c(j) /\ i < j)
           R == {w \in more \X more : Better(w[2], w[1])}
<1>1. b \in SlotId
  BY BestFree
<1>2. \A i \in SlotId : c(i) \in Nat /\ i \in Int
  BY SharedPrefix, LlmAssumption DEF SlotId
<1>3. more \subseteq SlotId /\ IsFiniteSet(more)
  BY SlotsFinite, FS_Subset
<1>4. \A i, j \in more : <<i, j>> \in R <=> Better(j, i)
  OBVIOUS
<1>5. Source(p) = IF more = {} THEN NoSlot ELSE CHOOSE i \in more : \A j \in more \ {i} : Better(i, j)
  BY DEF Source
<1>6. \A i \in more : i \in SlotId /\ i # b /\ Share /\ c(i) > c(b) + ShareMin
  OBVIOUS
<1> HIDE DEF more, R, c, b
<1>7. more # {}
  BY <1>5
<1>8. Orders(R, more)
  BY <1>2, <1>3, <1>4, SMTT(40) DEF Orders
<1>9. PICK m \in more : \A x \in more : x # m => <<x, m>> \in R
  BY <1>3, <1>7, <1>8, LastElement
<1>10. \A j \in more \ {m} : Better(m, j)
  BY <1>4, <1>9
<1> HIDE DEF Better
<1>11. Source(p) \in more
  BY <1>5, <1>7, <1>9, <1>10
<1>12. c(Source(p)) > 0
  BY <1>1, <1>2, <1>3, <1>6, <1>11, LlmAssumption
<1> QED BY <1>6, <1>11, <1>12 DEF b, c

-----------------------------------------------------------------------------
(* The shape of the engine's state, and its pins                           *)

LEMMA ShapeInit == LlmInit => Shape
<1> SUFFICES ASSUME LlmInit PROVE Shape
  OBVIOUS
<1>0. NSlots \in Nat /\ <<>> \in Seq(Nat)
  BY LlmAssumption
<1>1. IsSlot(Idle)
  BY <1>0 DEF Idle, IsSlot, Fields, NoSlot
<1>2. EngineTypes
  <2>1. DOMAIN slot = SlotId /\ \A i \in SlotId : IsSlot(slot[i])
    BY <1>1 DEF LlmInit, Started
  <2>3. NoSlot \in 0 .. NSlots
    BY <1>0 DEF NoSlot
  <2> QED BY <2>1, <2>3 DEF LlmInit, Started, EngineTypes
<1>3. \A i \in SlotId : slot[i] = Idle
  BY DEF LlmInit, Started
<1>4. Owned
  BY DEF LlmInit, Owned
<1>5. FreeClean
  BY <1>3, SlotsFinite DEF FreeClean, Idle, NoSlot
<1>8. Bounds
  BY <1>3 DEF Bounds, Idle
<1>6. StepShape
  BY <1>3 DEF LlmInit, Started, StepShape, Idle
<1>7. PinsExact
  <2> SUFFICES ASSUME NEW i \in SlotId PROVE slot[i].pins = Cardinality({j \in SlotId : slot[j].src = i})
    BY DEF PinsExact
  <2>1. {j \in SlotId : slot[j].src = i} = {}
    <3>1. i # NoSlot
      BY SlotsFinite
    <3>2. \A j \in SlotId : slot[j].src = NoSlot
      BY <1>3 DEF Idle
    <3> QED BY <3>1, <3>2
  <2>2. slot[i].pins = 0
    BY <1>3 DEF Idle
  <2> QED BY <2>1, <2>2, FS_EmptySet
<1> QED BY <1>2, <1>4, <1>5, <1>6, <1>7, <1>8 DEF Shape

\* A step that moves no pin and no source
LEMMA PinsStay ==
    ASSUME PinsExact, \A i \in SlotId : slot'[i].src = slot[i].src /\ slot'[i].pins = slot[i].pins
    PROVE  PinsExact'
<1> SUFFICES ASSUME NEW i \in SlotId PROVE slot'[i].pins = Cardinality({j \in SlotId : slot'[j].src = i})
  BY DEF PinsExact
<1>1. {j \in SlotId : slot'[j].src = i} = {j \in SlotId : slot[j].src = i}
  OBVIOUS
<1> QED BY <1>1 DEF PinsExact

\* A step of the engine that leaves the clients alone
LEMMA OwnedStays ==
    ASSUME Owned, UNCHANGED <<cpc, mine>>,
           \A i \in SlotId : slot'[i].busy = slot[i].busy /\ (slot'[i].state = "idle" <=> slot[i].state = "idle")
    PROVE  Owned'
BY DEF Owned

LEMMA CleanStays ==
    ASSUME FreeClean,
           \A i \in SlotId : /\ slot'[i].busy = slot[i].busy /\ (slot'[i].state = "idle" <=> slot[i].state = "idle")
                             /\ slot'[i].src \in {slot[i].src, NoSlot} /\ slot'[i].rm \in {slot[i].rm, -1}
    PROVE  FreeClean'
<1> SUFFICES ASSUME NEW i \in SlotId
             PROVE  /\ ~slot'[i].busy => slot'[i].state = "idle" /\ slot'[i].src = NoSlot
                    /\ slot'[i].state = "idle" => slot'[i].rm = -1
                    /\ slot'[i].src # i
  BY DEF FreeClean
<1>1. i # NoSlot
  BY SlotsFinite
<1>2. /\ ~slot[i].busy => slot[i].state = "idle" /\ slot[i].src = NoSlot
      /\ slot[i].state = "idle" => slot[i].rm = -1
      /\ slot[i].src # i
  BY DEF FreeClean
<1>3. /\ slot'[i].busy = slot[i].busy /\ (slot'[i].state = "idle" <=> slot[i].state = "idle")
      /\ slot'[i].src \in {slot[i].src, NoSlot} /\ slot'[i].rm \in {slot[i].rm, -1}
  OBVIOUS
<1> QED BY <1>1, <1>2, <1>3

LEMMA BoundsStay ==
    ASSUME Bounds,
           \A i \in SlotId : /\ slot'[i].busy => slot[i].busy /\ slot'[i].len = slot[i].len /\ slot'[i].prompt = slot[i].prompt
                             /\ slot'[i].state = "prefill" =>
                                  /\ slot[i].state = "prefill" /\ slot'[i].done = slot[i].done /\ slot'[i].prompt = slot[i].prompt
                                  /\ slot'[i].in_step => slot[i].in_step /\ slot'[i].chunk = slot[i].chunk
    PROVE  Bounds'
BY DEF Bounds

\* A step of a client: the engine is at most woken
LEMMA StepStays ==
    ASSUME EngineTypes, StepShape, epc' \in {epc, Woken}, UNCHANGED <<step, victim>>,
           \A i \in SlotId : slot'[i].in_step = slot[i].in_step /\ (slot[i].in_step /\ Live(slot[i]) => Live(slot'[i]))
    PROVE  StepShape'
<1>1. step = "full" => victim \in SlotId
  BY LlmAssumption DEF StepShape, EngineTypes, SlotId, NoSlot
<1> QED BY <1>1 DEF StepShape, Woken

LEMMA ShapeStutter == Shape /\ UNCHANGED llmVars => Shape'
BY DEF Shape, EngineTypes, Owned, FreeClean, Bounds, StepShape, PinsExact, llmVars, client, Live

LEMMA TakenSlot ==
    ASSUME NEW r, IsSlot(r), NEW u \in Nat, NEW p \in Seq(Nat), NEW x \in 0 .. NSlots, NEW l \in Nat, NEW k \in Nat
    PROVE  IsSlot([r EXCEPT !.busy = TRUE, !.used = u, !.prompt = p, !.src = x, !.len = l, !.count = k])
BY DEF IsSlot, Fields

LEMMA PinnedSlot ==
    ASSUME NEW r, IsSlot(r), NEW n \in Int
    PROVE  IsSlot([r EXCEPT !.pins = n])
BY DEF IsSlot, Fields

LEMMA ShapeAcquire ==
    ASSUME Shape, NEW c \in Client, NEW p \in Prompts, AcquireSlot(c, p)
    PROVE  Shape'
<1> DEFINE b == Best(p)
           s == Source(p)
           n == common_prefix(b, p)
           m == common_prefix(s, p)
<1>1. p \in Seq(Nat) /\ Len(p) > 0
  BY LlmAssumption
<1>2. EngineTypes /\ Owned /\ FreeClean /\ Bounds /\ StepShape /\ PinsExact
  BY DEF Shape
<1>3. Free # {} /\ cpc[c] = "idle"
  BY DEF AcquireSlot
<1>4. b \in Free /\ b \in SlotId /\ n \in Nat
  BY <1>1, <1>2, <1>3, BestFree, SharedPrefix
<1>23. n <= Len(p)
  BY <1>1, <1>2, <1>4, SharedPrefix
<1>5. s # NoSlot => s \in SlotId /\ s # b /\ m \in Nat /\ m <= Len(p)
  BY <1>1, <1>2, <1>3, SourceOther, SharedPrefix
<1>6. ~slot[b].busy /\ slot[b].state = "idle" /\ slot[b].src = NoSlot /\ slot[b].pins = 0
  BY <1>2, <1>4 DEF Free, FreeClean
<1>7. slot' = [i \in SlotId |->
       IF i = b THEN [slot[i] EXCEPT !.busy = TRUE, !.used = order + 1, !.prompt = p,
                        !.src = IF s = NoSlot THEN @ ELSE s,
                        !.len = IF s = NoSlot THEN n ELSE m,
                        !.count = IF s = NoSlot THEN n ELSE 0]
       ELSE IF i = s THEN [slot[i] EXCEPT !.pins = @ + 1] ELSE slot[i]]
  BY DEF AcquireSlot, acquire_slot
<1>8. /\ mine' = [mine EXCEPT ![c] = b] /\ order' = order + 1 /\ cpc' = [cpc EXCEPT ![c] = "submit"]
      /\ UNCHANGED <<setup, kv, hold, epc, step, victim, taken>>
  BY DEF AcquireSlot
<1> HIDE DEF b, s, n, m
<1>9. slot'[b] = [slot[b] EXCEPT !.busy = TRUE, !.used = order + 1, !.prompt = p,
                        !.src = IF s = NoSlot THEN @ ELSE s,
                        !.len = IF s = NoSlot THEN n ELSE m,
                        !.count = IF s = NoSlot THEN n ELSE 0]
  BY <1>4, <1>7
<1>10. s # NoSlot => slot'[s] = [slot[s] EXCEPT !.pins = @ + 1]
  BY <1>5, <1>7
<1>11. \A i \in SlotId : i # b /\ i # s => slot'[i] = slot[i]
  BY <1>7
<1>12. NSlots \in Nat /\ SlotId \subseteq 0 .. NSlots /\ NoSlot \notin SlotId
  BY SlotsFinite, LlmAssumption
<1>13. DOMAIN slot = SlotId /\ \A i \in SlotId : IsSlot(slot[i]) /\ order \in Nat
  BY <1>2 DEF EngineTypes
<1>14. IsSlot(slot'[b])
  <2> DEFINE r == slot[b]
             u == order + 1
             l == IF s = NoSlot THEN n ELSE m
             k == IF s = NoSlot THEN n ELSE 0
  <2>1. l \in Nat /\ k \in Nat /\ u \in Nat
    BY <1>4, <1>5, <1>13
  <2>4. s \in 0 .. NSlots
    <3>1. NoSlot \in 0 .. NSlots
      BY <1>12 DEF NoSlot
    <3> QED BY <1>5, <1>12, <3>1
  <2>5. IsSlot(r)
    BY <1>4, <1>13
  <2>2. DOMAIN slot[b] = Fields
    BY <1>4, <1>13 DEF IsSlot
  <2>3. slot'[b] = [r EXCEPT !.busy = TRUE, !.used = u, !.prompt = p, !.src = s, !.len = l, !.count = k]
    BY <1>6, <1>9, <2>2 DEF Fields
  <2> HIDE DEF r, u, l, k
  <2>6. IsSlot([r EXCEPT !.busy = TRUE, !.used = u, !.prompt = p, !.src = s, !.len = l, !.count = k])
    BY <1>1, <2>1, <2>4, <2>5, TakenSlot
  <2> QED BY <2>3, <2>6
<1>15. s # NoSlot => IsSlot(slot'[s])
  <2> SUFFICES ASSUME s # NoSlot PROVE IsSlot(slot'[s])
    OBVIOUS
  <2>1. IsSlot(slot[s]) /\ slot[s].pins \in Int /\ DOMAIN slot[s] = Fields
    BY <1>5, <1>13 DEF IsSlot
  <2>2. slot'[s] = [slot[s] EXCEPT !.pins = slot[s].pins + 1]
    BY <2>1, <1>10
  <2> QED BY <2>1, <2>2, PinnedSlot
<1>16. EngineTypes'
  <2>1. \A i \in SlotId : IsSlot(slot'[i])
    BY <1>5, <1>11, <1>13, <1>14, <1>15, <1>12
  <2>2. DOMAIN slot' = SlotId
    BY <1>7
  <2> QED BY <2>1, <2>2, <1>2, <1>4, <1>8, <1>12 DEF EngineTypes
<1>17. /\ slot'[b].busy /\ slot'[b].state = "idle" /\ slot'[b].rm = slot[b].rm /\ slot'[b].pins = slot[b].pins
       /\ slot'[b].src = s /\ slot'[b].in_step = slot[b].in_step
       /\ slot'[b].prompt = p /\ slot'[b].len = IF s = NoSlot THEN n ELSE m
  BY <1>4, <1>6, <1>9, <1>13 DEF IsSlot, Fields, NoSlot
<1>18. \A i \in SlotId : i # b =>
         /\ slot'[i].busy = slot[i].busy /\ slot'[i].state = slot[i].state /\ slot'[i].rm = slot[i].rm
         /\ slot'[i].src = slot[i].src /\ slot'[i].in_step = slot[i].in_step
         /\ slot'[i].prompt = slot[i].prompt /\ slot'[i].len = slot[i].len /\ slot'[i].done = slot[i].done
         /\ slot'[i].chunk = slot[i].chunk
         /\ slot'[i].pins = IF i = s THEN slot[i].pins + 1 ELSE slot[i].pins
  <2> SUFFICES ASSUME NEW i \in SlotId, i # b
               PROVE /\ slot'[i].busy = slot[i].busy /\ slot'[i].state = slot[i].state /\ slot'[i].rm = slot[i].rm
                     /\ slot'[i].src = slot[i].src /\ slot'[i].in_step = slot[i].in_step
                     /\ slot'[i].prompt = slot[i].prompt /\ slot'[i].len = slot[i].len /\ slot'[i].done = slot[i].done
                     /\ slot'[i].chunk = slot[i].chunk
         /\ slot'[i].prompt = slot[i].prompt /\ slot'[i].len = slot[i].len /\ slot'[i].done = slot[i].done
         /\ slot'[i].chunk = slot[i].chunk
                     /\ slot'[i].pins = IF i = s THEN slot[i].pins + 1 ELSE slot[i].pins
    OBVIOUS
  <2>1. CASE i = s
    BY <2>1, <1>10, <1>12, <1>13, ZenonT(40) DEF IsSlot, Fields
  <2>2. CASE i # s
    BY <2>2, <1>11
  <2> QED BY <2>1, <2>2
<1>19. Owned'
  <2>1. \A d \in Client : d # c => mine'[d] = mine[d] /\ cpc'[d] = cpc[d]
    BY <1>8
  <2>2. mine'[c] = b /\ cpc'[c] = "submit"
    BY <1>2, <1>8 DEF EngineTypes
  <2>3. \A d \in Client : cpc[d] # "idle" => mine[d] # b
    BY <1>2, <1>6 DEF Owned
  <2>4. \A d \in Client : cpc'[d] # "idle" =>
         /\ mine'[d] \in SlotId /\ slot'[mine'[d]].busy
         /\ slot'[mine'[d]].state = "idle" <=> cpc'[d] = "submit"
    <3> SUFFICES ASSUME NEW d \in Client, cpc'[d] # "idle"
                 PROVE  /\ mine'[d] \in SlotId /\ slot'[mine'[d]].busy
                        /\ slot'[mine'[d]].state = "idle" <=> cpc'[d] = "submit"
      OBVIOUS
    <3>1. CASE d = c
      BY <3>1, <2>2, <1>4, <1>17
    <3>2. CASE d # c
      <4>1. mine[d] \in SlotId /\ slot[mine[d]].busy /\ (slot[mine[d]].state = "idle" <=> cpc[d] = "submit") /\ mine[d] # b
        BY <3>2, <2>1, <2>3, <1>2 DEF Owned
      <4> QED BY <4>1, <3>2, <2>1, <1>18
    <3> QED BY <3>1, <3>2
  <2>5. \A d, e \in Client : cpc'[d] # "idle" /\ cpc'[e] # "idle" /\ mine'[d] = mine'[e] => d = e
    BY <2>1, <2>2, <2>3, <1>2 DEF Owned
  <2> QED BY <2>4, <2>5 DEF Owned
<1>20. FreeClean'
  BY <1>2, <1>4, <1>5, <1>6, <1>12, <1>17, <1>18 DEF FreeClean
<1>24. Bounds'
  <2>1. ASSUME NEW i \in SlotId
        PROVE  /\ slot'[i].busy => slot'[i].len <= Len(slot'[i].prompt)
               /\ slot'[i].state = "prefill" => slot'[i].done <= Len(slot'[i].prompt)
               /\ slot'[i].state = "prefill" /\ slot'[i].in_step => slot'[i].chunk <= Len(slot'[i].prompt) - slot'[i].done
    <3>1. CASE i = b
      BY <3>1, <1>5, <1>17, <1>23
    <3>2. CASE i # b
      BY <3>2, <1>2, <1>18 DEF Bounds
    <3> QED BY <3>1, <3>2
  <2> QED BY <2>1 DEF Bounds
<1>21. StepShape'
  <2>1. \A i \in SlotId : slot'[i].in_step = slot[i].in_step /\ slot'[i].state = slot[i].state
    BY <1>6, <1>17, <1>18
  <2>2. step = "full" => victim \in SlotId
    BY <1>2, <1>12 DEF StepShape, EngineTypes, SlotId, NoSlot
  <2> QED BY <2>1, <2>2, <1>2, <1>8 DEF StepShape, Live
<1>22. PinsExact'
  <2>1. CASE s = NoSlot
    <3>1. \A i \in SlotId : slot'[i].src = slot[i].src /\ slot'[i].pins = slot[i].pins
      BY <2>1, <1>6, <1>12, <1>17, <1>18
    <3> QED BY <3>1, <1>2, PinsStay
  <2>2. CASE s # NoSlot
    <3> SUFFICES ASSUME NEW i \in SlotId PROVE slot'[i].pins = Cardinality({j \in SlotId : slot'[j].src = i})
      BY DEF PinsExact
    <3> DEFINE F == {j \in SlotId : slot[j].src = i}
    <3>1. slot[i].pins = Cardinality(F) /\ IsFiniteSet(F) /\ b \notin F
      BY <1>2, <1>6, <1>12, SlotsFinite, FS_Subset DEF PinsExact
    <3>2. CASE i = s
      <4>1. {j \in SlotId : slot'[j].src = i} = F \cup {b}
        BY <3>2, <2>2, <1>4, <1>17, <1>18
      <4>2. Cardinality(F \cup {b}) = Cardinality(F) + 1
        BY <3>1, FS_AddElement
      <4>3. slot'[i].pins = slot[i].pins + 1
        BY <3>2, <2>2, <1>5, <1>18
      <4> QED BY <3>1, <4>1, <4>2, <4>3
    <3>3. CASE i # s
      <4>1. {j \in SlotId : slot'[j].src = i} = F
        BY <3>3, <3>1, <1>4, <1>17, <1>18
      <4>2. slot'[i].pins = slot[i].pins
        BY <3>3, <1>4, <1>17, <1>18
      <4> QED BY <3>1, <4>1, <4>2
    <3> QED BY <3>2, <3>3
  <2> QED BY <2>1, <2>2
<1> QED BY <1>16, <1>19, <1>20, <1>21, <1>22, <1>24 DEF Shape

LEMMA OneSlot ==
    ASSUME EngineTypes, NEW x \in SlotId, NEW r, IsSlot(r), slot' = [slot EXCEPT ![x] = r]
    PROVE  /\ DOMAIN slot' = SlotId /\ \A i \in SlotId : IsSlot(slot'[i])
           /\ slot'[x] = r /\ \A i \in SlotId : i # x => slot'[i] = slot[i]
BY DEF EngineTypes

\* A client moves on with the slot it has
LEMMA OwnedMoves ==
    ASSUME Owned, NEW c \in Client, NEW v, v # "idle", cpc[c] # "idle",
           \A d \in Client : cpc'[d] = IF d = c THEN v ELSE cpc[d],
           mine' = mine, \A i \in SlotId : slot'[i].busy = slot[i].busy,
           \A i \in SlotId : i # mine[c] => slot'[i].state = slot[i].state,
           slot'[mine[c]].state = "idle" <=> v = "submit"
    PROVE  Owned'
<1>1. ASSUME NEW d \in Client, cpc'[d] # "idle"
      PROVE  /\ mine'[d] \in SlotId /\ slot'[mine'[d]].busy
             /\ slot'[mine'[d]].state = "idle" <=> cpc'[d] = "submit"
  <2>1. CASE d = c
    BY <2>1 DEF Owned
  <2>2. CASE d # c
    BY <1>1, <2>2 DEF Owned
  <2> QED BY <2>1, <2>2
<1>2. \A d, e \in Client : cpc'[d] # "idle" /\ cpc'[e] # "idle" /\ mine'[d] = mine'[e] => d = e
  BY DEF Owned
<1> QED BY <1>1, <1>2 DEF Owned

LEMMA SubmittedSlot ==
    ASSUME NEW s, IsSlot(s)
    PROVE  LET r == engine_submit(s) IN
           /\ IsSlot(r) /\ r.state = "prefill" /\ r.busy = s.busy /\ r.src = s.src /\ r.pins = s.pins
           /\ r.in_step = s.in_step /\ r.rm = s.len /\ r.toks = s.prompt /\ r.prompt = s.prompt /\ r.done = s.len
           /\ r.produced = 0 /\ r.count = s.count /\ r.len = s.len /\ r.used = s.used
BY ZenonT(40) DEF engine_submit, IsSlot, Fields

LEMMA ShapeSubmit ==
    ASSUME Shape, NEW c \in Client, Submit(c)
    PROVE  Shape'
<1> DEFINE x == mine[c]
           r == engine_submit(slot[x])
<1>1. EngineTypes /\ Owned /\ FreeClean /\ Bounds /\ StepShape /\ PinsExact
  BY DEF Shape
<1>2. x \in SlotId /\ slot[x].busy /\ slot[x].state = "idle" /\ cpc[c] = "submit"
  BY <1>1 DEF Submit, Owned
<1>3. IsSlot(slot[x])
  BY <1>1, <1>2 DEF EngineTypes
<1>4. /\ IsSlot(r) /\ r.state = "prefill" /\ r.busy = slot[x].busy /\ r.src = slot[x].src /\ r.pins = slot[x].pins
      /\ r.in_step = slot[x].in_step /\ r.done = r.len /\ r.len = slot[x].len /\ r.prompt = slot[x].prompt
  BY <1>3, SubmittedSlot
<1>5. slot' = [slot EXCEPT ![x] = r]
  BY DEF Submit
<1>6. /\ cpc' = [cpc EXCEPT ![c] = "pull"] /\ taken' = [taken EXCEPT ![c] = 0] /\ epc' = Woken
      /\ UNCHANGED <<setup, kv, hold, step, victim, mine, order>>
  BY DEF Submit
<1> HIDE DEF r
<1>7. /\ DOMAIN slot' = SlotId /\ \A i \in SlotId : IsSlot(slot'[i])
      /\ slot'[x] = r /\ \A i \in SlotId : i # x => slot'[i] = slot[i]
  BY <1>1, <1>2, <1>4, <1>5, OneSlot
<1>8. EngineTypes'
  BY <1>1, <1>6, <1>7 DEF EngineTypes, Woken
<1>9. Owned'
  <2>1. \A d \in Client : cpc'[d] = IF d = c THEN "pull" ELSE cpc[d]
    BY <1>1, <1>6 DEF EngineTypes
  <2>2. \A i \in SlotId : slot'[i].busy = slot[i].busy
    BY <1>4, <1>7
  <2> QED BY <2>1, <2>2, <1>1, <1>2, <1>4, <1>6, <1>7, OwnedMoves
<1>10. FreeClean'
  <2>1. ASSUME NEW i \in SlotId
        PROVE  /\ ~slot'[i].busy => slot'[i].state = "idle" /\ slot'[i].src = NoSlot
               /\ slot'[i].state = "idle" => slot'[i].rm = -1
               /\ slot'[i].src # i
    <3>1. CASE i = x
      BY <3>1, <1>1, <1>2, <1>4, <1>7, ZenonT(40) DEF FreeClean
    <3>2. CASE i # x
      BY <3>2, <1>1, <1>7 DEF FreeClean
    <3> QED BY <3>1, <3>2
  <2> QED BY <2>1 DEF FreeClean
<1>11. StepShape'
  <2>1. ~slot[x].in_step
    BY <1>1, <1>2 DEF StepShape, Live
  <2>2. \A i \in SlotId : slot'[i].in_step = slot[i].in_step /\ (slot[i].in_step /\ Live(slot[i]) => Live(slot'[i]))
    BY <2>1, <1>4, <1>7
  <2> QED BY <2>2, <1>1, <1>6, StepStays
<1>12. PinsExact'
  BY <1>1, <1>4, <1>7, PinsStay
<1>13. Bounds'
  <2>1. ASSUME NEW i \in SlotId
        PROVE  /\ slot'[i].busy => slot'[i].len <= Len(slot'[i].prompt)
               /\ slot'[i].state = "prefill" => slot'[i].done <= Len(slot'[i].prompt)
               /\ slot'[i].state = "prefill" /\ slot'[i].in_step => slot'[i].chunk <= Len(slot'[i].prompt) - slot'[i].done
    <3>1. CASE i = x
      <4>1. ~slot[x].in_step
        BY <1>1, <1>2 DEF StepShape, Live
      <4> QED BY <3>1, <4>1, <1>1, <1>2, <1>4, <1>7 DEF Bounds
    <3>2. CASE i # x
      BY <3>2, <1>1, <1>7 DEF Bounds
    <3> QED BY <3>1, <3>2
  <2> QED BY <2>1 DEF Bounds
<1> QED BY <1>8, <1>9, <1>10, <1>11, <1>12, <1>13 DEF Shape

\* A step of a client that changes its ring or asks its sequence to stop
LEMMA ShapeServed ==
    ASSUME Shape, NEW c \in Client, cpc[c] = "pull", NEW r, DOMAIN slot' = SlotId,
           slot'[mine[c]] = r, \A i \in SlotId : i # mine[c] => slot'[i] = slot[i], IsSlot(r), r.state = slot[mine[c]].state, r.busy = slot[mine[c]].busy, r.src = slot[mine[c]].src,
           r.prompt = slot[mine[c]].prompt, r.len = slot[mine[c]].len, r.done = slot[mine[c]].done, r.chunk = slot[mine[c]].chunk,
           r.pins = slot[mine[c]].pins, r.in_step = slot[mine[c]].in_step, r.rm = slot[mine[c]].rm,
           epc' \in {epc, Woken}, cpc' \in {cpc, [cpc EXCEPT ![c] = "release"]}, taken' \in [Client -> Nat],
           UNCHANGED <<setup, kv, hold, step, victim, mine, order>>
    PROVE  Shape'
<1> DEFINE x == mine[c]
<1>1. EngineTypes /\ Owned /\ FreeClean /\ Bounds /\ StepShape /\ PinsExact
  BY DEF Shape
<1>2. x \in SlotId /\ slot[x].busy /\ slot[x].state # "idle"
  BY <1>1 DEF Owned
<1>7. \A i \in SlotId : IsSlot(slot'[i])
  BY <1>1 DEF EngineTypes
<1>3. \A i \in SlotId : /\ slot'[i].state = slot[i].state /\ slot'[i].busy = slot[i].busy /\ slot'[i].src = slot[i].src
                        /\ slot'[i].pins = slot[i].pins /\ slot'[i].in_step = slot[i].in_step /\ slot'[i].rm = slot[i].rm
                        /\ slot'[i].prompt = slot[i].prompt /\ slot'[i].len = slot[i].len /\ slot'[i].done = slot[i].done
                        /\ slot'[i].chunk = slot[i].chunk
  OBVIOUS
<1>8. EngineTypes'
  BY <1>1, <1>7 DEF EngineTypes, Woken
<1>9. Owned'
  <2> DEFINE v == cpc'[c]
  <2>1. v # "idle" /\ v # "submit" /\ \A d \in Client : cpc'[d] = IF d = c THEN v ELSE cpc[d]
    BY <1>1 DEF EngineTypes
  <2>2. slot'[x].state # "idle"
    BY <1>2, <1>3
  <2> HIDE DEF v
  <2> QED BY <2>1, <2>2, <1>1, <1>2, <1>3, OwnedMoves, SMTT(40)
<1>10. FreeClean'
  BY <1>1, <1>3, CleanStays
<1>11. StepShape'
  BY <1>1, <1>3, StepStays DEF Live
<1>12. PinsExact'
  BY <1>1, <1>3, PinsStay
<1>13. Bounds'
  BY <1>1, <1>3, BoundsStay
<1> QED BY <1>8, <1>9, <1>10, <1>11, <1>12, <1>13 DEF Shape

LEMMA RingSlot ==
    ASSUME NEW s, IsSlot(s)
    PROVE  LET r == [s EXCEPT !.ring = 0] IN
           /\ IsSlot(r) /\ r.state = s.state /\ r.busy = s.busy /\ r.src = s.src /\ r.pins = s.pins
           /\ r.in_step = s.in_step /\ r.rm = s.rm /\ r.prompt = s.prompt /\ r.len = s.len /\ r.done = s.done
           /\ r.chunk = s.chunk
BY DEF IsSlot, Fields

LEMMA StopSlot ==
    ASSUME NEW s, IsSlot(s)
    PROVE  LET r == [s EXCEPT !.stop = TRUE] IN
           /\ IsSlot(r) /\ r.state = s.state /\ r.busy = s.busy /\ r.src = s.src /\ r.pins = s.pins
           /\ r.in_step = s.in_step /\ r.rm = s.rm /\ r.prompt = s.prompt /\ r.len = s.len /\ r.done = s.done
           /\ r.chunk = s.chunk
BY DEF IsSlot, Fields

LEMMA ShapePull ==
    ASSUME Shape, NEW c \in Client, Pull(c)
    PROVE  Shape'
<1> DEFINE x == mine[c]
           r == [slot[x] EXCEPT !.ring = 0]
<1>1. x \in SlotId /\ cpc[c] = "pull"
  BY DEF Pull, Shape, Owned
<1>2. IsSlot(slot[x]) /\ DOMAIN slot = SlotId
  BY <1>1 DEF Shape, EngineTypes
<1>3. /\ IsSlot(r) /\ r.state = slot[x].state /\ r.busy = slot[x].busy /\ r.src = slot[x].src /\ r.pins = slot[x].pins
      /\ r.in_step = slot[x].in_step /\ r.rm = slot[x].rm /\ r.prompt = slot[x].prompt /\ r.len = slot[x].len
      /\ r.done = slot[x].done /\ r.chunk = slot[x].chunk
  BY <1>2, RingSlot
<1>4. DOMAIN slot' = SlotId /\ slot'[x] = r /\ \A i \in SlotId : i # x => slot'[i] = slot[i]
  BY <1>1, <1>2 DEF Pull
<1>5. slot[x].ring \in Nat /\ taken \in [Client -> Nat]
  BY <1>2 DEF IsSlot, Shape, EngineTypes
<1>6. taken' \in [Client -> Nat]
  BY <1>5 DEF Pull
<1>7. epc' \in {epc, Woken} /\ UNCHANGED <<setup, kv, hold, step, victim, cpc, mine, order>>
  BY DEF Pull
<1> HIDE DEF r
<1> QED BY <1>1, <1>3, <1>4, <1>6, <1>7, ShapeServed

LEMMA ShapeFinish ==
    ASSUME Shape, NEW c \in Client, Finish(c)
    PROVE  Shape'
<1> DEFINE x == mine[c]
           r == IF Live(slot[x]) THEN [slot[x] EXCEPT !.stop = TRUE] ELSE slot[x]
<1>1. x \in SlotId /\ cpc[c] = "pull"
  BY DEF Finish, Shape, Owned
<1>2. IsSlot(slot[x]) /\ DOMAIN slot = SlotId
  BY <1>1 DEF Shape, EngineTypes
<1>3. /\ IsSlot(r) /\ r.state = slot[x].state /\ r.busy = slot[x].busy /\ r.src = slot[x].src /\ r.pins = slot[x].pins
      /\ r.in_step = slot[x].in_step /\ r.rm = slot[x].rm /\ r.prompt = slot[x].prompt /\ r.len = slot[x].len
      /\ r.done = slot[x].done /\ r.chunk = slot[x].chunk
  <2>1. CASE Live(slot[x])
    <3>1. r = [slot[x] EXCEPT !.stop = TRUE]
      BY <2>1
    <3> HIDE DEF r
    <3> QED BY <1>2, <3>1, StopSlot
  <2>2. CASE ~Live(slot[x])
    BY <1>2, <2>2
  <2> QED BY <2>1, <2>2
<1>4. DOMAIN slot' = SlotId /\ slot'[x] = r /\ \A i \in SlotId : i # x => slot'[i] = slot[i]
  <2>1. CASE Live(slot[x])
    BY <2>1, <1>1, <1>2 DEF Finish, Live
  <2>2. CASE ~Live(slot[x])
    BY <2>2, <1>1, <1>2 DEF Finish, Live
  <2> QED BY <2>1, <2>2
<1>5. epc' \in {epc, Woken} /\ cpc' = [cpc EXCEPT ![c] = "release"]
      /\ UNCHANGED <<setup, kv, hold, step, victim, mine, taken, order>>
  BY DEF Finish
<1>6. taken' \in [Client -> Nat]
  BY <1>5 DEF Shape, EngineTypes
<1> HIDE DEF r
<1> QED BY <1>1, <1>3, <1>4, <1>5, <1>6, ShapeServed

LEMMA ReplyFacts ==
    ASSUME NEW s, s.prompt \in Seq(Nat), NEW n \in Nat
    PROVE  /\ Reply(s, n) \in Seq(Nat) /\ Len(Reply(s, n)) = Len(s.prompt) + n
           /\ \A k \in 1 .. Len(s.prompt) + n : Reply(s, n)[k] = Word(s, k)
<1> DEFINE p == s.prompt
           z == [k \in 1 .. n |-> 0]
<1>1. z \in Seq(Nat) /\ Len(z) = n /\ \A k \in 1 .. n : z[k] = 0
  OBVIOUS
<1>2. p \in Seq(Nat) /\ Len(p) \in Nat
  OBVIOUS
<1>3. Reply(s, n) = p \o z
  BY DEF Reply
<1>4. \A k \in 1 .. Len(p) + n : Word(s, k) = IF k <= Len(p) THEN p[k] ELSE 0
  BY DEF Word
<1> HIDE DEF p, z
<1>5. /\ p \o z \in Seq(Nat) /\ Len(p \o z) = Len(p) + Len(z)
      /\ \A k \in 1 .. Len(p) + Len(z) : (p \o z)[k] = IF k <= Len(p) THEN p[k] ELSE z[k - Len(p)]
  BY <1>1, <1>2, ConcatProperties
<1>6. \A k \in 1 .. Len(p) + n : (p \o z)[k] = Word(s, k)
  <2> SUFFICES ASSUME NEW k \in 1 .. Len(p) + n PROVE (p \o z)[k] = Word(s, k)
    OBVIOUS
  <2>1. CASE k <= Len(p)
    BY <2>1, <1>1, <1>4, <1>5
  <2>2. CASE ~(k <= Len(p))
    <3>1. k - Len(p) \in 1 .. n
      BY <2>2, <1>2
    <3> QED BY <3>1, <2>2, <1>1, <1>4, <1>5
  <2> QED BY <2>1, <2>2
<1> QED BY <1>1, <1>3, <1>5, <1>6 DEF p

LEMMA KeptFacts ==
    ASSUME NEW s, IsSlot(s), NEW n \in Nat
    PROVE  /\ Kept(s, n) \in Nat /\ Kept(s, n) <= Len(s.prompt) + n
           /\ Kept(s, n) > 0 => /\ ~s.failed /\ s.rm = -1 /\ s.src = NoSlot
                                /\ Kept(s, n) <= IF s.done < Len(s.prompt) THEN s.done ELSE s.past
<1> DEFINE a == IF s.done < Len(s.prompt) THEN s.done ELSE s.past
           b == Len(s.prompt) + n
<1>1. /\ s.prompt \in Seq(Nat) /\ Len(s.prompt) \in Nat /\ s.done \in Nat /\ s.past \in Nat /\ s.rm \in Nat \cup {-1}
  BY DEF IsSlot
<1>2. a \in Nat /\ b \in Nat
  BY <1>1
<1>3. Kept(s, n) = IF s.failed \/ s.rm >= 0 \/ s.src # NoSlot THEN 0 ELSE Min({a, b})
  BY DEF Kept
<1> HIDE DEF a, b
<1>4. Min({a, b}) = IF a <= b THEN a ELSE b
  BY <1>2, MinOfTwo
<1>5. /\ Kept(s, n) \in Nat /\ Kept(s, n) <= b
      /\ Kept(s, n) > 0 => ~s.failed /\ s.rm = -1 /\ s.src = NoSlot /\ Kept(s, n) <= a
  BY <1>1, <1>2, <1>3, <1>4
<1> QED BY <1>5 DEF a, b

Given(s, n) == [s EXCEPT !.state = "idle", !.src = NoSlot, !.toks = Cut(Reply(s, n), Kept(s, n)), !.count = Kept(s, n),
                         !.prompt = <<>>, !.busy = FALSE, !.ring = 0, !.rm = -1]

LEMMA GivenSlot ==
    ASSUME NEW s, IsSlot(s), NEW n \in Nat
    PROVE  LET r == Given(s, n) IN
           /\ IsSlot(r) /\ r.state = "idle" /\ r.src = NoSlot /\ ~r.busy /\ r.rm = -1 /\ r.pins = s.pins
           /\ r.in_step = s.in_step /\ r.count = Kept(s, n) /\ r.toks = Cut(Reply(s, n), Kept(s, n))
<1> DEFINE t == Cut(Reply(s, n), Kept(s, n))
           k == Kept(s, n)
<1>1. s.prompt \in Seq(Nat)
  BY DEF IsSlot
<1>2. t \in Seq(Nat) /\ k \in Nat
  <2>1. k \in Nat /\ k <= Len(s.prompt) + n
    BY KeptFacts
  <2>2. Reply(s, n) \in Seq(Nat) /\ Len(Reply(s, n)) = Len(s.prompt) + n
    BY <1>1, ReplyFacts
  <2> HIDE DEF k
  <2>3. Cut(Reply(s, n), k) \in Seq(Nat)
    BY <2>1, <2>2, CutFacts
  <2> QED BY <2>1, <2>3 DEF k
<1>3. NoSlot \in 0 .. NSlots /\ <<>> \in Seq(Nat)
  BY LlmAssumption DEF NoSlot
<1> HIDE DEF t, k
<1> QED BY <1>2, <1>3 DEF t, k, Given, IsSlot, Fields

\* The slots once x is given back
LEMMA ReleasedSlots ==
    ASSUME Shape, NEW x \in SlotId, NEW n \in Nat
    PROVE  LET y == slot[x].src r == Released(x, n) IN
           /\ DOMAIN r = SlotId /\ r[x] = Given(slot[x], n) /\ y # x
           /\ y # NoSlot => y \in SlotId /\ r[y] = [slot[y] EXCEPT !.pins = slot[y].pins - 1]
           /\ \A i \in SlotId : i # x /\ i # y => r[i] = slot[i]
<1> DEFINE y == slot[x].src
           sl == IF y = NoSlot THEN slot ELSE [slot EXCEPT ![y].pins = @ - 1]
<1>1. DOMAIN slot = SlotId /\ y # x /\ IsSlot(slot[x])
  BY DEF Shape, EngineTypes, FreeClean
<1>2. y # NoSlot => y \in SlotId
  <2>1. y \in 0 .. NSlots
    BY <1>1 DEF IsSlot
  <2> QED BY <2>1, LlmAssumption DEF SlotId, NoSlot
<1>3. Released(x, n) = [sl EXCEPT ![x].state = "idle", ![x].src = NoSlot, ![x].toks = Cut(Reply(slot[x], n), Kept(slot[x], n)),
                  ![x].count = Kept(slot[x], n), ![x].prompt = <<>>, ![x].busy = FALSE, ![x].ring = 0, ![x].rm = -1]
  BY DEF Released, Unpinned
<1>4. /\ DOMAIN sl = SlotId /\ sl[x] = slot[x] /\ \A i \in SlotId : i # y => sl[i] = slot[i]
      /\ y # NoSlot => sl[y] = [slot[y] EXCEPT !.pins = slot[y].pins - 1]
  BY <1>1, <1>2
<1> HIDE DEF sl
<1>5. /\ DOMAIN Released(x, n) = SlotId /\ Released(x, n)[x] = Given(slot[x], n)
      /\ \A i \in SlotId : i # x => Released(x, n)[i] = sl[i]
  BY <1>3, <1>4 DEF Given
<1> QED BY <1>1, <1>2, <1>4, <1>5

LEMMA ShapeRelease ==
    ASSUME Shape, NEW c \in Client, ReleaseSlot(c)
    PROVE  Shape'
<1> DEFINE x == mine[c]
           y == slot[x].src
<1>1. EngineTypes /\ Owned /\ FreeClean /\ Bounds /\ StepShape /\ PinsExact
  BY DEF Shape
<1>2. x \in SlotId /\ slot[x].busy /\ slot[x].state = "done" /\ ~slot[x].in_step /\ cpc[c] = "release"
  BY <1>1 DEF ReleaseSlot, Owned
<1>3. PICK n \in 0 .. taken[c] : slot' = Released(x, n)
  BY DEF ReleaseSlot
<1>4. n \in Nat
  BY <1>1 DEF EngineTypes
<1>5. /\ DOMAIN slot' = SlotId /\ slot'[x] = Given(slot[x], n) /\ y # x
      /\ y # NoSlot => y \in SlotId /\ slot'[y] = [slot[y] EXCEPT !.pins = slot[y].pins - 1]
      /\ \A i \in SlotId : i # x /\ i # y => slot'[i] = slot[i]
  BY <1>2, <1>3, <1>4, ReleasedSlots
<1>6. IsSlot(slot[x]) /\ \A i \in SlotId : IsSlot(slot[i])
  BY <1>1, <1>2 DEF EngineTypes
<1>7. LET r == slot'[x] IN
      IsSlot(r) /\ r.state = "idle" /\ r.src = NoSlot /\ ~r.busy /\ r.rm = -1 /\ r.pins = slot[x].pins /\ r.in_step = slot[x].in_step
  BY <1>4, <1>5, <1>6, GivenSlot
<1>8. \A i \in SlotId : i # x =>
        /\ IsSlot(slot'[i]) /\ slot'[i].busy = slot[i].busy /\ slot'[i].state = slot[i].state /\ slot'[i].src = slot[i].src
        /\ slot'[i].rm = slot[i].rm /\ slot'[i].in_step = slot[i].in_step
        /\ slot'[i].prompt = slot[i].prompt /\ slot'[i].len = slot[i].len /\ slot'[i].done = slot[i].done
        /\ slot'[i].chunk = slot[i].chunk
        /\ slot'[i].pins = IF i = y THEN slot[i].pins - 1 ELSE slot[i].pins
  <2> SUFFICES ASSUME NEW i \in SlotId, i # x
               PROVE  /\ IsSlot(slot'[i]) /\ slot'[i].busy = slot[i].busy /\ slot'[i].state = slot[i].state /\ slot'[i].src = slot[i].src
                      /\ slot'[i].rm = slot[i].rm /\ slot'[i].in_step = slot[i].in_step
                      /\ slot'[i].prompt = slot[i].prompt /\ slot'[i].len = slot[i].len /\ slot'[i].done = slot[i].done
                      /\ slot'[i].chunk = slot[i].chunk
        /\ slot'[i].prompt = slot[i].prompt /\ slot'[i].len = slot[i].len /\ slot'[i].done = slot[i].done
        /\ slot'[i].chunk = slot[i].chunk
                      /\ slot'[i].pins = IF i = y THEN slot[i].pins - 1 ELSE slot[i].pins
    OBVIOUS
  <2>1. CASE i = y
    <3> DEFINE s == slot[i]
               m == s.pins - 1
    <3>1. IsSlot(s) /\ m \in Int
      <4>1. IsSlot(s)
        BY <1>6
      <4> QED BY <4>1, SMTT(40) DEF IsSlot
    <3>2. slot'[i] = [s EXCEPT !.pins = m]
      BY <2>1, <1>5, SlotsFinite
    <3> HIDE DEF s, m
    <3>3. LET r == [s EXCEPT !.pins = m] IN
          /\ IsSlot(r) /\ r.busy = s.busy /\ r.state = s.state /\ r.src = s.src /\ r.rm = s.rm /\ r.in_step = s.in_step /\ r.pins = m
          /\ r.prompt = s.prompt /\ r.len = s.len /\ r.done = s.done /\ r.chunk = s.chunk
      BY <3>1, PinnedSlot DEF IsSlot, Fields
    <3> QED BY <2>1, <3>2, <3>3 DEF s, m
  <2>2. CASE i # y
    BY <2>2, <1>5, <1>6
  <2> QED BY <2>1, <2>2
<1>9. /\ cpc' = [cpc EXCEPT ![c] = "idle"] /\ mine' = [mine EXCEPT ![c] = NoSlot] /\ taken' = [taken EXCEPT ![c] = 0]
      /\ UNCHANGED <<setup, kv, hold, epc, step, victim, order>>
  BY DEF ReleaseSlot
<1>10. EngineTypes'
  <2>1. \A i \in SlotId : IsSlot(slot'[i])
    BY <1>7, <1>8
  <2>2. NoSlot \in 0 .. NSlots
    BY LlmAssumption DEF NoSlot
  <2> QED BY <2>1, <2>2, <1>1, <1>5, <1>9 DEF EngineTypes
<1>11. Owned'
  <2>1. \A d \in Client : d # c => mine'[d] = mine[d] /\ cpc'[d] = cpc[d]
    BY <1>9
  <2>2. cpc'[c] = "idle"
    BY <1>1, <1>9 DEF EngineTypes
  <2>3. \A d \in Client : d # c /\ cpc[d] # "idle" => mine[d] # x
    BY <1>1, <1>2 DEF Owned
  <2>4. ASSUME NEW d \in Client, cpc'[d] # "idle"
        PROVE  /\ mine'[d] \in SlotId /\ slot'[mine'[d]].busy
               /\ slot'[mine'[d]].state = "idle" <=> cpc'[d] = "submit"
    <3>1. d # c
      BY <2>2, <2>4
    <3>2. /\ mine[d] \in SlotId /\ slot[mine[d]].busy /\ mine[d] # x
          /\ slot[mine[d]].state = "idle" <=> cpc[d] = "submit"
      BY <3>1, <2>1, <2>3, <2>4, <1>1 DEF Owned
    <3> QED BY <3>1, <3>2, <2>1, <1>8
  <2>5. \A d, e \in Client : cpc'[d] # "idle" /\ cpc'[e] # "idle" /\ mine'[d] = mine'[e] => d = e
    BY <2>1, <2>2, <1>1 DEF Owned
  <2> QED BY <2>4, <2>5 DEF Owned
<1>12. FreeClean'
  <2>1. ASSUME NEW i \in SlotId
        PROVE  /\ ~slot'[i].busy => slot'[i].state = "idle" /\ slot'[i].src = NoSlot
               /\ slot'[i].state = "idle" => slot'[i].rm = -1
               /\ slot'[i].src # i
    <3>1. CASE i = x
      BY <3>1, <1>7, SlotsFinite
    <3>2. CASE i # x
      BY <3>2, <1>1, <1>8 DEF FreeClean
    <3> QED BY <3>1, <3>2
  <2> QED BY <2>1 DEF FreeClean
<1>13. StepShape'
  <2>1. \A i \in SlotId : slot'[i].in_step = slot[i].in_step /\ (slot[i].in_step /\ Live(slot[i]) => Live(slot'[i]))
    BY <1>2, <1>7, <1>8 DEF Live
  <2> QED BY <2>1, <1>1, <1>9, StepStays
<1>14. PinsExact'
  <2> SUFFICES ASSUME NEW i \in SlotId PROVE slot'[i].pins = Cardinality({j \in SlotId : slot'[j].src = i})
    BY DEF PinsExact
  <2> DEFINE F == {j \in SlotId : slot[j].src = i}
  <2>1. slot[i].pins = Cardinality(F) /\ IsFiniteSet(F)
    BY <1>1, SlotsFinite, FS_Subset DEF PinsExact
  <2>2. {j \in SlotId : slot'[j].src = i} = F \ {x}
    <3>1. slot'[x].src # i
      BY <1>7, SlotsFinite
    <3>2. \A j \in SlotId : j # x => slot'[j].src = slot[j].src
      BY <1>8
    <3> QED BY <3>1, <3>2
  <2>3. Cardinality(F \ {x}) = IF x \in F THEN Cardinality(F) - 1 ELSE Cardinality(F)
    BY <2>1, FS_RemoveElement
  <2>4. x \in F <=> i = y
    BY <1>2
  <2>5. slot'[i].pins = IF i = y THEN slot[i].pins - 1 ELSE slot[i].pins
    BY <1>5, <1>7, <1>8
  <2> QED BY <2>1, <2>2, <2>3, <2>4, <2>5
<1>15. Bounds'
  BY <1>1, <1>7, <1>8, BoundsStay
<1> QED BY <1>10, <1>11, <1>12, <1>13, <1>14, <1>15 DEF Shape

-----------------------------------------------------------------------------
(* The build of a step                                                     *)

\* What a turn of the loop over the slots leaves of a slot
SameRequest(r, s) ==
    /\ r.failed = s.failed /\ r.busy = s.busy /\ r.used = s.used /\ r.toks = s.toks /\ r.prompt = s.prompt
    /\ r.past = s.past /\ r.produced = s.produced /\ r.len = s.len /\ r.order = s.order

LEMMA TurnStopped ==
    ASSUME NEW s, IsSlot(s)
    PROVE  LET r == Finished(s, FALSE) IN
           /\ IsSlot(r) /\ SameRequest(r, s) /\ r.pins = s.pins /\ r.state = "done" /\ r.in_step = s.in_step
           /\ r.src = s.src /\ r.rm = s.rm /\ r.done = s.done /\ r.count = s.count
BY DEF Finished, IsSlot, Fields, SameRequest

LEMMA TurnForked ==
    ASSUME NEW s, IsSlot(s)
    PROVE  LET r == [Forked(s) EXCEPT !.in_step = Row(s)] IN
           /\ IsSlot(r) /\ SameRequest(r, s) /\ r.pins = s.pins /\ r.state = s.state /\ r.in_step = Row(s)
           /\ r.src = NoSlot /\ r.rm = -1 /\ r.done = s.len /\ r.count = s.len
<1>1. NoSlot \in 0 .. NSlots /\ Row(s) \in BOOLEAN
  BY LlmAssumption DEF NoSlot, Row
<1> QED BY <1>1 DEF Forked, IsSlot, Fields, SameRequest

LEMMA TurnTrimmed ==
    ASSUME NEW s, IsSlot(s), NEW k
    PROVE  LET r == [Trimmed(s, k) EXCEPT !.in_step = Row(s)] IN
           /\ IsSlot(r) /\ SameRequest(r, s) /\ r.pins = s.pins /\ r.state = s.state /\ r.in_step = Row(s)
           /\ r.src = s.src /\ r.rm = -1
           /\ r.done = (IF k = 0 THEN 0 ELSE s.done) /\ r.count = (IF k = 0 THEN 0 ELSE s.count)
<1>1. Row(s) \in BOOLEAN
  BY DEF Row
<1> QED BY <1>1 DEF Trimmed, IsSlot, Fields, SameRequest

LEMMA TurnPlain ==
    ASSUME NEW s, IsSlot(s)
    PROVE  LET r == [s EXCEPT !.in_step = Row(s)] IN
           /\ IsSlot(r) /\ SameRequest(r, s) /\ r.pins = s.pins /\ r.state = s.state /\ r.in_step = Row(s)
           /\ r.src = s.src /\ r.rm = s.rm /\ r.done = s.done /\ r.count = s.count
<1>1. Row(s) \in BOOLEAN
  BY DEF Row
<1> QED BY <1>1 DEF IsSlot, Fields, SameRequest

LEMMA ClearedSlot ==
    ASSUME NEW s, IsSlot(s), NEW n \in Int
    PROVE  LET r == [s EXCEPT !.chunk = 0, !.draft = 0, !.pins = n] IN
           /\ IsSlot(r) /\ SameRequest(r, s) /\ r.state = s.state /\ r.in_step = s.in_step /\ r.src = s.src /\ r.rm = s.rm
           /\ r.done = s.done /\ r.count = s.count /\ r.chunk = 0 /\ r.draft = 0 /\ r.pins = n
BY DEF IsSlot, Fields, SameRequest

LEMMA BuiltSlot ==
    ASSUME Shape, NEW i \in SlotId, NEW lost
    PROVE  LET s == slot[i] r == Built(i, lost) IN
           /\ IsSlot(r) /\ SameRequest(r, s) /\ r.chunk = 0 /\ r.draft = 0 /\ r.pins = s.pins - Cardinality(Copies(i))
           /\ Runs(s) => /\ r.state = s.state /\ r.in_step = Row(s) /\ r.src = NoSlot /\ r.rm = -1
                         /\ r.done = IF s.src # NoSlot THEN s.len
                                     ELSE IF s.rm >= 0 /\ Keep(i, lost) = 0 THEN 0 ELSE s.done
                         /\ r.count = IF s.src # NoSlot THEN s.len
                                      ELSE IF s.rm >= 0 /\ Keep(i, lost) = 0 THEN 0 ELSE s.count
           /\ ~Runs(s) => /\ r.state = (IF Live(s) THEN "done" ELSE s.state) /\ r.in_step = s.in_step
                          /\ r.src = s.src /\ r.rm = s.rm /\ r.done = s.done /\ r.count = s.count
<1> DEFINE s == slot[i]
           n == s.pins - Cardinality(Copies(i))
           turn == IF ~Live(s) THEN s ELSE IF s.stop THEN Finished(s, FALSE)
                   ELSE [Moved(i, lost) EXCEPT !.in_step = Row(s)]
<1>1. IsSlot(s)
  BY DEF Shape, EngineTypes
<1>2. n \in Int
  <2>1. IsFiniteSet(Copies(i))
    BY SlotsFinite, FS_Subset DEF Copies
  <2>2. Cardinality(Copies(i)) \in Nat
    BY <2>1, FS_CardinalityType
  <2> QED BY <1>1, <2>2, SMTT(40) DEF IsSlot
<1>3. Row(s) \in BOOLEAN /\ s.rm \in Nat \cup {-1}
  BY <1>1 DEF Row, IsSlot
<1>4. Built(i, lost) = [turn EXCEPT !.chunk = 0, !.draft = 0, !.pins = @ - Cardinality(Copies(i))]
  BY DEF Built
<1>5. /\ IsSlot(turn) /\ SameRequest(turn, s) /\ turn.pins = s.pins
      /\ Runs(s) => /\ turn.state = s.state /\ turn.in_step = Row(s) /\ turn.src = NoSlot /\ turn.rm = -1
                    /\ turn.done = IF s.src # NoSlot THEN s.len
                                   ELSE IF s.rm >= 0 /\ Keep(i, lost) = 0 THEN 0 ELSE s.done
                    /\ turn.count = IF s.src # NoSlot THEN s.len
                                    ELSE IF s.rm >= 0 /\ Keep(i, lost) = 0 THEN 0 ELSE s.count
      /\ ~Runs(s) => /\ turn.state = (IF Live(s) THEN "done" ELSE s.state) /\ turn.in_step = s.in_step
                     /\ turn.src = s.src /\ turn.rm = s.rm /\ turn.done = s.done /\ turn.count = s.count
  <2> HIDE DEF s
  <2>1. CASE ~Live(s)
    <3>1. turn = s
      BY <2>1
    <3> HIDE DEF turn
    <3> QED BY <2>1, <3>1, <1>1 DEF Runs, SameRequest
  <2>2. CASE Live(s) /\ s.stop
    <3>1. turn = Finished(s, FALSE)
      BY <2>2
    <3> HIDE DEF turn
    <3> QED BY <2>2, <3>1, <1>1, TurnStopped DEF Runs
  <2>3. CASE Live(s) /\ ~s.stop /\ s.src # NoSlot
    <3>1. turn = [Forked(s) EXCEPT !.in_step = Row(s)]
      BY <2>3 DEF Moved, s
    <3> HIDE DEF turn
    <3> QED BY <2>3, <3>1, <1>1, TurnForked DEF Runs
  <2>4. CASE Live(s) /\ ~s.stop /\ s.src = NoSlot /\ s.rm >= 0
    <3>1. turn = [Trimmed(s, Keep(i, lost)) EXCEPT !.in_step = Row(s)]
      BY <2>4 DEF Moved, s
    <3> HIDE DEF turn
    <3> QED BY <2>4, <3>1, <1>1, TurnTrimmed DEF Runs
  <2>5. CASE Live(s) /\ ~s.stop /\ s.src = NoSlot /\ ~(s.rm >= 0)
    <3>1. turn = [s EXCEPT !.in_step = Row(s)]
      BY <2>5 DEF Moved, s
    <3>2. s.rm = -1
      BY <2>5, <1>3
    <3> HIDE DEF turn
    <3> QED BY <2>5, <3>1, <3>2, <1>1, TurnPlain DEF Runs
  <2> QED BY <2>1, <2>2, <2>3, <2>4, <2>5
<1>6. Built(i, lost) = [turn EXCEPT !.chunk = 0, !.draft = 0, !.pins = n]
  BY <1>4, <1>5 DEF IsSlot, Fields
<1> HIDE DEF turn, n
<1>7. LET r == Built(i, lost) IN
      /\ IsSlot(r) /\ SameRequest(r, turn) /\ r.state = turn.state /\ r.in_step = turn.in_step /\ r.src = turn.src /\ r.rm = turn.rm
      /\ r.done = turn.done /\ r.count = turn.count /\ r.chunk = 0 /\ r.draft = 0 /\ r.pins = n
  <2>1. IsSlot(turn)
    BY <1>5
  <2> DEFINE q == [turn EXCEPT !.chunk = 0, !.draft = 0, !.pins = n]
  <2>2. /\ IsSlot(q) /\ SameRequest(q, turn) /\ q.state = turn.state /\ q.in_step = turn.in_step /\ q.src = turn.src
        /\ q.rm = turn.rm /\ q.done = turn.done /\ q.count = turn.count /\ q.chunk = 0 /\ q.draft = 0 /\ q.pins = n
    BY <1>2, <2>1, ClearedSlot, ZenonT(40)
  <2>3. Built(i, lost) = q
    BY <1>6
  <2> HIDE DEF q
  <2> QED BY <2>2, <2>3
<1>8. SameRequest(Built(i, lost), s)
  BY <1>5, <1>7 DEF SameRequest
<1> QED BY <1>5, <1>7, <1>8 DEF n

LEMMA BudgetInt == Budget \in Int
<1>1. StepBudget \in Nat
  BY LlmAssumption
<1>2. IsFiniteSet(Rows)
  BY SlotsFinite, FS_Subset DEF Rows
<1>3. Cardinality(Rows) \in Nat
  BY <1>2, FS_CardinalityType
<1> DEFINE a == StepBudget - Cardinality(Rows)
           b == StepBudget \div 4
<1>4. a \in Int /\ b \in Int
  BY <1>1, <1>3
<1>5. Budget = IF StillHeld /\ Rows # {} THEN 0 ELSE Max({a, b})
  BY DEF Budget
<1> HIDE DEF a, b
<1>6. Max({a, b}) \in Int
  <2>1. \E m \in {a, b} : \A y \in {a, b} : m >= y
    BY <1>4
  <2>2. Max({a, b}) \in {a, b}
    BY <2>1 DEF Max
  <2> QED BY <1>4, <2>2
<1> QED BY <1>5, <1>6

\* The slots after the loop over them, and what a prompt among them still needs
Turned(lost) == [i \in SlotId |-> Built(i, lost)]

LEMMA TurnedNeed ==
    ASSUME Shape, NEW lost, NEW i \in SlotId, Turned(lost)[i].state = "prefill"
    PROVE  Need(Turned(lost)[i]) \in Nat
<1> DEFINE s == slot[i]
           t == Turned(lost)[i]
<1>1. t = Built(i, lost)
  BY DEF Turned
<1>2. /\ IsSlot(t) /\ SameRequest(t, s)
      /\ Runs(s) => /\ t.state = s.state
                    /\ t.done = IF s.src # NoSlot THEN s.len
                                ELSE IF s.rm >= 0 /\ Keep(i, lost) = 0 THEN 0 ELSE s.done
      /\ ~Runs(s) => t.state = (IF Live(s) THEN "done" ELSE s.state)
  BY <1>1, BuiltSlot
<1>3. IsSlot(s)
  BY DEF Shape, EngineTypes
<1>4. Runs(s) /\ s.state = "prefill"
  BY <1>2, <1>3 DEF Live, IsSlot
<1>5. s.busy /\ s.len <= Len(s.prompt) /\ s.done <= Len(s.prompt)
  BY <1>3, <1>4 DEF Shape, FreeClean, Bounds, IsSlot
<1>6. t.prompt = s.prompt /\ s.prompt \in Seq(Nat) /\ s.len \in Nat /\ s.done \in Nat /\ Len(s.prompt) \in Nat
  BY <1>2, <1>3, SMTT(40) DEF SameRequest, IsSlot
<1>7. t.done \in Nat /\ t.done <= Len(t.prompt)
  BY <1>2, <1>4, <1>5, <1>6
<1> HIDE DEF t
<1>8. Need(t) \in Nat
  BY <1>6, <1>7 DEF Need
<1> QED BY <1>8 DEF t

LEMMA LeftInt ==
    ASSUME Shape, NEW lost, NEW i \in SlotId
    PROVE  Left(Turned(lost), i) \in Int
<1> DEFINE sl == Turned(lost)
           f == [j \in SlotId |-> Need(sl[j])]
           Q == Before(sl, i)
<1>1. Q \subseteq SlotId /\ IsFiniteSet(Q) /\ \A j \in Q : sl[j].state = "prefill"
  BY SlotsFinite, FS_Subset DEF Before
<1>2. \A j \in Q : f[j] \in Int
  BY <1>1, TurnedNeed
<1>3. Sum(f, Q) \in Int
  <2> HIDE DEF f, Q
  <2> QED BY <1>1, <1>2, SumInt
<1>4. Left(sl, i) = Budget - Sum(f, Q)
  BY DEF Left
<1> QED BY <1>3, <1>4, BudgetInt

LEMMA ChunkedSlot ==
    ASSUME NEW s, IsSlot(s), NEW n \in Nat
    PROVE  LET r == [s EXCEPT !.in_step = TRUE, !.chunk = n] IN
           /\ IsSlot(r) /\ SameRequest(r, s) /\ r.state = s.state /\ r.in_step /\ r.src = s.src /\ r.rm = s.rm
           /\ r.done = s.done /\ r.count = s.count /\ r.chunk = n /\ r.draft = s.draft /\ r.pins = s.pins
BY DEF IsSlot, Fields, SameRequest

LEMMA FilledSlot ==
    ASSUME Shape, NEW lost, NEW i \in SlotId
    PROVE  LET t == Turned(lost)[i] r == Filled(Turned(lost))[i] IN
           /\ IsSlot(r) /\ SameRequest(r, t) /\ r.state = t.state /\ r.src = t.src /\ r.rm = t.rm
           /\ r.done = t.done /\ r.count = t.count /\ r.draft = t.draft /\ r.pins = t.pins
           /\ t.state # "prefill" => r = t
           /\ t.state = "prefill" => \/ r = t
                                     \/ r.in_step /\ r.chunk <= Need(t) /\ (Need(t) > 0 => r.chunk > 0)
<1> DEFINE sl == Turned(lost)
           t == sl[i]
           r == Filled(sl)[i]
           n == Min({Need(t), Left(sl, i)})
<1>1. IsSlot(t)
  BY BuiltSlot DEF Turned
<1>2. r = IF t.state = "prefill" /\ Left(sl, i) > 0 THEN [t EXCEPT !.in_step = TRUE, !.chunk = n] ELSE t
  BY DEF Filled
<1>3. CASE t.state = "prefill" /\ Left(sl, i) > 0
  <2>1. Need(t) \in Nat /\ Left(sl, i) \in Int
    BY <1>3, TurnedNeed, LeftInt
  <2>2. n = IF Need(t) <= Left(sl, i) THEN Need(t) ELSE Left(sl, i)
    BY <2>1, MinOfTwo
  <2>3. n \in Nat /\ n <= Need(t) /\ (Need(t) > 0 => n > 0)
    BY <1>3, <2>1, <2>2
  <2> DEFINE q == [t EXCEPT !.in_step = TRUE, !.chunk = n]
  <2>4. r = q
    BY <1>2, <1>3
  <2> HIDE DEF n, t, sl
  <2>5. /\ IsSlot(q) /\ SameRequest(q, t) /\ q.state = t.state /\ q.in_step /\ q.src = t.src /\ q.rm = t.rm
        /\ q.done = t.done /\ q.count = t.count /\ q.chunk = n /\ q.draft = t.draft /\ q.pins = t.pins
    BY <1>1, <2>3, ChunkedSlot
  <2> HIDE DEF q, r
  <2>6. /\ IsSlot(r) /\ SameRequest(r, t) /\ r.state = t.state /\ r.src = t.src /\ r.rm = t.rm
        /\ r.done = t.done /\ r.count = t.count /\ r.draft = t.draft /\ r.pins = t.pins
        /\ r.in_step /\ r.chunk <= Need(t) /\ (Need(t) > 0 => r.chunk > 0)
    BY <2>3, <2>4, <2>5
  <2> QED BY <1>3, <2>6 DEF r, t, sl
<1>4. CASE ~(t.state = "prefill" /\ Left(sl, i) > 0)
  <2>1. r = t
    BY <1>2, <1>4
  <2> HIDE DEF r, t, sl
  <2>2. /\ IsSlot(r) /\ SameRequest(r, t) /\ r.state = t.state /\ r.src = t.src /\ r.rm = t.rm
        /\ r.done = t.done /\ r.count = t.count /\ r.draft = t.draft /\ r.pins = t.pins
    BY <1>1, <2>1 DEF SameRequest
  <2> QED BY <2>1, <2>2 DEF r, t, sl
<1> QED BY <1>3, <1>4

\* A slot after the build of a step, with a prompt of which k tokens are kept
StepBuilt(r, s, k) ==
    /\ IsSlot(r) /\ SameRequest(r, s) /\ r.draft = 0
    /\ Runs(s) => /\ r.state = s.state /\ r.src = NoSlot /\ r.rm = -1
                  /\ r.done = IF s.src # NoSlot THEN s.len ELSE IF s.rm >= 0 /\ k = 0 THEN 0 ELSE s.done
                  /\ r.count = IF s.src # NoSlot THEN s.len ELSE IF s.rm >= 0 /\ k = 0 THEN 0 ELSE s.count
                  /\ s.state = "prefill" /\ r.in_step =>
                       r.chunk <= Len(r.prompt) - r.done /\ (r.done < Len(r.prompt) => r.chunk > 0)
    /\ ~Runs(s) => /\ r.state = (IF Live(s) THEN "done" ELSE s.state) /\ ~r.in_step
                   /\ r.src = s.src /\ r.rm = s.rm /\ r.done = s.done /\ r.count = s.count

LEMMA StepBuiltSlots ==
    ASSUME Shape, NEW lost, engine_build(lost), epc = "build"
    PROVE  /\ DOMAIN slot' = SlotId
           /\ \A i \in SlotId : /\ StepBuilt(slot'[i], slot[i], Keep(i, lost))
                                /\ slot'[i].pins = slot[i].pins - Cardinality(Copies(i))
<1>1. slot' = Filled(Turned(lost))
  BY DEF engine_build, Turned
<1>2. DOMAIN slot' = SlotId
  BY <1>1 DEF Filled
<1>3. ASSUME NEW i \in SlotId
      PROVE  /\ StepBuilt(slot'[i], slot[i], Keep(i, lost))
             /\ slot'[i].pins = slot[i].pins - Cardinality(Copies(i))
  <2> DEFINE s == slot[i]
             t == Turned(lost)[i]
             r == slot'[i]
  <2>1. /\ IsSlot(t) /\ SameRequest(t, s) /\ t.chunk = 0 /\ t.draft = 0 /\ t.pins = s.pins - Cardinality(Copies(i))
        /\ Runs(s) => /\ t.state = s.state /\ t.in_step = Row(s) /\ t.src = NoSlot /\ t.rm = -1
                      /\ t.done = IF s.src # NoSlot THEN s.len
                                  ELSE IF s.rm >= 0 /\ Keep(i, lost) = 0 THEN 0 ELSE s.done
                      /\ t.count = IF s.src # NoSlot THEN s.len
                                   ELSE IF s.rm >= 0 /\ Keep(i, lost) = 0 THEN 0 ELSE s.count
        /\ ~Runs(s) => /\ t.state = (IF Live(s) THEN "done" ELSE s.state) /\ t.in_step = s.in_step
                       /\ t.src = s.src /\ t.rm = s.rm /\ t.done = s.done /\ t.count = s.count
    <3>1. t = Built(i, lost)
      BY DEF Turned
    <3> HIDE DEF t
    <3> QED BY <3>1, BuiltSlot
  <2>2. /\ IsSlot(r) /\ SameRequest(r, t) /\ r.state = t.state /\ r.src = t.src /\ r.rm = t.rm
        /\ r.done = t.done /\ r.count = t.count /\ r.draft = t.draft /\ r.pins = t.pins
        /\ t.state # "prefill" => r = t
        /\ t.state = "prefill" => \/ r = t
                                  \/ r.in_step /\ r.chunk <= Need(t) /\ (Need(t) > 0 => r.chunk > 0)
    BY <1>1, FilledSlot
  <2>3. ~s.in_step /\ IsSlot(s)
    BY DEF Shape, StepShape, EngineTypes
  <2> HIDE DEF r, t, s
  <2>4. SameRequest(r, s) /\ r.prompt = t.prompt
    BY <2>1, <2>2 DEF SameRequest
  <2>5. Runs(s) /\ s.state = "prefill" /\ r.in_step => r.chunk <= Len(r.prompt) - r.done /\ (r.done < Len(r.prompt) => r.chunk > 0)
    <3> SUFFICES ASSUME Runs(s), s.state = "prefill", r.in_step
                 PROVE  r.chunk <= Len(r.prompt) - r.done /\ (r.done < Len(r.prompt) => r.chunk > 0)
      OBVIOUS
    <3>1. ~t.in_step /\ t.state = "prefill"
      BY <2>1 DEF Row
    <3>2. Need(t) = Len(r.prompt) - r.done
      BY <2>2, <2>4 DEF Need
    <3>3. r.chunk <= Need(t) /\ (Need(t) > 0 => r.chunk > 0)
      BY <3>1, <2>2
    <3>4. Len(r.prompt) \in Nat /\ r.done \in Nat
      BY <2>2 DEF IsSlot
    <3> QED BY <3>2, <3>3, <3>4
  <2>6. ~Runs(s) => ~r.in_step
    <3> SUFFICES ASSUME ~Runs(s) PROVE ~r.in_step
      OBVIOUS
    <3>1. t.state # "prefill" /\ ~t.in_step
      BY <2>1, <2>3 DEF Live
    <3> QED BY <3>1, <2>2
  <2>7. StepBuilt(r, s, Keep(i, lost))
    BY <2>1, <2>2, <2>4, <2>5, <2>6 DEF StepBuilt
  <2>8. r.pins = s.pins - Cardinality(Copies(i))
    BY <2>1, <2>2
  <2> QED BY <2>7, <2>8 DEF r, s
<1> QED BY <1>2, <1>3

\* A prefix of a sequence of cells
LEMMA MinCut ==
    ASSUME NEW E, NEW s \in Seq(E), NEW n \in Nat
    PROVE  LET c == Cut(s, Min({n, Len(s)})) IN
           /\ c \in Seq(E) /\ Len(c) = IF n <= Len(s) THEN n ELSE Len(s)
           /\ \A k \in 1 .. Len(c) : c[k] = s[k]
<1>1. Len(s) \in Nat
  OBVIOUS
<1> DEFINE m == Min({n, Len(s)})
<1>2. m = IF n <= Len(s) THEN n ELSE Len(s)
  BY <1>1, MinOfTwo
<1> HIDE DEF m
<1>3. m \in Nat /\ m <= Len(s)
  BY <1>1, <1>2
<1>4. Cut(s, m) \in Seq(E) /\ Len(Cut(s, m)) = m /\ \A k \in 1 .. m : Cut(s, m)[k] = s[k]
  BY <1>3, CutFacts
<1> QED BY <1>2, <1>4 DEF m

LEMMA TrimmedCellsFacts ==
    ASSUME Shape, PoolType, NEW i \in SlotId, NEW lost
    PROVE  LET c == TrimmedCells(i, lost) IN
           /\ c \in Seq(Nat \X Nat) /\ Len(c) <= Len(kv[i]) /\ \A k \in 1 .. Len(c) : c[k] = kv[i][k]
           /\ Runs(slot[i]) /\ slot[i].rm >= 0 =>
                /\ Keep(i, lost) \in Nat
                /\ Len(c) = IF Keep(i, lost) <= Len(kv[i]) THEN Keep(i, lost) ELSE Len(kv[i])
           /\ ~(Runs(slot[i]) /\ slot[i].rm >= 0) => c = kv[i]
<1>1. kv[i] \in Seq(Nat \X Nat) /\ IsSlot(slot[i])
  BY DEF Shape, EngineTypes, PoolType
<1>2. CASE Runs(slot[i]) /\ slot[i].rm >= 0
  <2>1. Keep(i, lost) \in Nat
    BY <1>1, <1>2 DEF Keep, IsSlot
  <2>2. TrimmedCells(i, lost) = Cut(kv[i], Min({Keep(i, lost), Len(kv[i])}))
    BY <1>2 DEF TrimmedCells
  <2> DEFINE c == TrimmedCells(i, lost)
             n == Keep(i, lost)
             cells == kv[i]
  <2> HIDE DEF n, cells
  <2>3. /\ c \in Seq(Nat \X Nat) /\ Len(c) = IF n <= Len(cells) THEN n ELSE Len(cells)
        /\ \A k \in 1 .. Len(c) : c[k] = cells[k]
    <3> DEFINE q == Cut(cells, Min({n, Len(cells)}))
    <3>1. cells \in Seq(Nat \X Nat) /\ n \in Nat
      BY <1>1, <2>1 DEF n, cells
    <3>2. /\ q \in Seq(Nat \X Nat) /\ Len(q) = IF n <= Len(cells) THEN n ELSE Len(cells)
          /\ \A k \in 1 .. Len(q) : q[k] = cells[k]
      BY <3>1, MinCut
    <3>3. c = q
      BY <2>2 DEF n, cells
    <3> HIDE DEF q, c
    <3> QED BY <3>2, <3>3
  <2>4. Len(cells) \in Nat
    BY <1>1 DEF cells
  <2>5. Len(c) <= Len(cells)
    BY <2>1, <2>3, <2>4 DEF n
  <2> QED BY <1>2, <2>1, <2>3, <2>5 DEF n, cells
<1>3. CASE ~(Runs(slot[i]) /\ slot[i].rm >= 0)
  <2>1. TrimmedCells(i, lost) = kv[i]
    BY <1>3 DEF TrimmedCells
  <2> QED BY <1>1, <1>3, <2>1
<1> QED BY <1>2, <1>3

LEMMA CopiedCellsFacts ==
    ASSUME Shape, PoolType, NEW i \in SlotId, NEW lost, slot[i].src # NoSlot
    PROVE  LET x == slot[i].src
               from == IF x < i THEN TrimmedCells(x, lost) ELSE kv[x]
               c == CopiedCells(i, lost) IN
           /\ x \in SlotId /\ from \in Seq(Nat \X Nat)
           /\ c \in Seq(Nat \X Nat) /\ Len(c) = IF slot[i].len <= Len(from) THEN slot[i].len ELSE Len(from)
           /\ \A k \in 1 .. Len(c) : c[k] = from[k]
<1> DEFINE x == slot[i].src
           from == IF x < i THEN TrimmedCells(x, lost) ELSE kv[x]
           n == slot[i].len
<1>1. IsSlot(slot[i])
  BY DEF Shape, EngineTypes, PoolType
<1>2. x \in SlotId /\ n \in Nat
  <2>1. x \in 0 .. NSlots /\ x # 0 /\ n \in Nat
    BY <1>1 DEF IsSlot, NoSlot
  <2>2. NSlots \in Nat
    BY LlmAssumption
  <2> HIDE DEF x, n
  <2> QED BY <2>1, <2>2 DEF SlotId
<1>3. from \in Seq(Nat \X Nat)
  <2>1. TrimmedCells(x, lost) \in Seq(Nat \X Nat)
    BY <1>2, TrimmedCellsFacts
  <2>2. kv[x] \in Seq(Nat \X Nat)
    BY <1>2 DEF Shape, EngineTypes, PoolType
  <2> QED BY <2>1, <2>2
<1>4. CopiedCells(i, lost) = Cut(from, Min({n, Len(from)}))
  BY DEF CopiedCells
<1> HIDE DEF from, n
<1> DEFINE c == CopiedCells(i, lost)
<1>5. /\ c \in Seq(Nat \X Nat) /\ Len(c) = IF n <= Len(from) THEN n ELSE Len(from)
      /\ \A k \in 1 .. Len(c) : c[k] = from[k]
  <2> DEFINE q == Cut(from, Min({n, Len(from)}))
  <2>1. /\ q \in Seq(Nat \X Nat) /\ Len(q) = IF n <= Len(from) THEN n ELSE Len(from)
        /\ \A k \in 1 .. Len(q) : q[k] = from[k]
    BY <1>2, <1>3, MinCut
  <2>2. c = q
    BY <1>4
  <2> HIDE DEF q, c
  <2> QED BY <2>1, <2>2
<1> QED BY <1>2, <1>3, <1>5 DEF from, n

LEMMA BuiltCellsType ==
    ASSUME Shape, PoolType, NEW i \in SlotId, NEW lost
    PROVE  BuiltCells(i, lost) \in Seq(Nat \X Nat)
<1>1. slot[i].src # NoSlot => CopiedCells(i, lost) \in Seq(Nat \X Nat)
  BY CopiedCellsFacts
<1>2. TrimmedCells(i, lost) \in Seq(Nat \X Nat)
  BY TrimmedCellsFacts
<1> QED BY <1>1, <1>2 DEF BuiltCells

LEMMA ShapeBuild ==
    ASSUME Shape, EngineBuild
    PROVE  Shape'
<1>1. EngineTypes /\ Owned /\ FreeClean /\ Bounds /\ StepShape /\ PinsExact
  BY DEF Shape
<1>2. PICK lost : engine_build(lost)
  BY DEF EngineBuild
<1>3. epc = "build" /\ UNCHANGED <<setup, step, victim, cpc, mine, taken, order>>
  BY DEF EngineBuild, client
<1>4. /\ kv' = [i \in SlotId |-> BuiltCells(i, lost)] /\ hold' = StillHeld
      /\ epc' = IF \E i \in SlotId : slot'[i].in_step THEN "decode" ELSE "build"
  BY <1>2 DEF engine_build
<1>5. /\ DOMAIN slot' = SlotId
      /\ \A i \in SlotId : /\ StepBuilt(slot'[i], slot[i], Keep(i, lost))
                           /\ slot'[i].pins = slot[i].pins - Cardinality(Copies(i))
  BY <1>2, <1>3, StepBuiltSlots
<1>6. \A i \in SlotId : IsSlot(slot'[i]) /\ IsSlot(slot[i])
  BY <1>1, <1>5 DEF StepBuilt, EngineTypes
<1>7. \A i \in SlotId : /\ slot'[i].busy = slot[i].busy /\ (slot'[i].state = "idle" <=> slot[i].state = "idle")
                        /\ slot'[i].prompt = slot[i].prompt /\ slot'[i].len = slot[i].len
  BY <1>5 DEF StepBuilt, SameRequest, Runs, Live
<1>8. \A i \in SlotId : slot'[i].src = IF Runs(slot[i]) THEN NoSlot ELSE slot[i].src
  BY <1>5 DEF StepBuilt
<1>9. \A i \in SlotId : slot'[i].rm \in {slot[i].rm, -1}
  BY <1>5 DEF StepBuilt
<1>10. EngineTypes'
  <2>2. hold' \in BOOLEAN
    BY <1>1, <1>4 DEF StillHeld, EngineTypes
  <2>3. epc' \in {"sleep", "build", "decode", "apply"}
    BY <1>4
  <2> QED BY <2>2, <2>3, <1>1, <1>3, <1>5, <1>6 DEF EngineTypes
<1>11. Owned'
  BY <1>1, <1>3, <1>7, OwnedStays
<1>12. FreeClean'
  <2>1. \A i \in SlotId : slot'[i].src \in {slot[i].src, NoSlot}
    BY <1>8
  <2> QED BY <2>1, <1>1, <1>7, <1>9, CleanStays
<1>13. Bounds'
  <2>1. ASSUME NEW i \in SlotId
        PROVE  /\ slot'[i].busy => slot'[i].len <= Len(slot'[i].prompt)
               /\ slot'[i].state = "prefill" => slot'[i].done <= Len(slot'[i].prompt)
               /\ slot'[i].state = "prefill" /\ slot'[i].in_step => slot'[i].chunk <= Len(slot'[i].prompt) - slot'[i].done
    <3> DEFINE s == slot[i]
               r == slot'[i]
    <3>1. r.busy = s.busy /\ r.prompt = s.prompt /\ r.len = s.len
      BY <1>7
    <3>2. s.busy => s.len <= Len(s.prompt)
      BY <1>1 DEF Bounds
    <3>3. ASSUME r.state = "prefill" PROVE r.done <= Len(r.prompt)
      <4>1. Runs(s) /\ s.state = "prefill"
        BY <3>3, <1>5 DEF StepBuilt, Live
      <4>2. s.busy /\ s.done <= Len(s.prompt)
        BY <4>1, <1>1 DEF FreeClean, Bounds
      <4>3. r.done \in {s.len, 0, s.done}
        BY <4>1, <1>5 DEF StepBuilt
      <4>4. Len(s.prompt) \in Nat
        BY <1>6 DEF IsSlot
      <4> QED BY <3>1, <3>2, <4>2, <4>3, <4>4
    <3>4. r.state = "prefill" /\ r.in_step => r.chunk <= Len(r.prompt) - r.done
      BY <1>5 DEF StepBuilt
    <3> QED BY <3>1, <3>2, <3>3, <3>4
  <2> QED BY <2>1 DEF Bounds
<1>14. StepShape'
  <2>1. \A i \in SlotId : slot'[i].in_step => Live(slot'[i])
    BY <1>5 DEF StepBuilt, Runs, Live
  <2>2. step = "none" /\ victim = NoSlot
    BY <1>1, <1>3 DEF StepShape
  <2> QED BY <2>1, <2>2, <1>3, <1>4 DEF StepShape
<1>15. PinsExact'
  <2> SUFFICES ASSUME NEW i \in SlotId PROVE slot'[i].pins = Cardinality({j \in SlotId : slot'[j].src = i})
    BY DEF PinsExact
  <2> DEFINE F == {j \in SlotId : slot[j].src = i}
  <2>1. slot[i].pins = Cardinality(F) /\ IsFiniteSet(F)
    BY <1>1, SlotsFinite, FS_Subset DEF PinsExact
  <2>2. {j \in SlotId : slot'[j].src = i} = F \ Copies(i)
    BY <1>8, SlotsFinite DEF Copies
  <2>3. F \cap Copies(i) = Copies(i)
    BY DEF Copies
  <2>4. Cardinality(F \ Copies(i)) = Cardinality(F) - Cardinality(F \cap Copies(i))
    BY <2>1, FS_Difference
  <2> QED BY <2>1, <2>2, <2>3, <2>4, <1>5
<1> QED BY <1>10, <1>11, <1>12, <1>13, <1>14, <1>15 DEF Shape

-----------------------------------------------------------------------------
(* The step and what follows it                                            *)

\* What a step and its outcome leave of a slot
Kin(r, s) ==
    /\ r.busy = s.busy /\ r.pins = s.pins /\ r.src = s.src /\ r.rm = s.rm /\ r.prompt = s.prompt /\ r.len = s.len
    /\ r.toks = s.toks /\ r.chunk = s.chunk /\ r.order = s.order

LEMMA ShapeEngine ==
    ASSUME Shape, UNCHANGED <<setup, cpc, mine, taken, order>>, DOMAIN slot' = SlotId,
           \A i \in SlotId : IsSlot(slot'[i]) /\ Kin(slot'[i], slot[i]) /\ (slot'[i].state = "idle" <=> slot[i].state = "idle"),
           hold' \in BOOLEAN, epc' \in {"sleep", "build", "decode", "apply"}, step' \in {"none", "ok", "error", "full"},
           victim' \in 0 .. NSlots, Bounds', StepShape'
    PROVE  Shape'
<1>1. EngineTypes /\ Owned /\ FreeClean /\ PinsExact
  BY DEF Shape
<1>2. EngineTypes'
  BY <1>1 DEF EngineTypes
<1>3. Owned'
  BY <1>1, OwnedStays DEF Kin
<1>4. FreeClean'
  BY <1>1, CleanStays DEF Kin
<1>5. PinsExact'
  BY <1>1, PinsStay DEF Kin
<1> QED BY <1>2, <1>3, <1>4, <1>5 DEF Shape

LEMMA DraftedSlot ==
    ASSUME NEW s, IsSlot(s), NEW n \in Nat
    PROVE  LET r == [s EXCEPT !.draft = n] IN
           /\ IsSlot(r) /\ Kin(r, s) /\ r.state = s.state /\ r.in_step = s.in_step /\ r.done = s.done /\ r.past = s.past
           /\ r.produced = s.produced /\ r.count = s.count /\ r.failed = s.failed /\ r.draft = n
BY DEF IsSlot, Fields, Kin

LEMMA EmptiedSlot ==
    ASSUME NEW s, IsSlot(s)
    PROVE  LET r == [s EXCEPT !.count = 0] IN
           /\ IsSlot(r) /\ Kin(r, s) /\ r.state = s.state /\ r.in_step = s.in_step /\ r.done = s.done /\ r.past = s.past
           /\ r.produced = s.produced /\ r.count = 0 /\ r.failed = s.failed /\ r.draft = s.draft
BY DEF IsSlot, Fields, Kin

LEMMA SettledSlot ==
    ASSUME NEW s, IsSlot(s)
    PROVE  LET r == [s EXCEPT !.in_step = FALSE] IN
           /\ IsSlot(r) /\ Kin(r, s) /\ r.state = s.state /\ ~r.in_step /\ r.done = s.done /\ r.past = s.past
           /\ r.produced = s.produced /\ r.count = s.count /\ r.failed = s.failed /\ r.draft = s.draft
BY DEF IsSlot, Fields, Kin

LEMMA RequeuedSlot ==
    ASSUME NEW s, IsSlot(s)
    PROVE  LET r == [s EXCEPT !.done = 0, !.past = 0] IN
           /\ IsSlot(r) /\ Kin(r, s) /\ r.state = s.state /\ r.in_step = s.in_step /\ r.done = 0 /\ r.past = 0
           /\ r.produced = s.produced /\ r.count = s.count /\ r.failed = s.failed /\ r.draft = s.draft
BY DEF IsSlot, Fields, Kin

LEMMA FailedSlot ==
    ASSUME NEW s, IsSlot(s)
    PROVE  LET r == Finished(s, TRUE) IN
           /\ IsSlot(r) /\ Kin(r, s) /\ r.state = "done" /\ r.in_step = s.in_step /\ r.done = s.done /\ r.past = s.past
           /\ r.produced = s.produced /\ r.count = s.count /\ r.failed /\ r.draft = s.draft
BY DEF Finished, IsSlot, Fields, Kin

LEMMA ShapeSleep ==
    ASSUME Shape, EngineSleep
    PROVE  Shape'
<1>1. EngineTypes /\ Owned /\ FreeClean /\ Bounds /\ StepShape /\ PinsExact
  BY DEF Shape
<1>2. epc = "build" /\ epc' = "sleep" /\ UNCHANGED <<setup, slot, hold, step, victim, cpc, mine, taken, order>>
  BY DEF EngineSleep, client
<1>3. \A i \in SlotId : IsSlot(slot'[i]) /\ Kin(slot'[i], slot[i]) /\ (slot'[i].state = "idle" <=> slot[i].state = "idle")
  BY <1>1, <1>2 DEF EngineTypes, Kin
<1>4. Bounds' /\ StepShape'
  BY <1>1, <1>2 DEF Bounds, StepShape, Live
<1> QED BY <1>1, <1>2, <1>3, <1>4, ShapeEngine DEF EngineTypes

\* The slots after a decode, whatever came of it
LEMMA DecodedSlots ==
    ASSUME Shape, EngineDecode
    PROVE  /\ DOMAIN slot' = SlotId /\ epc = "decode" /\ epc' = "apply" /\ step' \in {"ok", "error"}
           /\ UNCHANGED <<setup, hold, victim, cpc, mine, taken, order>>
           /\ \A i \in SlotId : LET r == slot'[i] s == slot[i] IN
                /\ IsSlot(r) /\ Kin(r, s) /\ r.state = s.state /\ r.in_step = s.in_step /\ r.done = s.done /\ r.past = s.past
                /\ r.produced = s.produced /\ r.count = s.count /\ r.failed = s.failed
<1>1. epc = "decode" /\ epc' = "apply" /\ UNCHANGED <<setup, hold, victim, cpc, mine, taken, order>>
  BY DEF EngineDecode, client
<1>2. PICK d \in Drafts :
         \/ step' = "ok" /\ slot' = [i \in SlotId |-> [slot[i] EXCEPT !.draft = d[i]]]
         \/ step' = "error" /\ UNCHANGED slot
  BY DEF EngineDecode
<1>3. \A i \in SlotId : d[i] \in Nat
  <2>1. d \in [SlotId -> 0 .. MtpDraft] /\ MtpDraft \in Nat
    BY LlmAssumption DEF Drafts
  <2> QED BY <2>1
<1>4. DOMAIN slot = SlotId /\ \A i \in SlotId : IsSlot(slot[i])
  BY DEF Shape, EngineTypes
<1>5. CASE step' = "ok" /\ slot' = [i \in SlotId |-> [slot[i] EXCEPT !.draft = d[i]]]
  <2>1. ASSUME NEW i \in SlotId
        PROVE  LET r == slot'[i] s == slot[i] IN
                /\ IsSlot(r) /\ Kin(r, s) /\ r.state = s.state /\ r.in_step = s.in_step /\ r.done = s.done /\ r.past = s.past
                /\ r.produced = s.produced /\ r.count = s.count /\ r.failed = s.failed
    <3> DEFINE s == slot[i]
               n == d[i]
               r == [s EXCEPT !.draft = n]
    <3>1. slot'[i] = r
      BY <1>5
    <3>2. IsSlot(s) /\ n \in Nat
      BY <1>3, <1>4
    <3> HIDE DEF s, n
    <3>3. /\ IsSlot(r) /\ Kin(r, s) /\ r.state = s.state /\ r.in_step = s.in_step /\ r.done = s.done /\ r.past = s.past
          /\ r.produced = s.produced /\ r.count = s.count /\ r.failed = s.failed
      BY <3>2, DraftedSlot
    <3> HIDE DEF r
    <3> QED BY <3>1, <3>3 DEF s
  <2>2. DOMAIN slot' = SlotId
    BY <1>5
  <2> QED BY <1>1, <1>5, <2>1, <2>2
<1>6. CASE step' = "error" /\ UNCHANGED slot
  BY <1>1, <1>4, <1>6 DEF Kin
<1> QED BY <1>2, <1>5, <1>6

LEMMA ShapeDecode ==
    ASSUME Shape, EngineDecode
    PROVE  Shape'
<1>1. EngineTypes /\ Owned /\ FreeClean /\ Bounds /\ StepShape /\ PinsExact
  BY DEF Shape
<1>2. /\ DOMAIN slot' = SlotId /\ epc = "decode" /\ epc' = "apply" /\ step' \in {"ok", "error"}
      /\ UNCHANGED <<setup, hold, victim, cpc, mine, taken, order>>
      /\ \A i \in SlotId : LET r == slot'[i] s == slot[i] IN
           /\ IsSlot(r) /\ Kin(r, s) /\ r.state = s.state /\ r.in_step = s.in_step /\ r.done = s.done
  BY DecodedSlots
<1>3. Bounds'
  BY <1>1, <1>2, BoundsStay DEF Kin
<1>4. StepShape'
  <2>1. step = "none" /\ victim = NoSlot
    BY <1>1, <1>2 DEF StepShape
  <2> QED BY <2>1, <1>1, <1>2 DEF StepShape, Live
<1> QED BY <1>1, <1>2, <1>3, <1>4, ShapeEngine DEF EngineTypes

LEMMA OldestIn ==
    ASSUME Shape, Evictable # {}
    PROVE  Oldest(Evictable) \in Evictable /\ Oldest(Evictable) \in SlotId
<1> DEFINE Q == Evictable
           U == {slot[i].used : i \in Q}
           m == Min(U)
<1>1. Q \subseteq SlotId /\ IsFiniteSet(Q)
  BY SlotsFinite, FS_Subset DEF Evictable
<1>2. \A i \in Q : slot[i].used \in Int
  BY <1>1 DEF Shape, EngineTypes, IsSlot
<1>3. \E i \in Q : \A j \in Q : slot[i].used <= slot[j].used
  <2> DEFINE R == {w \in Q \X Q : slot[w[1]].used > slot[w[2]].used \/ (slot[w[1]].used = slot[w[2]].used /\ w[1] < w[2])}
  <2>1. \A i, j \in Q : <<i, j>> \in R <=> slot[i].used > slot[j].used \/ (slot[i].used = slot[j].used /\ i < j)
    OBVIOUS
  <2>2. \A i \in Q : i \in Int
    BY <1>1 DEF SlotId
  <2> HIDE DEF R, Q
  <2>3. Orders(R, Q)
    BY <1>2, <2>1, <2>2 DEF Orders
  <2>4. PICK i \in Q : \A j \in Q : j # i => <<j, i>> \in R
    BY <1>1, <2>3, LastElement DEF Q
  <2>5. ASSUME NEW j \in Q PROVE slot[i].used <= slot[j].used
    <3>1. slot[i].used \in Int /\ slot[j].used \in Int
      BY <1>2
    <3>2. j # i => slot[j].used > slot[i].used \/ slot[j].used = slot[i].used
      BY <2>1, <2>4
    <3> QED BY <3>1, <3>2
  <2> QED BY <2>5
<1>4. Oldest(Q) \in Q
  BY <1>3 DEF Oldest
<1> QED BY <1>1, <1>4

LEMMA PreemptedIn ==
    ASSUME Shape, epc = "decode"
    PROVE  Preempted \in SlotId /\ slot[Preempted].in_step
<1> DEFINE P == {i \in InStep : slot[i].state = "prefill"}
           Q == IF P = {} THEN InStep ELSE P
<1>1. Q # {} /\ \A i \in Q : i \in SlotId /\ slot[i].in_step
  BY DEF Shape, StepShape, InStep
<1>2. IsFiniteSet(Q)
  BY <1>1, SlotsFinite, FS_Subset
<1>3. Preempted = CHOOSE i \in Q : \A j \in Q : slot[i].order >= slot[j].order
  BY DEF Preempted
<1> HIDE DEF Q
<1>4. \A i \in Q : slot[i].order \in Int /\ i \in Int
  BY <1>1 DEF Shape, EngineTypes, IsSlot, SlotId
<1>5. \E i \in Q : \A j \in Q : slot[i].order >= slot[j].order
  <2> DEFINE R == {w \in Q \X Q : slot[w[1]].order < slot[w[2]].order \/ (slot[w[1]].order = slot[w[2]].order /\ w[1] < w[2])}
  <2>1. \A i, j \in Q : <<i, j>> \in R <=> slot[i].order < slot[j].order \/ (slot[i].order = slot[j].order /\ i < j)
    OBVIOUS
  <2> HIDE DEF R
  <2>3. Orders(R, Q)
    BY <1>4, <2>1 DEF Orders
  <2>4. PICK i \in Q : \A j \in Q : j # i => <<j, i>> \in R
    BY <1>1, <1>2, <2>3, LastElement
  <2>5. ASSUME NEW j \in Q PROVE slot[i].order >= slot[j].order
    <3>1. slot[i].order \in Int /\ slot[j].order \in Int
      BY <1>4
    <3>2. j # i => slot[j].order < slot[i].order \/ slot[j].order = slot[i].order
      BY <2>1, <2>4
    <3> QED BY <3>1, <3>2
  <2> QED BY <2>5
<1>6. Preempted \in Q
  BY <1>3, <1>5
<1> QED BY <1>1, <1>6

\* The slots once one of them has lost its cells
LEMMA EmptiedSlots ==
    ASSUME Shape, NEW v \in SlotId, slot' = [slot EXCEPT ![v].count = 0]
    PROVE  /\ DOMAIN slot' = SlotId
           /\ \A i \in SlotId : LET r == slot'[i] s == slot[i] IN
                /\ IsSlot(r) /\ Kin(r, s) /\ r.state = s.state /\ r.in_step = s.in_step /\ r.done = s.done /\ r.past = s.past
                /\ r.produced = s.produced /\ r.failed = s.failed /\ r.draft = s.draft
                /\ r.count = IF i = v THEN 0 ELSE s.count
<1>1. DOMAIN slot = SlotId /\ \A i \in SlotId : IsSlot(slot[i])
  BY DEF Shape, EngineTypes
<1>2. DOMAIN slot' = SlotId /\ slot'[v] = [slot[v] EXCEPT !.count = 0] /\ \A i \in SlotId : i # v => slot'[i] = slot[i]
  BY <1>1
<1>3. ASSUME NEW i \in SlotId
      PROVE  LET r == slot'[i] s == slot[i] IN
                /\ IsSlot(r) /\ Kin(r, s) /\ r.state = s.state /\ r.in_step = s.in_step /\ r.done = s.done /\ r.past = s.past
                /\ r.produced = s.produced /\ r.failed = s.failed /\ r.draft = s.draft
                /\ r.count = IF i = v THEN 0 ELSE s.count
  <2>1. CASE i = v
    <3> DEFINE s == slot[v]
               r == [s EXCEPT !.count = 0]
    <3>1. IsSlot(s)
      BY <1>1
    <3> HIDE DEF s
    <3>2. /\ IsSlot(r) /\ Kin(r, s) /\ r.state = s.state /\ r.in_step = s.in_step /\ r.done = s.done /\ r.past = s.past
          /\ r.produced = s.produced /\ r.count = 0 /\ r.failed = s.failed /\ r.draft = s.draft
      BY <3>1, EmptiedSlot
    <3>3. slot'[v] = r
      BY <1>2 DEF s
    <3> HIDE DEF r
    <3> QED BY <2>1, <3>2, <3>3 DEF s
  <2>2. CASE i # v
    BY <1>1, <1>2, <2>2 DEF Kin
  <2> QED BY <2>1, <2>2
<1> QED BY <1>2, <1>3

LEMMA ShapeEvict ==
    ASSUME Shape, EngineEvict
    PROVE  Shape'
<1> DEFINE v == Oldest(Evictable)
<1>1. EngineTypes /\ Owned /\ FreeClean /\ Bounds /\ StepShape /\ PinsExact
  BY DEF Shape
<1>2. slot' = [slot EXCEPT ![v].count = 0] /\ UNCHANGED <<setup, hold, epc, step, victim, cpc, mine, taken, order>>
  BY DEF EngineEvict, client
<1>3. v \in SlotId
  BY OldestIn DEF EngineEvict
<1> HIDE DEF v
<1>4. /\ DOMAIN slot' = SlotId
      /\ \A i \in SlotId : LET r == slot'[i] s == slot[i] IN
           /\ IsSlot(r) /\ Kin(r, s) /\ r.state = s.state /\ r.in_step = s.in_step /\ r.done = s.done
  BY <1>2, <1>3, EmptiedSlots
<1>5. Bounds'
  BY <1>1, <1>4, BoundsStay DEF Kin
<1>6. StepShape'
  BY <1>1, <1>2, <1>4, StepStays DEF Live
<1> QED BY <1>1, <1>2, <1>4, <1>5, <1>6, ShapeEngine DEF EngineTypes

LEMMA ShapePreempt ==
    ASSUME Shape, EnginePreempt
    PROVE  Shape'
<1> DEFINE v == Preempted
<1>1. EngineTypes /\ Owned /\ FreeClean /\ Bounds /\ StepShape /\ PinsExact
  BY DEF Shape
<1>2. /\ slot' = [slot EXCEPT ![v].count = 0] /\ UNCHANGED <<setup, hold, cpc, mine, taken, order>>
      /\ epc = "decode" /\ victim' = v /\ epc' = "apply" /\ step' = "full"
  BY DEF EnginePreempt, client
<1>3. v \in SlotId /\ slot[v].in_step
  BY <1>2, PreemptedIn
<1> HIDE DEF v
<1>4. /\ DOMAIN slot' = SlotId
      /\ \A i \in SlotId : LET r == slot'[i] s == slot[i] IN
           /\ IsSlot(r) /\ Kin(r, s) /\ r.state = s.state /\ r.in_step = s.in_step /\ r.done = s.done
  BY <1>2, <1>3, EmptiedSlots, ZenonT(40)
<1>5. Bounds'
  BY <1>1, <1>4, BoundsStay DEF Kin
<1>6. StepShape'
  BY <1>1, <1>2, <1>3, <1>4, SlotsFinite DEF StepShape, Live
<1>7. victim' \in 0 .. NSlots
  BY <1>2, <1>3, SlotsFinite
<1> QED BY <1>1, <1>2, <1>4, <1>5, <1>6, <1>7, ShapeEngine DEF EngineTypes

\* After the step nothing is in it, and what was in it may be done
LEMMA ShapeApplied ==
    ASSUME Shape, UNCHANGED <<setup, cpc, mine, taken, order>>, DOMAIN slot' = SlotId, epc = "apply", epc' = "build",
           step' = "none", victim' = NoSlot, hold' \in BOOLEAN,
           \A i \in SlotId : /\ IsSlot(slot'[i]) /\ Kin(slot'[i], slot[i]) /\ ~slot'[i].in_step
                             /\ slot'[i].state = "idle" <=> slot[i].state = "idle"
                             /\ slot'[i].state = "prefill" => slot'[i].done <= Len(slot[i].prompt)
    PROVE  Shape'
<1>1. EngineTypes /\ Owned /\ FreeClean /\ Bounds /\ StepShape /\ PinsExact
  BY DEF Shape
<1>2. Bounds'
  BY <1>1 DEF Bounds, Kin
<1>3. StepShape'
  BY DEF StepShape
<1>4. NoSlot \in 0 .. NSlots
  BY LlmAssumption DEF NoSlot
<1> QED BY <1>2, <1>3, <1>4, ShapeEngine

\* What the end of a failed step makes of a slot
Halted(r, s) ==
    /\ IsSlot(r) /\ Kin(r, s) /\ ~r.in_step /\ r.count = s.count /\ r.produced = s.produced
    /\ \/ r.state = s.state /\ r.done = s.done /\ r.past = s.past /\ r.failed = s.failed
       \/ s.in_step /\ r.state = "done" /\ r.failed
       \/ s.in_step /\ s.state = "prefill" /\ r.state = "prefill" /\ r.done = 0 /\ r.failed = s.failed

LEMMA HaltedStays ==
    ASSUME NEW s, IsSlot(s)
    PROVE  Halted([s EXCEPT !.in_step = FALSE], s)
<1> DEFINE r == [s EXCEPT !.in_step = FALSE]
<1>1. /\ IsSlot(r) /\ Kin(r, s) /\ r.state = s.state /\ ~r.in_step /\ r.done = s.done /\ r.past = s.past
      /\ r.produced = s.produced /\ r.count = s.count /\ r.failed = s.failed /\ r.draft = s.draft
  BY SettledSlot
<1> HIDE DEF r
<1>2. Halted(r, s)
  BY <1>1 DEF Halted
<1> QED BY <1>2 DEF r

LEMMA HaltedFails ==
    ASSUME NEW s, IsSlot(s), s.in_step
    PROVE  Halted([Finished(s, TRUE) EXCEPT !.in_step = FALSE], s)
<1> DEFINE q == Finished(s, TRUE)
           r == [q EXCEPT !.in_step = FALSE]
<1>1. /\ IsSlot(q) /\ Kin(q, s) /\ q.state = "done" /\ q.in_step = s.in_step /\ q.done = s.done /\ q.past = s.past
      /\ q.produced = s.produced /\ q.count = s.count /\ q.failed
  BY FailedSlot
<1> HIDE DEF q
<1>2. /\ IsSlot(r) /\ Kin(r, q) /\ r.state = q.state /\ ~r.in_step /\ r.done = q.done /\ r.past = q.past
      /\ r.produced = q.produced /\ r.count = q.count /\ r.failed = q.failed
  BY <1>1, SettledSlot
<1> HIDE DEF r
<1>3. Kin(r, s)
  BY <1>1, <1>2 DEF Kin
<1>4. Halted(r, s)
  BY <1>1, <1>2, <1>3 DEF Halted
<1> QED BY <1>4 DEF r, q

LEMMA HaltedRequeues ==
    ASSUME NEW s, IsSlot(s), s.in_step, s.state = "prefill"
    PROVE  LET r == [[s EXCEPT !.done = 0, !.past = 0] EXCEPT !.in_step = FALSE] IN
           Halted(r, s) /\ r.state = "prefill" /\ r.done = 0
<1> DEFINE q == [s EXCEPT !.done = 0, !.past = 0]
           r == [q EXCEPT !.in_step = FALSE]
<1>1. /\ IsSlot(q) /\ Kin(q, s) /\ q.state = s.state /\ q.in_step = s.in_step /\ q.done = 0
      /\ q.produced = s.produced /\ q.count = s.count /\ q.failed = s.failed
  BY RequeuedSlot
<1> HIDE DEF q
<1>2. /\ IsSlot(r) /\ Kin(r, q) /\ r.state = q.state /\ ~r.in_step /\ r.done = q.done
      /\ r.produced = q.produced /\ r.count = q.count /\ r.failed = q.failed
  BY <1>1, SettledSlot
<1> HIDE DEF r
<1>3. Kin(r, s)
  BY <1>1, <1>2 DEF Kin
<1>4. Halted(r, s) /\ r.state = "prefill" /\ r.done = 0
  BY <1>1, <1>2, <1>3 DEF Halted
<1> QED BY <1>4 DEF r, q

LEMMA FullSlots ==
    ASSUME Shape, ApplyFull
    PROVE  /\ victim \in SlotId /\ slot[victim].in_step /\ DOMAIN slot' = SlotId
           /\ \A i \in SlotId : i # victim => slot'[i] = [slot[i] EXCEPT !.in_step = FALSE]
           /\ slot'[victim] = IF slot[victim].state = "prefill"
                              THEN [[slot[victim] EXCEPT !.done = 0, !.past = 0] EXCEPT !.in_step = FALSE]
                              ELSE [Finished(slot[victim], TRUE) EXCEPT !.in_step = FALSE]
           /\ \A i \in SlotId : Halted(slot'[i], slot[i])
<1> DEFINE v == victim
<1>1. v \in SlotId /\ slot[v].in_step
  <2>1. v \in 0 .. NSlots /\ v # NoSlot /\ slot[v].in_step
    BY DEF ApplyFull, Shape, StepShape, EngineTypes
  <2> QED BY <2>1, LlmAssumption DEF SlotId, NoSlot
<1>2. DOMAIN slot = SlotId /\ \A i \in SlotId : IsSlot(slot[i])
  BY DEF Shape, EngineTypes
<1>3. CASE slot[v].state = "prefill"
  <2>1. slot' = Settled([slot EXCEPT ![v].done = 0, ![v].past = 0])
    BY <1>3 DEF ApplyFull
  <2> QED BY <1>1, <1>2, <1>3, <2>1, HaltedStays, HaltedRequeues DEF Settled
<1>4. CASE slot[v].state # "prefill"
  <2>1. slot' = Settled([slot EXCEPT ![v] = Finished(slot[v], TRUE)])
    BY <1>4 DEF ApplyFull
  <2>2. /\ DOMAIN slot' = SlotId /\ \A i \in SlotId : i # v => slot'[i] = [slot[i] EXCEPT !.in_step = FALSE]
        /\ slot'[v] = [Finished(slot[v], TRUE) EXCEPT !.in_step = FALSE]
    BY <1>1, <1>2, <2>1 DEF Settled
  <2>3. Halted(slot'[v], slot[v])
    BY <1>1, <1>2, <2>2, HaltedFails, ZenonT(40)
  <2>4. \A i \in SlotId : i # v => Halted(slot'[i], slot[i])
    BY <1>2, <2>2, HaltedStays
  <2> QED BY <1>1, <1>4, <2>2, <2>3, <2>4
<1> QED BY <1>3, <1>4

LEMMA ErrorSlots ==
    ASSUME Shape, ApplyError
    PROVE  /\ DOMAIN slot' = SlotId
           /\ \A i \in SlotId : /\ Halted(slot'[i], slot[i])
                                /\ slot'[i] = IF slot[i].in_step THEN [Finished(slot[i], TRUE) EXCEPT !.in_step = FALSE]
                                              ELSE [slot[i] EXCEPT !.in_step = FALSE]
<1>1. DOMAIN slot = SlotId /\ \A i \in SlotId : IsSlot(slot[i])
  BY DEF Shape, EngineTypes
<1>2. slot' = Settled([i \in SlotId |-> IF slot[i].in_step THEN Finished(slot[i], TRUE) ELSE slot[i]])
  BY DEF ApplyError
<1>3. DOMAIN slot' = SlotId /\ \A i \in SlotId : slot'[i] = IF slot[i].in_step THEN [Finished(slot[i], TRUE) EXCEPT !.in_step = FALSE]
                                              ELSE [slot[i] EXCEPT !.in_step = FALSE]
  BY <1>2 DEF Settled
<1>4. ASSUME NEW i \in SlotId PROVE Halted(slot'[i], slot[i])
  <2>1. CASE slot[i].in_step
    BY <2>1, <1>1, <1>3, HaltedFails
  <2>2. CASE ~slot[i].in_step
    BY <2>2, <1>1, <1>3, HaltedStays
  <2> QED BY <2>1, <2>2
<1> QED BY <1>3, <1>4

LEMMA ShapeHalted ==
    ASSUME Shape, ApplyFull \/ ApplyError
    PROVE  Shape'
<1>1. EngineTypes /\ Owned /\ FreeClean /\ Bounds /\ StepShape /\ PinsExact
  BY DEF Shape
<1>2. DOMAIN slot' = SlotId /\ \A i \in SlotId : Halted(slot'[i], slot[i])
  BY FullSlots, ErrorSlots
<1>3. /\ UNCHANGED <<setup, cpc, mine, taken, order>> /\ epc = "apply" /\ epc' = "build" /\ step' = "none"
      /\ hold' \in BOOLEAN
  BY DEF ApplyFull, ApplyError, client
<1>4. victim' = NoSlot
  BY <1>1 DEF ApplyFull, ApplyError, StepShape
<1>5. ASSUME NEW i \in SlotId
      PROVE  /\ IsSlot(slot'[i]) /\ Kin(slot'[i], slot[i]) /\ ~slot'[i].in_step
             /\ slot'[i].state = "idle" <=> slot[i].state = "idle"
             /\ slot'[i].state = "prefill" => slot'[i].done <= Len(slot[i].prompt)
  <2> DEFINE s == slot[i]
             r == slot'[i]
  <2>1. Halted(r, s) /\ IsSlot(s) /\ (s.in_step => Live(s)) /\ (s.state = "prefill" => s.done <= Len(s.prompt))
    BY <1>1, <1>2 DEF EngineTypes, StepShape, Bounds
  <2> HIDE DEF r, s
  <2>2. Len(s.prompt) \in Nat
    BY <2>1 DEF IsSlot
  <2>3. /\ IsSlot(r) /\ Kin(r, s) /\ ~r.in_step
        /\ r.state = "idle" <=> s.state = "idle"
        /\ r.state = "prefill" => r.done <= Len(s.prompt)
    BY <2>1, <2>2 DEF Halted, Live
  <2> QED BY <2>3 DEF r, s
<1> QED BY <1>2, <1>3, <1>4, <1>5, ShapeApplied

\* What a step that went well makes of a slot in it, with m drafts agreed with
Grown(r, s, m) ==
    /\ IsSlot(r) /\ Kin(r, s) /\ ~r.in_step /\ r.failed = s.failed
    /\ s.state = "prefill" => /\ r.done = s.done + s.chunk
                              /\ r.count = IF Share /\ s.src = NoSlot THEN s.done + s.chunk ELSE s.count
    /\ s.state = "decode" => r.done = s.done /\ r.count = s.count
    /\ IF Partial(s) THEN r.state = "prefill" /\ r.past = s.past /\ r.produced = s.produced
       ELSE /\ r.produced = s.produced + 1 + m /\ r.state \in {"decode", "done"}
            /\ r.past = IF s.state = "prefill" THEN Len(s.prompt) ELSE s.past + 1 + m
            /\ r.state = "decode" => r.produced < MaxNew

LEMMA AdvancedSlot ==
    ASSUME NEW s, IsSlot(s)
    PROVE  LET r == Advance(s) IN
           /\ IsSlot(r) /\ Kin(r, s) /\ r.state = s.state /\ r.in_step = s.in_step /\ r.done = s.done + s.chunk /\ r.past = s.past
           /\ r.produced = s.produced /\ r.failed = s.failed /\ r.ring = s.ring
           /\ r.count = IF Share /\ s.src = NoSlot THEN s.done + s.chunk ELSE s.count
<1> DEFINE n == s.done + s.chunk
           c == IF Share /\ s.src = NoSlot THEN s.done + s.chunk ELSE s.count
<1>1. n \in Nat /\ c \in Nat
  BY SMTT(40) DEF IsSlot
<1>2. Advance(s) = [s EXCEPT !.done = n, !.count = c]
  BY DEF Advance, IsSlot, Fields
<1> HIDE DEF n, c
<1>3. LET r == [s EXCEPT !.done = n, !.count = c] IN
      /\ IsSlot(r) /\ Kin(r, s) /\ r.state = s.state /\ r.in_step = s.in_step /\ r.done = n /\ r.past = s.past
      /\ r.produced = s.produced /\ r.failed = s.failed /\ r.ring = s.ring /\ r.count = c
  BY <1>1 DEF IsSlot, Fields, Kin
<1>4. LET r == Advance(s) IN
      /\ IsSlot(r) /\ Kin(r, s) /\ r.state = s.state /\ r.in_step = s.in_step /\ r.done = n /\ r.past = s.past
      /\ r.produced = s.produced /\ r.failed = s.failed /\ r.ring = s.ring /\ r.count = c
  BY <1>2, <1>3
<1> QED BY <1>4 DEF n, c

LEMMA FedSlot ==
    ASSUME NEW s, IsSlot(s), NEW n \in Nat
    PROVE  LET r == [s EXCEPT !.past = n, !.state = "decode"] IN
           /\ IsSlot(r) /\ Kin(r, s) /\ r.state = "decode" /\ r.in_step = s.in_step /\ r.done = s.done /\ r.past = n
           /\ r.produced = s.produced /\ r.failed = s.failed /\ r.ring = s.ring /\ r.count = s.count
BY DEF IsSlot, Fields, Kin

LEMMA PastSlot ==
    ASSUME NEW s, IsSlot(s), NEW n \in Nat
    PROVE  LET r == [s EXCEPT !.past = n] IN
           /\ IsSlot(r) /\ Kin(r, s) /\ r.state = s.state /\ r.in_step = s.in_step /\ r.done = s.done /\ r.past = n
           /\ r.produced = s.produced /\ r.failed = s.failed /\ r.ring = s.ring /\ r.count = s.count
BY DEF IsSlot, Fields, Kin

LEMMA NextSlot ==
    ASSUME NEW s, IsSlot(s)
    PROVE  LET r == [s EXCEPT !.has_next = TRUE] IN
           /\ IsSlot(r) /\ Kin(r, s) /\ r.state = s.state /\ r.in_step = s.in_step /\ r.done = s.done /\ r.past = s.past
           /\ r.produced = s.produced /\ r.failed = s.failed /\ r.count = s.count
BY DEF IsSlot, Fields, Kin

LEMMA EndedSlot ==
    ASSUME NEW s, IsSlot(s)
    PROVE  LET r == Finished(s, FALSE) IN
           /\ IsSlot(r) /\ Kin(r, s) /\ r.state = "done" /\ r.in_step = s.in_step /\ r.done = s.done /\ r.past = s.past
           /\ r.produced = s.produced /\ r.failed = s.failed /\ r.count = s.count
BY DEF Finished, IsSlot, Fields, Kin

LEMMA SampledSlot ==
    ASSUME NEW s, IsSlot(s), Live(s), NEW m \in Nat, NEW Q, NEW i
    PROVE  LET r == Sampled(s, m, i \in Q) IN
           /\ IsSlot(r) /\ Kin(r, s) /\ r.failed = s.failed
           /\ s.state = "prefill" => /\ r.done = s.done + s.chunk
                                     /\ r.count = IF Share /\ s.src = NoSlot THEN s.done + s.chunk ELSE s.count
           /\ s.state = "decode" => r.done = s.done /\ r.count = s.count
           /\ r.produced = s.produced + 1 + m /\ r.state \in {"decode", "done"}
           /\ r.past = IF s.state = "prefill" THEN Len(s.prompt) ELSE s.past + 1 + m
           /\ r.state = "decode" => r.produced < MaxNew
<1> DEFINE fed == IF s.state = "prefill"
                  THEN [Advance(s) EXCEPT !.past = Len(s.prompt), !.state = "decode"]
                  ELSE [s EXCEPT !.past = @ + 1 + m]
           put == [fed EXCEPT !.ring = @ + 1 + m, !.produced = @ + 1 + m]
           r == IF i \in Q \/ put.produced >= MaxNew THEN Finished(put, FALSE) ELSE [put EXCEPT !.has_next = TRUE]
<1>1. Sampled(s, m, i \in Q) = r
  BY DEF Sampled
<1>2. Len(s.prompt) \in Nat /\ s.past \in Nat /\ s.ring \in Nat /\ s.produced \in Nat /\ DOMAIN s = Fields
  BY DEF IsSlot
<1>3. /\ IsSlot(fed) /\ Kin(fed, s) /\ fed.failed = s.failed /\ fed.ring = s.ring /\ fed.produced = s.produced
      /\ fed.state = "decode"
      /\ s.state = "prefill" => /\ fed.done = s.done + s.chunk
                                /\ fed.count = IF Share /\ s.src = NoSlot THEN s.done + s.chunk ELSE s.count
      /\ s.state = "decode" => fed.done = s.done /\ fed.count = s.count
      /\ fed.past = IF s.state = "prefill" THEN Len(s.prompt) ELSE s.past + 1 + m
  <2>1. CASE s.state = "prefill"
    <3> DEFINE a == Advance(s)
               n == Len(s.prompt)
               f == [a EXCEPT !.past = n, !.state = "decode"]
    <3>1. fed = f
      BY <2>1
    <3>2. /\ IsSlot(a) /\ Kin(a, s) /\ a.done = s.done + s.chunk /\ a.produced = s.produced /\ a.failed = s.failed /\ a.ring = s.ring
          /\ a.count = IF Share /\ s.src = NoSlot THEN s.done + s.chunk ELSE s.count
      BY AdvancedSlot
    <3>3. n \in Nat
      BY <1>2
    <3> HIDE DEF a, n
    <3>4. /\ IsSlot(f) /\ Kin(f, a) /\ f.state = "decode" /\ f.done = a.done /\ f.past = n
          /\ f.produced = a.produced /\ f.failed = a.failed /\ f.ring = a.ring /\ f.count = a.count
      BY <3>2, <3>3, FedSlot, ZenonT(40)
    <3> HIDE DEF f, fed
    <3>5. Kin(fed, s)
      BY <3>1, <3>2, <3>4 DEF Kin
    <3> QED BY <2>1, <3>1, <3>2, <3>4, <3>5 DEF n
  <2>2. CASE s.state # "prefill"
    <3> DEFINE n == s.past + 1 + m
               f == [s EXCEPT !.past = n]
    <3>1. fed = f
      BY <2>2, <1>2 DEF Fields
    <3>2. n \in Nat
      BY <1>2
    <3> HIDE DEF n
    <3>3. /\ IsSlot(f) /\ Kin(f, s) /\ f.state = s.state /\ f.done = s.done /\ f.past = n
          /\ f.produced = s.produced /\ f.failed = s.failed /\ f.ring = s.ring /\ f.count = s.count
      BY <3>2, PastSlot
    <3> HIDE DEF f, fed
    <3> QED BY <2>2, <3>1, <3>3 DEF n, Live
  <2> QED BY <2>1, <2>2
<1> HIDE DEF fed
<1>4. /\ IsSlot(put) /\ Kin(put, fed) /\ put.state = fed.state /\ put.done = fed.done /\ put.past = fed.past
      /\ put.produced = s.produced + 1 + m /\ put.failed = fed.failed /\ put.count = fed.count
  <2> DEFINE a == s.ring + 1 + m
             b == s.produced + 1 + m
             q == [fed EXCEPT !.ring = a, !.produced = b]
  <2>1. a \in Nat /\ b \in Nat
    BY <1>2
  <2>2. put = q
    BY <1>3 DEF IsSlot, Fields
  <2> HIDE DEF a, b
  <2>3. /\ IsSlot(q) /\ Kin(q, fed) /\ q.state = fed.state /\ q.done = fed.done /\ q.past = fed.past
        /\ q.produced = b /\ q.failed = fed.failed /\ q.count = fed.count
    <3>1. IsSlot(fed)
      BY <1>3
    <3> HIDE DEF put, r, q
    <3>2. q = [fed EXCEPT !.ring = a, !.produced = b]
      BY DEF q
    <3> QED BY ONLY <3>1, <3>2, <2>1 DEF IsSlot, Fields, Kin
  <2> HIDE DEF q, put
  <2> QED BY <2>2, <2>3 DEF b
<1> HIDE DEF put
<1>5. /\ IsSlot(r) /\ Kin(r, put) /\ r.done = put.done /\ r.past = put.past
      /\ r.produced = put.produced /\ r.failed = put.failed /\ r.count = put.count
      /\ r.state \in {put.state, "done"} /\ (r.state # "done" => ~(put.produced >= MaxNew))
  <2>1. CASE i \in Q \/ put.produced >= MaxNew
    <3> DEFINE q == Finished(put, FALSE)
    <3>1. r = q
      BY <2>1
    <3>2. /\ IsSlot(q) /\ Kin(q, put) /\ q.state = "done" /\ q.done = put.done /\ q.past = put.past
          /\ q.produced = put.produced /\ q.failed = put.failed /\ q.count = put.count
      BY <1>4, EndedSlot
    <3> HIDE DEF q, r
    <3> QED BY <3>1, <3>2
  <2>2. CASE ~(i \in Q \/ put.produced >= MaxNew)
    <3> DEFINE q == [put EXCEPT !.has_next = TRUE]
    <3>1. r = q
      BY <2>2
    <3>2. /\ IsSlot(q) /\ Kin(q, put) /\ q.state = put.state /\ q.done = put.done /\ q.past = put.past
          /\ q.produced = put.produced /\ q.failed = put.failed /\ q.count = put.count
      BY <1>4, NextSlot
    <3> HIDE DEF q, r
    <3> QED BY <2>2, <3>1, <3>2
  <2> QED BY <2>1, <2>2
<1> HIDE DEF r
<1>6. Kin(r, s)
  BY <1>3, <1>4, <1>5 DEF Kin
<1>7. r.state = "decode" => r.produced < MaxNew
  BY <1>2, <1>4, <1>5, LlmAssumption
<1> QED BY <1>1, <1>3, <1>4, <1>5, <1>6, <1>7

LEMMA OkSlots ==
    ASSUME Shape, NEW m, NEW ends, \A i \in SlotId : m[i] \in Nat,
           slot' = Settled([i \in SlotId |-> After(i, m[i], i \in ends)])
    PROVE  /\ DOMAIN slot' = SlotId
           /\ \A i \in SlotId : ~slot[i].in_step => slot'[i] = [slot[i] EXCEPT !.in_step = FALSE]
           /\ \A i \in SlotId : slot[i].in_step => Grown(slot'[i], slot[i], m[i])
<1>1. DOMAIN slot' = SlotId /\ \A i \in SlotId : slot'[i] = [After(i, m[i], i \in ends) EXCEPT !.in_step = FALSE]
  BY DEF Settled
<1>2. \A i \in SlotId : ~slot[i].in_step => slot'[i] = [slot[i] EXCEPT !.in_step = FALSE]
  BY <1>1 DEF After
<1>3. ASSUME NEW i \in SlotId, slot[i].in_step PROVE Grown(slot'[i], slot[i], m[i])
  <2> DEFINE s == slot[i]
             k == m[i]
             q == IF Partial(s) THEN Advance(s) ELSE Sampled(s, k, i \in ends)
             r == [q EXCEPT !.in_step = FALSE]
  <2>1. slot'[i] = r
    BY <1>1, <1>3 DEF After
  <2>2. IsSlot(s) /\ Live(s) /\ k \in Nat
    BY <1>3 DEF Shape, EngineTypes, StepShape
  <2> HIDE DEF s, k
  <2>3. /\ IsSlot(q) /\ Kin(q, s) /\ q.failed = s.failed
        /\ s.state = "prefill" => /\ q.done = s.done + s.chunk
                                  /\ q.count = IF Share /\ s.src = NoSlot THEN s.done + s.chunk ELSE s.count
        /\ s.state = "decode" => q.done = s.done /\ q.count = s.count
        /\ IF Partial(s) THEN q.state = "prefill" /\ q.past = s.past /\ q.produced = s.produced
           ELSE /\ q.produced = s.produced + 1 + k /\ q.state \in {"decode", "done"}
                /\ q.past = IF s.state = "prefill" THEN Len(s.prompt) ELSE s.past + 1 + k
                /\ q.state = "decode" => q.produced < MaxNew
    <3>1. CASE Partial(s)
      <4>1. q = Advance(s)
        BY <3>1
      <4>2. s.state = "prefill"
        BY <3>1 DEF Partial
      <4> HIDE DEF q
      <4> QED BY <2>2, <3>1, <4>1, <4>2, AdvancedSlot
    <3>2. CASE ~Partial(s)
      <4>1. q = Sampled(s, k, i \in ends)
        BY <3>2
      <4> DEFINE t == Sampled(s, k, i \in ends)
      <4>2. /\ IsSlot(t) /\ Kin(t, s) /\ t.failed = s.failed
            /\ s.state = "prefill" => /\ t.done = s.done + s.chunk
                                      /\ t.count = IF Share /\ s.src = NoSlot THEN s.done + s.chunk ELSE s.count
            /\ s.state = "decode" => t.done = s.done /\ t.count = s.count
            /\ t.produced = s.produced + 1 + k /\ t.state \in {"decode", "done"}
            /\ t.past = IF s.state = "prefill" THEN Len(s.prompt) ELSE s.past + 1 + k
            /\ t.state = "decode" => t.produced < MaxNew
        BY <2>2, SampledSlot
      <4>3. q = t
        BY <4>1
      <4> HIDE DEF q, t
      <4> QED BY <3>2, <4>2, <4>3
    <3> QED BY <3>1, <3>2
  <2> HIDE DEF q
  <2>4. /\ IsSlot(r) /\ Kin(r, q) /\ r.state = q.state /\ ~r.in_step /\ r.done = q.done /\ r.past = q.past
        /\ r.produced = q.produced /\ r.count = q.count /\ r.failed = q.failed
    BY <2>3, SettledSlot
  <2> HIDE DEF r
  <2>5. Kin(r, s)
    BY <2>3, <2>4 DEF Kin
  <2>6. Grown(r, s, k)
    BY <2>3, <2>4, <2>5 DEF Grown
  <2> QED BY <2>1, <2>6 DEF s, k
<1> QED BY <1>1, <1>2, <1>3

LEMMA ShapeOk ==
    ASSUME Shape, ApplyOk
    PROVE  Shape'
<1>1. EngineTypes /\ Owned /\ FreeClean /\ Bounds /\ StepShape /\ PinsExact
  BY DEF Shape
<1>2. PICK m \in [SlotId -> 0 .. MtpDraft], ends \in SUBSET InStep :
        /\ slot' = Settled([i \in SlotId |-> After(i, m[i], i \in ends)])
        /\ hold' \in BOOLEAN
  BY <1>1 DEF ApplyOk, EngineTypes
<1>3. \A i \in SlotId : m[i] \in Nat
  BY <1>2, LlmAssumption
<1>4. /\ DOMAIN slot' = SlotId
      /\ \A i \in SlotId : ~slot[i].in_step => slot'[i] = [slot[i] EXCEPT !.in_step = FALSE]
      /\ \A i \in SlotId : slot[i].in_step => Grown(slot'[i], slot[i], m[i])
  BY <1>2, <1>3, OkSlots
<1>5. /\ UNCHANGED <<setup, cpc, mine, taken, order>> /\ epc = "apply" /\ epc' = "build" /\ step' = "none" /\ victim' = NoSlot
  BY <1>1 DEF ApplyOk, client, StepShape
<1>6. ASSUME NEW i \in SlotId
      PROVE  /\ IsSlot(slot'[i]) /\ Kin(slot'[i], slot[i]) /\ ~slot'[i].in_step
             /\ slot'[i].state = "idle" <=> slot[i].state = "idle"
             /\ slot'[i].state = "prefill" => slot'[i].done <= Len(slot[i].prompt)
  <2> DEFINE s == slot[i]
             r == slot'[i]
  <2>1. IsSlot(s) /\ (s.in_step => Live(s)) /\ (s.state = "prefill" => s.done <= Len(s.prompt))
    BY <1>1 DEF EngineTypes, StepShape, Bounds
  <2>2. CASE s.in_step
    <3>1. Grown(r, s, m[i])
      BY <1>4, <2>2
    <3> HIDE DEF r, s
    <3>2. Len(s.prompt) \in Nat /\ s.done \in Nat /\ s.chunk \in Nat
      BY <2>1 DEF IsSlot
    <3>3. /\ IsSlot(r) /\ Kin(r, s) /\ ~r.in_step
          /\ r.state = "idle" <=> s.state = "idle"
          /\ r.state = "prefill" => r.done <= Len(s.prompt)
      BY <2>1, <2>2, <3>1, <3>2 DEF Grown, Live, Partial
    <3> QED BY <3>3 DEF r, s
  <2>3. CASE ~s.in_step
    <3>1. r = [s EXCEPT !.in_step = FALSE]
      BY <1>4, <2>3
    <3> HIDE DEF r, s
    <3>2. IsSlot(r) /\ Kin(r, s) /\ ~r.in_step /\ r.state = s.state /\ r.done = s.done
      BY <2>1, <3>1, SettledSlot
    <3> QED BY <2>1, <3>2 DEF r, s
  <2> QED BY <2>2, <2>3
<1> QED BY <1>2, <1>4, <1>5, <1>6, ShapeApplied

LEMMA ShapeNext == Shape /\ [LlmNext]_llmVars => Shape'
<1> SUFFICES ASSUME Shape, [LlmNext]_llmVars PROVE Shape'
  OBVIOUS
<1>1. CASE UNCHANGED llmVars
  BY <1>1, ShapeStutter
<1>2. CASE Engine
  BY <1>2, ShapeSleep, ShapeBuild, ShapeDecode, ShapeEvict, ShapePreempt, ShapeHalted, ShapeOk DEF Engine
<1>3. ASSUME NEW c \in Client, NEW p \in Prompts, AcquireSlot(c, p) PROVE Shape'
  BY <1>3, ShapeAcquire
<1>4. ASSUME NEW c \in Client, Submit(c) \/ Pull(c) \/ Finish(c) \/ ReleaseSlot(c) PROVE Shape'
  BY <1>4, ShapeSubmit, ShapePull, ShapeFinish, ShapeRelease
<1> QED BY <1>1, <1>2, <1>3, <1>4 DEF LlmNext

\* A slot is pinned exactly while a fork from it is pending, for any number of slots,
\* clients and requests, in every configuration of the pool: acquire_slot pins, the
\* copy in engine_build_locked and engine_release unpin, and no other step moves a pin.
THEOREM PinsAlwaysExact == LlmSpec => []PinsExact
<1>1. Shape => PinsExact
  BY DEF Shape
<1> QED BY <1>1, ShapeInit, ShapeNext, PTL DEF LlmSpec

-----------------------------------------------------------------------------
(* The cells are what the slots say                                         *)

\* What the invariant reads of a slot, apart from its part in a step
Alike(r, s) ==
    /\ r.busy = s.busy /\ r.count = s.count /\ r.toks = s.toks /\ r.prompt = s.prompt /\ r.src = s.src
    /\ r.state = s.state /\ r.rm = s.rm /\ r.len = s.len /\ r.done = s.done /\ r.past = s.past
    /\ r.produced = s.produced /\ r.failed = s.failed
SameStep(r, s) == r.in_step = s.in_step /\ r.chunk = s.chunk /\ r.draft = s.draft

LEMMA SoundAlike ==
    ASSUME NEW u, NEW i, NEW s, NEW r, NEW cells, NEW st, NEW v,
           SlotSound(u, i, s, cells, st, v), Alike(r, s), SameStep(r, s)
    PROVE  SlotSound(u, i, r, cells, st, v)
BY DEF SlotSound, Alike, SameStep, Held, Unbuilt, UnbuiltSound, BuiltSound, PrefillSound, DecodeSound, DoneSound, Stepped, Word

\* A slot the step has done nothing to, or has failed with
LEMMA SoundUnstepped ==
    ASSUME NEW u, NEW i, NEW s, NEW r, NEW cells, NEW st, NEW v, NEW t, NEW w,
           SlotSound(u, i, s, cells, st, v), Alike(r, s), v # i, w # i, ~Stepped(s, st), ~Stepped(r, t),
           r.in_step => s.in_step /\ r.chunk = s.chunk
    PROVE  SlotSound(u, i, r, cells, t, w)
<1>1. Held(r, cells) /\ (Unbuilt(r) <=> Unbuilt(s)) /\ \A k : Word(r, k) = Word(s, k)
  BY DEF SlotSound, Alike, Held, Unbuilt, Word
<1>2. (r.busy => r.prompt \in Prompts) /\ (r.src # NoSlot => u.share /\ Unbuilt(r))
  BY <1>1 DEF SlotSound, Alike
<1>3. Unbuilt(r) => UnbuiltSound(r)
  BY <1>1 DEF SlotSound, Alike, UnbuiltSound
<1>4. ASSUME r.busy, ~Unbuilt(r) PROVE BuiltSound(i, r, cells, t, w)
  <2>1. BuiltSound(i, s, cells, st, v)
    BY <1>1, <1>4 DEF SlotSound, Alike
  <2>2. r.state = "prefill" => PrefillSound(i, r, Len(cells), t, w)
    BY <2>1 DEF BuiltSound, PrefillSound, Alike
  <2>3. r.state = "decode" => DecodeSound(i, r, Len(cells), t, w)
    BY <2>1 DEF BuiltSound, DecodeSound, Alike
  <2>4. r.state = "done" => DoneSound(r, Len(cells))
    BY <2>1 DEF BuiltSound, DoneSound, Alike
  <2> QED BY <1>1, <2>1, <2>2, <2>3, <2>4 DEF BuiltSound, Alike
<1> QED BY <1>1, <1>2, <1>3, <1>4 DEF SlotSound

\* A pending fork whose source keeps what it counts on
LEMMA ForkKept ==
    ASSUME NEW i, NEW s, NEW r, NEW a, NEW b, NEW f, NEW g, ForkSound(i, s, a, f),
           g.src = i => f.src = i /\ g.len = f.len /\ g.prompt = f.prompt,
           g.src = i => /\ r.src \in {s.src, NoSlot} /\ r.len = s.len
                        /\ r.busy => s.busy /\ r.prompt = s.prompt
                        /\ Unbuilt(r) => Unbuilt(s)
                        /\ f.len <= Len(b) /\ \A k \in 1 .. f.len : b[k][1] = a[k][1]
    PROVE  ForkSound(i, r, b, g)
BY DEF ForkSound

LEMMA ForkAlike ==
    ASSUME NEW i, NEW s, NEW r, NEW a, NEW f, NEW g, ForkSound(i, s, a, f), Alike(r, s), Alike(g, f)
    PROVE  ForkSound(i, r, a, g)
BY DEF ForkSound, Alike, Unbuilt

LEMMA CacheInit == LlmInit => CacheSound
<1> SUFFICES ASSUME LlmInit PROVE CacheSound
  OBVIOUS
<1>1. \A i \in SlotId : slot[i] = Idle /\ kv[i] = <<>>
  BY DEF LlmInit, Started
<1>2. PoolType
  <2>1. <<>> \in Seq(Nat \X Nat)
    OBVIOUS
  <2> QED BY <2>1 DEF LlmInit, Started, PoolType
<1>3. ASSUME NEW i \in SlotId PROVE SlotSound(setup, i, slot[i], kv[i], step, victim)
  BY <1>1 DEF SlotSound, Held, Unbuilt, Idle
<1>4. ASSUME NEW i \in SlotId, NEW j \in SlotId PROVE ForkSound(i, slot[i], kv[i], slot[j])
  BY <1>1, SlotsFinite DEF ForkSound, Idle
<1> QED BY <1>2, <1>3, <1>4 DEF CacheSound

\* A step that leaves the cells, and of the slots what the invariant reads
LEMMA CacheAlike ==
    ASSUME CacheSound, UNCHANGED <<setup, kv, step, victim>>,
           \A i \in SlotId : Alike(slot'[i], slot[i]) /\ SameStep(slot'[i], slot[i])
    PROVE  CacheSound'
<1>1. PoolType'
  BY DEF CacheSound, PoolType
<1>2. ASSUME NEW i \in SlotId PROVE SlotSound(setup', i, slot'[i], kv'[i], step', victim')
  <2>1. SlotSound(setup, i, slot'[i], kv[i], step, victim)
    BY SoundAlike DEF CacheSound
  <2> QED BY <2>1
<1>3. ASSUME NEW i \in SlotId, NEW j \in SlotId PROVE ForkSound(i, slot'[i], kv'[i], slot'[j])
  <2>1. ForkSound(i, slot'[i], kv[i], slot'[j])
    BY ForkAlike DEF CacheSound
  <2> QED BY <2>1
<1> QED BY <1>1, <1>2, <1>3 DEF CacheSound

LEMMA CacheStutter == CacheSound /\ UNCHANGED llmVars => CacheSound'
<1> SUFFICES ASSUME CacheSound, UNCHANGED llmVars PROVE CacheSound'
  OBVIOUS
<1>1. \A i \in SlotId : Alike(slot'[i], slot[i]) /\ SameStep(slot'[i], slot[i])
  BY DEF llmVars, Alike, SameStep
<1>2. UNCHANGED <<setup, kv, step, victim>>
  BY DEF llmVars
<1> QED BY <1>1, <1>2, CacheAlike

LEMMA CacheSleep ==
    ASSUME CacheSound, EngineSleep
    PROVE  CacheSound'
BY CacheAlike DEF EngineSleep, Alike, SameStep

LEMMA RingAlike ==
    ASSUME NEW s, IsSlot(s)
    PROVE  LET r == [s EXCEPT !.ring = 0] IN Alike(r, s) /\ SameStep(r, s)
BY DEF IsSlot, Fields, Alike, SameStep

LEMMA StopAlike ==
    ASSUME NEW s, IsSlot(s)
    PROVE  LET r == [s EXCEPT !.stop = TRUE] IN Alike(r, s) /\ SameStep(r, s)
BY DEF IsSlot, Fields, Alike, SameStep

LEMMA PinAlike ==
    ASSUME NEW s, IsSlot(s), NEW n
    PROVE  LET r == [s EXCEPT !.pins = n] IN Alike(r, s) /\ SameStep(r, s)
BY DEF IsSlot, Fields, Alike, SameStep

LEMMA CachePull ==
    ASSUME Shape, CacheSound, NEW c \in Client, Pull(c)
    PROVE  CacheSound'
<1> DEFINE x == mine[c]
<1>1. x \in SlotId /\ DOMAIN slot = SlotId /\ \A i \in SlotId : IsSlot(slot[i])
  BY DEF Pull, Shape, Owned, EngineTypes
<1>2. slot'[x] = [slot[x] EXCEPT !.ring = 0] /\ \A i \in SlotId : i # x => slot'[i] = slot[i]
  BY <1>1 DEF Pull
<1>3. Alike(slot'[x], slot[x]) /\ SameStep(slot'[x], slot[x])
  BY <1>1, <1>2, RingAlike
<1>4. \A i \in SlotId : Alike(slot'[i], slot[i]) /\ SameStep(slot'[i], slot[i])
  BY <1>2, <1>3 DEF Alike, SameStep
<1> QED BY <1>4, CacheAlike DEF Pull

LEMMA CacheFinish ==
    ASSUME Shape, CacheSound, NEW c \in Client, Finish(c)
    PROVE  CacheSound'
<1> DEFINE x == mine[c]
<1>1. x \in SlotId /\ DOMAIN slot = SlotId /\ \A i \in SlotId : IsSlot(slot[i])
  BY DEF Finish, Shape, Owned, EngineTypes
<1>2. slot'[x] \in {slot[x], [slot[x] EXCEPT !.stop = TRUE]} /\ \A i \in SlotId : i # x => slot'[i] = slot[i]
  BY <1>1 DEF Finish
<1>3. Alike(slot'[x], slot[x]) /\ SameStep(slot'[x], slot[x])
  <2>1. CASE slot'[x] = slot[x]
    BY <2>1 DEF Alike, SameStep
  <2>2. CASE slot'[x] = [slot[x] EXCEPT !.stop = TRUE]
    BY <1>1, <2>2, StopAlike
  <2> QED BY <1>2, <2>1, <2>2
<1>4. \A i \in SlotId : Alike(slot'[i], slot[i]) /\ SameStep(slot'[i], slot[i])
  BY <1>2, <1>3 DEF Alike, SameStep
<1> QED BY <1>4, CacheAlike DEF Finish

LEMMA TakenFields ==
    ASSUME NEW s, IsSlot(s), NEW u, NEW p, NEW x, NEW l, NEW k
    PROVE  LET r == [s EXCEPT !.busy = TRUE, !.used = u, !.prompt = p, !.src = x, !.len = l, !.count = k] IN
           /\ r.busy /\ r.prompt = p /\ r.src = x /\ r.len = l /\ r.count = k
           /\ r.toks = s.toks /\ r.state = s.state /\ r.rm = s.rm /\ r.in_step = s.in_step
BY DEF IsSlot, Fields

\* The slots once one is acquired: the best one is taken, and a source is pinned
LEMMA AcquiredSlots ==
    ASSUME Shape, NEW c \in Client, NEW p \in Prompts, AcquireSlot(c, p)
    PROVE  LET b == Best(p) x == Source(p) l == IF x = NoSlot THEN common_prefix(b, p) ELSE common_prefix(x, p)
               r == slot'[b] s == slot[b] IN
           /\ p \in Seq(Nat) /\ Len(p) > 0 /\ Free # {}
           /\ b \in SlotId /\ ~s.busy /\ s.state = "idle" /\ ~s.in_step /\ s.src = NoSlot /\ s.pins = 0
           /\ r.busy /\ r.prompt = p /\ r.src = x /\ r.len = l /\ r.count = (IF x = NoSlot THEN l ELSE 0)
           /\ r.toks = s.toks /\ r.state = "idle" /\ ~r.in_step /\ r.rm = -1
           /\ \A i \in SlotId : i # b => Alike(slot'[i], slot[i]) /\ SameStep(slot'[i], slot[i])
           /\ UNCHANGED <<setup, kv, step, victim>>
<1> DEFINE b == Best(p)
           x == Source(p)
           n == common_prefix(b, p)
           m == common_prefix(x, p)
           l == IF x = NoSlot THEN n ELSE m
           k == IF x = NoSlot THEN n ELSE 0
           u == order + 1
           s == slot[b]
<1>1. p \in Seq(Nat) /\ Len(p) > 0 /\ Free # {}
  BY LlmAssumption DEF AcquireSlot
<1>2. b \in Free /\ b \in SlotId
  BY <1>1, BestFree DEF Shape
<1>3. ~s.busy /\ s.state = "idle" /\ s.src = NoSlot /\ s.pins = 0 /\ ~s.in_step /\ s.rm = -1
  BY <1>2 DEF Free, Shape, FreeClean, StepShape, Live
<1>4. DOMAIN slot = SlotId /\ \A i \in SlotId : IsSlot(slot[i])
  BY DEF Shape, EngineTypes
<1>5. slot' = [i \in SlotId |->
       IF i = b THEN [slot[i] EXCEPT !.busy = TRUE, !.used = order + 1, !.prompt = p,
                        !.src = IF x = NoSlot THEN @ ELSE x,
                        !.len = IF x = NoSlot THEN n ELSE m,
                        !.count = IF x = NoSlot THEN n ELSE 0]
       ELSE IF i = x THEN [slot[i] EXCEPT !.pins = @ + 1] ELSE slot[i]]
  BY DEF AcquireSlot, acquire_slot
<1>6. DOMAIN slot[b] = Fields /\ DOMAIN s = Fields
  BY <1>2, <1>4 DEF IsSlot
<1>7. slot'[b] = [s EXCEPT !.busy = TRUE, !.used = u, !.prompt = p, !.src = x, !.len = l, !.count = k]
  BY <1>2, <1>3, <1>5, <1>6 DEF Fields
<1>8. ASSUME NEW i \in SlotId, i # b PROVE Alike(slot'[i], slot[i]) /\ SameStep(slot'[i], slot[i])
  <2> HIDE DEF b, x
  <2>1. CASE i = x
    <3> DEFINE q == slot[i]
               z == slot[i].pins + 1
    <3>1. slot'[i] = [q EXCEPT !.pins = z]
      BY <1>4, <1>5, <1>8, <2>1
    <3>2. IsSlot(q)
      BY <1>4
    <3> HIDE DEF q, z
    <3>3. Alike([q EXCEPT !.pins = z], q) /\ SameStep([q EXCEPT !.pins = z], q)
      BY <3>2, PinAlike
    <3> QED BY <3>1, <3>3 DEF q
  <2>2. CASE i # x
    BY <1>5, <1>8, <2>2 DEF Alike, SameStep
  <2> QED BY <2>1, <2>2
<1>9. UNCHANGED <<setup, kv, step, victim>>
  BY DEF AcquireSlot
<1>10. IsSlot(s)
  BY <1>2, <1>4
<1>11. LET r == slot'[b] IN
       /\ r.busy /\ r.prompt = p /\ r.src = x /\ r.len = l /\ r.count = k
       /\ r.toks = s.toks /\ r.state = "idle" /\ ~r.in_step /\ r.rm = -1
  <2> DEFINE q == [s EXCEPT !.busy = TRUE, !.used = u, !.prompt = p, !.src = x, !.len = l, !.count = k]
  <2>1. s.state = "idle" /\ ~s.in_step /\ s.rm = -1
    BY <1>3
  <2> HIDE DEF s, u, x, l, k
  <2>2. /\ q.busy /\ q.prompt = p /\ q.src = x /\ q.len = l /\ q.count = k
        /\ q.toks = s.toks /\ q.state = s.state /\ q.in_step = s.in_step /\ q.rm = s.rm
    BY <1>10, TakenFields
  <2>3. slot'[b] = q
    BY <1>7
  <2> HIDE DEF q, b
  <2> QED BY <2>1, <2>2, <2>3
<1> QED BY <1>1, <1>2, <1>3, <1>8, <1>9, <1>11

LEMMA CacheAcquire ==
    ASSUME Shape, CacheSound, NEW c \in Client, NEW p \in Prompts, AcquireSlot(c, p)
    PROVE  CacheSound'
<1> DEFINE b == Best(p)
           x == Source(p)
           l == IF x = NoSlot THEN common_prefix(b, p) ELSE common_prefix(x, p)
           r == slot'[b]
           s == slot[b]
           cp(i) == common_prefix(i, p)
<1>1. /\ p \in Seq(Nat) /\ Len(p) > 0 /\ Free # {}
      /\ b \in SlotId /\ ~s.busy /\ s.state = "idle" /\ ~s.in_step /\ s.src = NoSlot /\ s.pins = 0
      /\ r.busy /\ r.prompt = p /\ r.src = x /\ r.len = l /\ r.count = (IF x = NoSlot THEN l ELSE 0)
      /\ r.toks = s.toks /\ r.state = "idle" /\ ~r.in_step /\ r.rm = -1
      /\ \A i \in SlotId : i # b => Alike(slot'[i], slot[i]) /\ SameStep(slot'[i], slot[i])
      /\ UNCHANGED <<setup, kv, step, victim>>
  BY AcquiredSlots
<1>2. EngineTypes
  BY DEF Shape
<1>3. x # NoSlot => x \in SlotId /\ x # b /\ setup.share /\ cp(x) > 0
  BY <1>1, <1>2, SourceOther DEF Share
<1>4. \A i \in SlotId : /\ cp(i) \in Nat /\ cp(i) < Len(p) /\ (cp(i) > 0 => cp(i) < slot[i].count)
                        /\ \A k \in 1 .. cp(i) : slot[i].toks[k] = p[k]
  BY <1>1, <1>2, SharedPrefix
<1>5. \A i \in SlotId : SlotSound(setup, i, slot[i], kv[i], step, victim)
  BY DEF CacheSound
<1>14. \A i \in SlotId : IsSlot(slot[i])
  BY <1>2 DEF EngineTypes
<1>6. l \in Nat /\ l < Len(p)
  BY <1>1, <1>3, <1>4
<1>15. x = NoSlot => l = cp(b)
  OBVIOUS
<1>16. x # NoSlot => l = cp(x)
  OBVIOUS
<1> HIDE DEF b, x, l, r, s, cp
<1>7. SlotSound(setup, b, r, kv[b], step, victim)
  <2>1. Held(s, kv[b]) /\ s.count \in Nat
    <3>1. SlotSound(setup, b, s, kv[b], step, victim) /\ IsSlot(s)
      BY <1>1, <1>5, <1>14 DEF s
    <3> QED BY <3>1 DEF SlotSound, IsSlot
  <2>2. Held(r, kv[b])
    <3>1. CASE x = NoSlot
      <4>1. r.count = cp(b) /\ cp(b) \in Nat /\ cp(b) <= s.count
        BY <1>1, <1>4, <1>15, <2>1, <3>1 DEF s
      <4> QED BY <4>1, <2>1, <1>1 DEF Held
    <3>2. CASE x # NoSlot
      BY <1>1, <2>1, <3>2 DEF Held
    <3> QED BY <3>1, <3>2
  <2>3. UnbuiltSound(r)
    <3>1. x = NoSlot => r.count = r.len /\ \A k \in 1 .. r.len : r.toks[k] = r.prompt[k]
      BY <1>1, <1>4, <1>15 DEF s
    <3> QED BY <1>1, <1>6, <3>1 DEF UnbuiltSound
  <2>4. Unbuilt(r)
    BY <1>1 DEF Unbuilt
  <2> QED BY <2>2, <2>3, <2>4, <1>1, <1>3 DEF SlotSound
<1>8. ASSUME NEW i \in SlotId PROVE SlotSound(setup', i, slot'[i], kv'[i], step', victim')
  <2>1. CASE i = b
    BY <1>1, <1>7, <2>1 DEF r
  <2>2. CASE i # b
    <3>1. SlotSound(setup, i, slot'[i], kv[i], step, victim)
      BY <1>1, <1>5, <2>2, SoundAlike
    <3> QED BY <1>1, <3>1
  <2> QED BY <2>1, <2>2
<1>9. ASSUME NEW i \in SlotId, NEW j \in SlotId PROVE ForkSound(i, slot'[i], kv'[i], slot'[j])
  <2>1. CASE j = b /\ i = x
    <3> DEFINE q == slot[x]
               a == kv[x]
    <3>1. x # NoSlot /\ l = cp(x) /\ cp(x) \in Nat /\ cp(x) < q.count /\ x # b /\ \A k \in 1 .. cp(x) : q.toks[k] = p[k]
      BY <1>3, <1>4, <1>16, <2>1, SlotsFinite
    <3>2. SlotSound(setup, x, q, a, step, victim) /\ IsSlot(q)
      BY <1>5, <1>14, <2>1
    <3>3. Alike(slot'[x], q)
      BY <1>1, <2>1, <3>1
    <3> HIDE DEF q, a
    <3>4. q.count \in Nat /\ q.count <= Len(a) /\ q.count <= Len(q.toks) /\ \A k \in 1 .. q.count : a[k][1] = q.toks[k]
      BY <3>2 DEF SlotSound, Held, IsSlot
    <3>5. q.src = NoSlot
      BY <3>1, <3>2, <3>4 DEF SlotSound, UnbuiltSound
    <3>6. l <= Len(a) /\ \A k \in 1 .. l : a[k][1] = p[k]
      <4>1. Len(a) \in Nat
        <5>1. kv[x] \in Seq(Nat \X Nat)
          BY <2>1 DEF CacheSound, PoolType
        <5> QED BY <5>1 DEF a
      <4>2. \A k \in 1 .. l : k \in 1 .. q.count
        BY <3>1, <3>4
      <4> QED BY <3>1, <3>4, <4>1, <4>2
    <3>7. q.busy /\ Unbuilt(q) => l <= q.len
      BY <3>1, <3>2, <3>4, <3>5 DEF SlotSound, UnbuiltSound, IsSlot
    <3>8. q.busy => l <= Len(q.prompt)
      <4>1. Len(q.prompt) \in Nat /\ q.len \in Nat
        BY <3>2 DEF IsSlot
      <4>2. CASE Unbuilt(q)
        BY <3>2, <3>7, <4>1, <4>2, <1>6 DEF SlotSound, UnbuiltSound
      <4>3. CASE ~Unbuilt(q)
        BY <3>1, <3>2, <3>4, <4>1, <4>3, <1>6 DEF SlotSound, BuiltSound
      <4> QED BY <4>2, <4>3
    <3>9. ForkSound(x, slot'[x], a, r)
      BY <3>3, <3>5, <3>6, <3>7, <3>8, <1>1 DEF ForkSound, Alike, Unbuilt
    <3> QED BY <2>1, <3>9, <1>1 DEF r, a
  <2>2. CASE j = b /\ i # x
    BY <2>2, <1>1 DEF ForkSound, r
  <2>3. CASE j # b /\ i = b
    <3>1. slot[j].src # b
      <4> DEFINE F == {k \in SlotId : slot[k].src = b}
      <4>1. Cardinality(F) = 0 /\ IsFiniteSet(F)
        BY <1>1, SlotsFinite, FS_Subset DEF Shape, PinsExact, s
      <4>2. F = {}
        BY <4>1, FS_EmptySet
      <4> QED BY <4>2
    <3>2. slot'[j].src = slot[j].src
      BY <1>1, <2>3 DEF Alike
    <3> QED BY <2>3, <3>1, <3>2 DEF ForkSound
  <2>4. CASE j # b /\ i # b
    <3>1. ForkSound(i, slot[i], kv[i], slot[j])
      BY DEF CacheSound
    <3>2. ForkSound(i, slot'[i], kv[i], slot'[j])
      BY <1>1, <2>4, <3>1, ForkAlike
    <3> QED BY <3>2, <1>1
  <2> QED BY <2>1, <2>2, <2>3, <2>4
<1>10. PoolType'
  BY <1>1 DEF CacheSound, PoolType
<1> QED BY <1>8, <1>9, <1>10 DEF CacheSound

LEMMA CacheSubmit ==
    ASSUME Shape, CacheSound, NEW c \in Client, Submit(c)
    PROVE  CacheSound'
<1> DEFINE x == mine[c]
           s == slot[x]
           r == engine_submit(slot[x])
<1>1. x \in SlotId /\ s.busy /\ s.state = "idle" /\ cpc[c] = "submit"
  BY DEF Submit, Shape, Owned
<1>2. IsSlot(s) /\ DOMAIN slot = SlotId
  BY <1>1 DEF Shape, EngineTypes
<1>3. /\ IsSlot(r) /\ r.state = "prefill" /\ r.busy = s.busy /\ r.src = s.src
      /\ r.in_step = s.in_step /\ r.rm = s.len /\ r.toks = s.prompt /\ r.prompt = s.prompt /\ r.done = s.len
      /\ r.produced = 0 /\ r.count = s.count /\ r.len = s.len
  BY <1>2, SubmittedSlot
<1>4. slot'[x] = r /\ \A i \in SlotId : i # x => slot'[i] = slot[i]
  BY <1>1, <1>2 DEF Submit
<1>5. UNCHANGED <<setup, kv, step, victim>>
  BY DEF Submit
<1>6. SlotSound(setup, x, s, kv[x], step, victim)
  BY <1>1 DEF CacheSound
<1> HIDE DEF x, s, r
<1>7. Unbuilt(s) /\ Unbuilt(r)
  BY <1>1, <1>2, <1>3 DEF Unbuilt, IsSlot
<1>8. UnbuiltSound(s)
  BY <1>6, <1>7 DEF SlotSound
<1>9. UnbuiltSound(r)
  BY <1>3, <1>8 DEF UnbuiltSound
<1>10. Held(r, kv[x])
  <2>1. Held(s, kv[x]) /\ s.len \in Nat /\ Len(s.prompt) \in Nat
    BY <1>2, <1>6 DEF SlotSound, IsSlot
  <2>2. CASE s.src = NoSlot
    BY <1>3, <1>8, <2>1, <2>2 DEF Held, UnbuiltSound
  <2>3. CASE s.src # NoSlot
    BY <1>3, <1>8, <2>1, <2>3 DEF Held, UnbuiltSound
  <2> QED BY <2>2, <2>3
<1>11. SlotSound(setup, x, r, kv[x], step, victim)
  BY <1>3, <1>6, <1>7, <1>9, <1>10 DEF SlotSound
<1>12. ASSUME NEW i \in SlotId PROVE SlotSound(setup', i, slot'[i], kv'[i], step', victim')
  BY <1>4, <1>5, <1>11 DEF CacheSound
<1>13. ASSUME NEW i \in SlotId, NEW j \in SlotId PROVE ForkSound(i, slot'[i], kv'[i], slot'[j])
  <2>1. ForkSound(i, slot[i], kv[i], slot[j]) /\ kv' = kv
    BY <1>5 DEF CacheSound
  <2>2. slot'[i].src = slot[i].src /\ slot'[i].busy = slot[i].busy /\ slot'[i].prompt = slot[i].prompt /\ slot'[i].len = slot[i].len
    BY <1>3, <1>4 DEF s
  <2>3. slot'[j].src = slot[j].src /\ slot'[j].prompt = slot[j].prompt /\ slot'[j].len = slot[j].len
    BY <1>3, <1>4 DEF s
  <2>4. Unbuilt(slot'[i]) => Unbuilt(slot[i])
    BY <1>4, <1>7 DEF s
  <2> QED BY <2>1, <2>2, <2>3, <2>4 DEF ForkSound
<1>14. PoolType'
  BY <1>5 DEF CacheSound, PoolType
<1> QED BY <1>12, <1>13, <1>14 DEF CacheSound

LEMMA CacheRelease ==
    ASSUME Shape, CacheSound, NEW c \in Client, ReleaseSlot(c)
    PROVE  CacheSound'
<1> DEFINE x == mine[c]
           s == slot[x]
           y == slot[x].src
<1>1. x \in SlotId /\ s.busy /\ s.state = "done" /\ cpc[c] = "release"
  BY DEF ReleaseSlot, Shape, Owned
<1>2. PICK n \in 0 .. taken[c] : slot' = Released(x, n)
  BY DEF ReleaseSlot
<1>3. n \in Nat
  BY DEF Shape, EngineTypes
<1>4. /\ slot'[x] = Given(slot[x], n) /\ y # x
      /\ y # NoSlot => y \in SlotId /\ slot'[y] = [slot[y] EXCEPT !.pins = slot[y].pins - 1]
      /\ \A i \in SlotId : i # x /\ i # y => slot'[i] = slot[i]
  BY <1>1, <1>2, <1>3, ReleasedSlots
<1>5. \A i \in SlotId : IsSlot(slot[i])
  BY DEF Shape, EngineTypes
<1>6. \A i \in SlotId : i # x => Alike(slot'[i], slot[i]) /\ SameStep(slot'[i], slot[i])
  <2> SUFFICES ASSUME NEW i \in SlotId, i # x PROVE Alike(slot'[i], slot[i]) /\ SameStep(slot'[i], slot[i])
    OBVIOUS
  <2>1. CASE i = y
    BY <1>4, <1>5, <2>1, PinAlike, SlotsFinite
  <2>2. CASE i # y
    BY <1>4, <2>2 DEF Alike, SameStep
  <2> QED BY <2>1, <2>2
<1>7. UNCHANGED <<setup, kv, step, victim>>
  BY DEF ReleaseSlot
<1>8. SlotSound(setup, x, s, kv[x], step, victim) /\ IsSlot(s)
  BY <1>1, <1>5 DEF CacheSound
<1> DEFINE r == Given(s, n)
           k == Kept(s, n)
<1>9. slot'[x] = r
  BY <1>4
<1>16. kv[x] \in Seq(Nat \X Nat)
  BY <1>1 DEF CacheSound, PoolType
<1> DEFINE a == kv[x]
<1> HIDE DEF x, s, y, a
<1>10. r.state = "idle" /\ r.src = NoSlot /\ ~r.busy /\ r.count = k /\ r.toks = Cut(Reply(s, n), k)
  BY <1>3, <1>8, GivenSlot
<1> HIDE DEF r
<1>11. Held(r, a)
  <2>1. /\ k \in Nat /\ k <= Len(s.prompt) + n
        /\ k > 0 => ~s.failed /\ s.rm = -1 /\ s.src = NoSlot /\ k <= IF s.done < Len(s.prompt) THEN s.done ELSE s.past
    BY <1>3, <1>8, KeptFacts
  <2> HIDE DEF k
  <2>2. s.prompt \in Seq(Nat)
    BY <1>8 DEF IsSlot
  <2>3. /\ Reply(s, n) \in Seq(Nat) /\ Len(Reply(s, n)) = Len(s.prompt) + n
        /\ \A z \in 1 .. Len(s.prompt) + n : Reply(s, n)[z] = Word(s, z)
    BY <1>3, <2>2, ReplyFacts
  <2>4. Len(Cut(Reply(s, n), k)) = k /\ \A z \in 1 .. k : Cut(Reply(s, n), k)[z] = Reply(s, n)[z]
    BY <2>1, <2>3, CutFacts
  <2>5. Len(a) \in Nat
    BY <1>16 DEF a
  <2>6. CASE k = 0
    BY <2>4, <2>5, <2>6, <1>10 DEF Held
  <2>7. CASE k # 0
    <3>1. k > 0 /\ s.rm = -1 /\ ~s.failed
      BY <2>1, <2>7
    <3>2. ~Unbuilt(s)
      BY <1>1, <3>1 DEF Unbuilt
    <3>3. BuiltSound(x, s, a, step, victim)
      BY <1>1, <1>8, <3>2 DEF SlotSound, a
    <3>4. Len(a) = IF s.done < Len(s.prompt) THEN s.done ELSE s.past
      BY <1>1, <3>1, <3>3 DEF BuiltSound, DoneSound
    <3>5. k <= Len(a)
      BY <2>1, <3>1, <3>4
    <3>6. \A z \in 1 .. k : z \in 1 .. Len(a) /\ z \in 1 .. Len(s.prompt) + n
      <4>1. Len(s.prompt) \in Nat
        BY <2>2
      <4> QED BY <2>1, <2>5, <3>5, <4>1, <1>3
    <3>7. \A z \in 1 .. k : a[z][1] = Cut(Reply(s, n), k)[z]
      BY <2>3, <2>4, <3>3, <3>6 DEF BuiltSound
    <3> QED BY <2>4, <3>5, <3>7, <2>1, <1>10 DEF Held
  <2> QED BY <2>6, <2>7
<1>12. SlotSound(setup, x, r, a, step, victim)
  BY <1>10, <1>11 DEF SlotSound, Unbuilt
<1>13. ASSUME NEW i \in SlotId PROVE SlotSound(setup', i, slot'[i], kv'[i], step', victim')
  <2>1. CASE i = x
    BY <1>7, <1>9, <1>12, <2>1 DEF a
  <2>2. CASE i # x
    <3>1. SlotSound(setup, i, slot'[i], kv[i], step, victim)
      BY <1>6, <2>2, SoundAlike DEF CacheSound
    <3> QED BY <1>7, <3>1
  <2> QED BY <2>1, <2>2
<1>14. ASSUME NEW i \in SlotId, NEW j \in SlotId PROVE ForkSound(i, slot'[i], kv'[i], slot'[j])
  <2>1. ForkSound(i, slot[i], kv[i], slot[j]) /\ kv' = kv
    BY <1>7 DEF CacheSound
  <2>2. CASE j = x
    BY <2>2, <1>9, <1>10, SlotsFinite DEF ForkSound
  <2>3. CASE j # x /\ i = x
    <3>1. Alike(slot'[j], slot[j])
      BY <1>6, <2>3
    <3> QED BY <2>1, <2>3, <3>1, <1>9, <1>10 DEF ForkSound, Alike, Unbuilt
  <2>4. CASE j # x /\ i # x
    BY <2>1, <2>4, <1>6, ForkAlike
  <2> QED BY <2>2, <2>3, <2>4
<1>15. PoolType'
  BY <1>7 DEF CacheSound, PoolType
<1> QED BY <1>13, <1>14, <1>15 DEF CacheSound

\* A sequence that does not run: at most told to stop
LEMMA BuiltResting ==
    ASSUME NEW u, NEW i, NEW s, IsSlot(s), NEW r, NEW k, NEW cells, NEW st, NEW v, st # "ok", v # i, ~s.in_step,
           SlotSound(u, i, s, cells, st, v), StepBuilt(r, s, k), ~Runs(s)
    PROVE  SlotSound(u, i, r, cells, st, v)
<1>1. /\ r.failed = s.failed /\ r.busy = s.busy /\ r.toks = s.toks /\ r.prompt = s.prompt /\ r.past = s.past
      /\ r.produced = s.produced /\ r.len = s.len /\ r.src = s.src /\ r.rm = s.rm /\ r.done = s.done /\ r.count = s.count
      /\ ~r.in_step /\ r.state = IF Live(s) THEN "done" ELSE s.state
  BY DEF StepBuilt, SameRequest
<1>2. CASE ~Live(s)
  <2>1. Alike(r, s)
    BY <1>1, <1>2 DEF Alike
  <2> QED BY <2>1, <1>1, SoundUnstepped DEF Stepped
<1>3. CASE Live(s)
  <2>1. Held(r, cells) /\ (Unbuilt(r) <=> Unbuilt(s)) /\ (\A z : Word(r, z) = Word(s, z))
    BY <1>1, <1>3 DEF SlotSound, Held, Unbuilt, Word, Live
  <2>2. (r.busy => r.prompt \in Prompts) /\ (r.src # NoSlot => u.share /\ Unbuilt(r))
    BY <1>1, <2>1 DEF SlotSound
  <2>3. Unbuilt(r) => UnbuiltSound(r)
    BY <1>1, <1>3, <2>1 DEF SlotSound, UnbuiltSound, Live
  <2>4. ASSUME r.busy, ~Unbuilt(r) PROVE BuiltSound(i, r, cells, st, v)
    <3>1. BuiltSound(i, s, cells, st, v)
      BY <1>1, <2>1, <2>4 DEF SlotSound
    <3>2. DoneSound(r, Len(cells))
      <4>1. CASE s.state = "prefill"
        BY <1>1, <3>1, <4>1 DEF BuiltSound, PrefillSound, DoneSound, Stepped
      <4>2. CASE s.state = "decode"
        <5>1. Len(s.prompt) \in Nat
          BY DEF IsSlot
        <5> QED BY <1>1, <3>1, <4>2, <5>1 DEF BuiltSound, DecodeSound, DoneSound, Stepped
      <4> QED BY <1>3, <4>1, <4>2 DEF Live
    <3> QED BY <1>1, <1>3, <2>1, <3>1, <3>2 DEF BuiltSound
  <2> QED BY <2>1, <2>2, <2>3, <2>4 DEF SlotSound
<1> QED BY <1>2, <1>3

\* A prompt whose kept or copied prefix is in place
LEMMA BuiltPrefix ==
    ASSUME NEW u, NEW i, NEW s, IsSlot(s), NEW r, NEW k \in Nat, NEW cells, NEW st, NEW v, st # "ok", v # i,
           s.prompt \in Prompts, s.busy, Unbuilt(s), UnbuiltSound(s), Runs(s), StepBuilt(r, s, k),
           Len(cells) = IF s.src # NoSlot THEN s.len ELSE k, k \in {0, s.len},
           \A z \in 1 .. Len(cells) : cells[z][1] = s.prompt[z]
    PROVE  SlotSound(u, i, r, cells, st, v)
<1> DEFINE n == Len(cells)
<1>1. s.state = "prefill" /\ s.toks = s.prompt /\ s.rm = s.len /\ s.produced = 0 /\ s.rm >= 0 /\ s.len < Len(s.prompt) /\ s.done = s.len
      /\ s.len \in Nat /\ Len(s.prompt) \in Nat /\ (s.src = NoSlot => s.count = s.len)
  BY SMTT(40) DEF Runs, Live, UnbuiltSound, IsSlot
<1>2. /\ r.failed = s.failed /\ r.busy = s.busy /\ r.toks = s.toks /\ r.prompt = s.prompt /\ r.produced = 0
      /\ r.state = "prefill" /\ r.src = NoSlot /\ r.rm = -1 /\ IsSlot(r)
      /\ r.in_step => r.chunk <= Len(r.prompt) - r.done /\ (r.done < Len(r.prompt) => r.chunk > 0)
  BY <1>1 DEF StepBuilt, SameRequest
<1>3. r.done = n /\ r.count = n
  <2>1. CASE s.src # NoSlot
    BY <2>1 DEF StepBuilt
  <2>2. CASE s.src = NoSlot
    BY <1>1, <2>2 DEF StepBuilt
  <2> QED BY <2>1, <2>2
<1>4. n \in Nat /\ n < Len(s.prompt)
  BY <1>1
<1> HIDE DEF n
<1>5. Held(r, cells)
  BY <1>1, <1>2, <1>3, <1>4 DEF Held, n
<1>6. ~Unbuilt(r)
  BY <1>2 DEF Unbuilt
<1>7. \A z \in 1 .. Len(cells) : cells[z][1] = Word(r, z)
  <2>1. \A z \in 1 .. Len(cells) : z <= Len(r.prompt)
    BY <1>2, <1>4 DEF n
  <2> QED BY <1>2, <2>1 DEF Word
<1>8. PrefillSound(i, r, Len(cells), st, v)
  <2>1. r.in_step => r.chunk \in 1 .. Len(r.prompt) - r.done
    <3>1. r.chunk \in Nat
      BY <1>2 DEF IsSlot
    <3> QED BY <3>1, <1>1, <1>2, <1>3, <1>4
  <2> QED BY <2>1, <1>2, <1>3, <1>4 DEF PrefillSound, Stepped, n
<1>9. BuiltSound(i, r, cells, st, v)
  BY <1>1, <1>2, <1>7, <1>8 DEF BuiltSound
<1> QED BY <1>2, <1>5, <1>6, <1>9 DEF SlotSound

\* A sequence under way: its row or its chunk is in the step
LEMMA BuiltRunning ==
    ASSUME NEW u, NEW i, NEW s, IsSlot(s), NEW r, NEW k, NEW cells, NEW st, NEW v, st # "ok", v # i, ~s.in_step,
           SlotSound(u, i, s, cells, st, v), s.busy, ~Unbuilt(s), s.src = NoSlot, s.rm = -1, Runs(s), StepBuilt(r, s, k)
    PROVE  SlotSound(u, i, r, cells, st, v)
<1>1. /\ r.failed = s.failed /\ r.busy = s.busy /\ r.toks = s.toks /\ r.prompt = s.prompt /\ r.produced = s.produced
      /\ r.state = s.state /\ r.src = NoSlot /\ r.rm = -1 /\ IsSlot(r) /\ r.done = s.done /\ r.count = s.count /\ r.past = s.past
      /\ s.state = "prefill" /\ r.in_step => r.chunk <= Len(r.prompt) - r.done /\ (r.done < Len(r.prompt) => r.chunk > 0)
  BY DEF StepBuilt, SameRequest
<1>2. Held(r, cells) /\ ~Unbuilt(r) /\ (\A z : Word(r, z) = Word(s, z)) /\ BuiltSound(i, s, cells, st, v)
  BY <1>1 DEF SlotSound, Held, Unbuilt, Word
<1>3. r.state = "prefill" => PrefillSound(i, r, Len(cells), st, v)
  <2> SUFFICES ASSUME r.state = "prefill" PROVE PrefillSound(i, r, Len(cells), st, v)
    OBVIOUS
  <2>1. PrefillSound(i, s, Len(cells), st, v)
    BY <1>1, <1>2 DEF BuiltSound
  <2>2. r.in_step => r.chunk \in 1 .. Len(r.prompt) - r.done
    <3>1. r.chunk \in Nat /\ Len(r.prompt) \in Nat /\ r.done \in Nat
      BY <1>1 DEF IsSlot
    <3> QED BY <3>1, <1>1, <2>1 DEF PrefillSound
  <2> QED BY <1>1, <2>1, <2>2 DEF PrefillSound, Stepped
<1>4. r.state = "decode" => DecodeSound(i, r, Len(cells), st, v)
  BY <1>1, <1>2 DEF BuiltSound, DecodeSound, Stepped
<1>5. r.state # "done"
  BY <1>1 DEF Runs, Live
<1>6. BuiltSound(i, r, cells, st, v)
  BY <1>1, <1>2, <1>3, <1>4, <1>5 DEF BuiltSound
<1> QED BY <1>1, <1>2, <1>6 DEF SlotSound

\* What a pending fork counts on survives its source's turn
LEMMA TrimKeeps ==
    ASSUME Shape, CacheSound, NEW i \in SlotId, NEW j \in SlotId, NEW lost, Share => lost = {}, slot[j].src = i
    PROVE  LET c == TrimmedCells(i, lost) f == slot[j] IN
           /\ f.len \in Nat /\ f.len <= Len(c) /\ \A k \in 1 .. f.len : c[k] = kv[i][k]
<1> DEFINE s == slot[i]
           f == slot[j]
           c == TrimmedCells(i, lost)
           a == kv[i]
<1>1. IsSlot(s) /\ IsSlot(f) /\ a \in Seq(Nat \X Nat) /\ PoolType
  BY DEF Shape, EngineTypes, CacheSound, PoolType
<1>2. ForkSound(i, s, a, f) /\ SlotSound(setup, i, s, a, step, victim) /\ SlotSound(setup, j, f, kv[j], step, victim)
  BY DEF CacheSound
<1>3. lost = {}
  BY <1>2, SlotsFinite DEF SlotSound, Share
<1>4. f.len \in Nat /\ Len(a) \in Nat /\ f.len <= Len(a)
  BY <1>1, <1>2 DEF ForkSound, IsSlot
<1>5. /\ c \in Seq(Nat \X Nat) /\ \A k \in 1 .. Len(c) : c[k] = a[k]
      /\ Runs(s) /\ s.rm >= 0 => Len(c) = IF Keep(i, lost) <= Len(a) THEN Keep(i, lost) ELSE Len(a)
      /\ ~(Runs(s) /\ s.rm >= 0) => c = a
  BY <1>1, TrimmedCellsFacts
<1>6. Keep(i, lost) = s.rm
  BY <1>3 DEF Keep
<1>7. f.src = i
  OBVIOUS
<1> HIDE DEF s, f, c, a
<1>8. f.len <= Len(c)
  <2>1. CASE Runs(s) /\ s.rm >= 0
    <3>1. s.busy
      <4>1. ~s.busy => s.state = "idle"
        BY DEF Shape, FreeClean, s
      <4> QED BY <2>1, <4>1 DEF Runs, Live
    <3>2. Unbuilt(s) /\ UnbuiltSound(s) /\ s.state # "idle"
      BY <1>2, <2>1, <3>1 DEF Unbuilt, SlotSound, Runs, Live
    <3>3. s.rm = s.len /\ f.len <= s.len
      BY <1>2, <1>7, <3>2 DEF ForkSound, UnbuiltSound
    <3>4. s.len \in Nat
      BY <1>1 DEF IsSlot
    <3> QED BY <1>4, <1>5, <1>6, <2>1, <3>3, <3>4
  <2>2. CASE ~(Runs(s) /\ s.rm >= 0)
    BY <1>4, <1>5, <2>2
  <2> QED BY <2>1, <2>2
<1>9. \A k \in 1 .. f.len : c[k] = a[k]
  <2>1. Len(c) \in Nat
    BY <1>5
  <2> QED BY <1>4, <1>5, <1>8, <2>1
<1> QED BY <1>4, <1>8, <1>9 DEF f, c, a

LEMMA CacheBuild ==
    ASSUME Shape, CacheSound, EngineBuild
    PROVE  CacheSound'
<1>1. PICK lost : engine_build(lost) /\ (Share => lost = {})
  BY DEF EngineBuild
<1>2. epc = "build" /\ UNCHANGED <<setup, step, victim>>
  BY DEF EngineBuild
<1>3. step = "none" /\ victim = NoSlot /\ \A i \in SlotId : ~slot[i].in_step
  BY <1>2 DEF Shape, StepShape
<1>4. \A i \in SlotId : StepBuilt(slot'[i], slot[i], Keep(i, lost))
  BY <1>1, <1>2, StepBuiltSlots
<1>5. \A i \in SlotId : kv'[i] = BuiltCells(i, lost)
  BY <1>1 DEF engine_build
<1>6. PoolType
  BY DEF CacheSound
<1>7. PoolType'
  <2>1. kv' = [i \in SlotId |-> BuiltCells(i, lost)]
    BY <1>1 DEF engine_build
  <2> QED BY <1>6, <2>1, BuiltCellsType DEF PoolType
<1>8. ASSUME NEW i \in SlotId PROVE SlotSound(setup', i, slot'[i], kv'[i], step', victim')
  <2> DEFINE s == slot[i]
             r == slot'[i]
             a == kv[i]
             b == kv'[i]
             k == Keep(i, lost)
  <2>1. /\ IsSlot(s) /\ ~s.in_step /\ SlotSound(setup, i, s, a, step, victim) /\ StepBuilt(r, s, k) /\ a \in Seq(Nat \X Nat)
        /\ step # "ok" /\ victim # i
    BY <1>3, <1>4, <1>6, SlotsFinite DEF Shape, EngineTypes, CacheSound, PoolType
  <2>2. /\ ~s.busy => s.state = "idle"
        /\ s.rm \in Nat \cup {-1}
    BY <2>1 DEF Shape, FreeClean, IsSlot
  <2>3. CASE ~Runs(s)
    <3>1. b = a
      BY <1>5, <2>3 DEF BuiltCells, TrimmedCells
    <3> HIDE DEF s, r, a, b, k
    <3>2. SlotSound(setup, i, r, a, step, victim)
      BY <2>1, <2>3, BuiltResting
    <3> QED BY <1>2, <3>1, <3>2 DEF r, b
  <2>4. CASE Runs(s) /\ s.src # NoSlot
    <3> DEFINE x == s.src
               from == IF x < i THEN TrimmedCells(x, lost) ELSE kv[x]
               c == CopiedCells(i, lost)
    <3>1. /\ x \in SlotId /\ from \in Seq(Nat \X Nat)
          /\ c \in Seq(Nat \X Nat) /\ Len(c) = IF s.len <= Len(from) THEN s.len ELSE Len(from)
          /\ \A z \in 1 .. Len(c) : c[z] = from[z]
      BY <1>6, <2>4, CopiedCellsFacts
    <3>2. b = c
      BY <1>5, <2>4 DEF BuiltCells
    <3>3. ForkSound(x, slot[x], kv[x], s)
      BY <3>1 DEF CacheSound
    <3>4. s.len \in Nat /\ s.len <= Len(kv[x]) /\ \A z \in 1 .. s.len : kv[x][z][1] = s.prompt[z]
      BY <2>1, <3>3 DEF ForkSound, IsSlot
    <3>5. LET t == TrimmedCells(x, lost) IN s.len <= Len(t) /\ \A z \in 1 .. s.len : t[z] = kv[x][z]
      <4>1. slot[i].src = x /\ x \in SlotId
        BY <3>1
      <4> HIDE DEF x
      <4>2. LET t == TrimmedCells(x, lost) f == slot[i] IN f.len <= Len(t) /\ \A z \in 1 .. f.len : t[z] = kv[x][z]
        BY <1>1, <4>1, TrimKeeps
      <4> QED BY <4>2
    <3>6. s.len <= Len(from) /\ \A z \in 1 .. s.len : from[z] = kv[x][z]
      BY <3>4, <3>5
    <3> HIDE DEF from, c, x
    <3>7. Len(c) = s.len /\ \A z \in 1 .. Len(c) : c[z][1] = s.prompt[z]
      BY <3>1, <3>4, <3>6, ZenonT(40)
    <3>8. s.busy /\ Unbuilt(s) /\ UnbuiltSound(s) /\ s.prompt \in Prompts
      BY <2>1, <2>2, <2>4 DEF SlotSound, Unbuilt
    <3>9. k \in {0, s.len} /\ k \in Nat
      BY <2>4, <3>4, <3>8 DEF Keep, UnbuiltSound, Runs, Live
    <3> HIDE DEF s, r, a, b, k
    <3>10. SlotSound(setup, i, r, c, step, victim)
      BY <2>1, <2>4, <3>7, <3>8, <3>9, BuiltPrefix
    <3> QED BY <1>2, <3>2, <3>10 DEF r, b
  <2>5. CASE Runs(s) /\ s.src = NoSlot /\ s.rm >= 0
    <3> DEFINE c == TrimmedCells(i, lost)
    <3>1. b = c
      BY <1>5, <2>5 DEF BuiltCells
    <3>2. s.busy /\ s.state # "idle"
      BY <2>2, <2>5 DEF Runs, Live
    <3>3. Unbuilt(s) /\ UnbuiltSound(s) /\ s.prompt \in Prompts /\ Held(s, a)
      BY <2>1, <2>5, <3>2 DEF SlotSound, Unbuilt
    <3>4. s.rm = s.len /\ s.count = s.len /\ s.toks = s.prompt /\ s.len \in Nat
      BY <2>1, <2>5, <3>2, <3>3 DEF UnbuiltSound, IsSlot
    <3>5. k \in {0, s.len} /\ k \in Nat
      BY <3>4 DEF Keep
    <3>6. /\ c \in Seq(Nat \X Nat) /\ \A z \in 1 .. Len(c) : c[z] = a[z]
          /\ Len(c) = IF k <= Len(a) THEN k ELSE Len(a)
      BY <1>6, <2>5, TrimmedCellsFacts
    <3> HIDE DEF s, r, a, b, k, c
    <3>7. Len(a) \in Nat /\ s.len <= Len(a) /\ \A z \in 1 .. s.len : a[z][1] = s.prompt[z]
      BY <2>1, <3>3, <3>4 DEF Held
    <3>8. Len(c) = k
      BY <3>4, <3>5, <3>6, <3>7
    <3>9. \A z \in 1 .. Len(c) : c[z][1] = s.prompt[z]
      <4>1. TAKE z \in 1 .. Len(c)
      <4>2. z \in 1 .. s.len
        BY <3>4, <3>5, <3>8
      <4>3. c[z] = a[z]
        BY <3>6
      <4>4. a[z][1] = s.prompt[z]
        BY <3>7, <4>2
      <4> QED BY <4>3, <4>4
    <3>10. SlotSound(setup, i, r, c, step, victim)
      BY <2>1, <2>5, <3>2, <3>3, <3>5, <3>8, <3>9, BuiltPrefix
    <3> QED BY <1>2, <3>1, <3>10 DEF r, b
  <2>6. CASE Runs(s) /\ s.src = NoSlot /\ ~(s.rm >= 0)
    <3>1. b = a
      BY <1>5, <2>6 DEF BuiltCells, TrimmedCells
    <3>2. s.rm = -1 /\ s.busy /\ ~Unbuilt(s)
      BY <2>2, <2>6 DEF Unbuilt, Runs, Live
    <3> HIDE DEF s, r, a, b, k
    <3>3. SlotSound(setup, i, r, a, step, victim)
      BY <2>1, <2>6, <3>2, BuiltRunning
    <3> QED BY <1>2, <3>1, <3>3 DEF r, b
  <2> QED BY <2>3, <2>4, <2>5, <2>6
<1>9. ASSUME NEW i \in SlotId, NEW j \in SlotId PROVE ForkSound(i, slot'[i], kv'[i], slot'[j])
  <2> SUFFICES ASSUME slot'[j].src = i PROVE ForkSound(i, slot'[i], kv'[i], slot'[j])
    BY DEF ForkSound
  <2> DEFINE s == slot[i]
             r == slot'[i]
             f == slot[j]
             g == slot'[j]
             a == kv[i]
             b == kv'[i]
  <2>1. f.src = i /\ g.len = f.len /\ g.prompt = f.prompt
    BY <1>4, SlotsFinite DEF StepBuilt, SameRequest
  <2>2. ForkSound(i, s, a, f)
    BY DEF CacheSound
  <2>3. s.src = NoSlot
    BY <2>1, <2>2 DEF ForkSound
  <2>4. b = TrimmedCells(i, lost)
    BY <1>5, <2>3 DEF BuiltCells
  <2>5. f.len <= Len(b) /\ \A k \in 1 .. f.len : b[k] = a[k]
    BY <1>1, <2>1, <2>4, TrimKeeps
  <2>6. /\ r.src = NoSlot /\ r.len = s.len /\ r.busy = s.busy /\ r.prompt = s.prompt
        /\ Unbuilt(r) => Unbuilt(s)
    <3>1. StepBuilt(r, s, Keep(i, lost))
      BY <1>4
    <3> HIDE DEF r, s
    <3> QED BY <2>3, <3>1 DEF StepBuilt, SameRequest, Unbuilt, Runs, Live
  <2> HIDE DEF s, r, f, g, a, b
  <2>7. ForkSound(i, r, b, g)
    BY <2>1, <2>2, <2>5, <2>6, ForkKept
  <2> QED BY <2>7 DEF r, b, g
<1> QED BY <1>7, <1>8, <1>9 DEF CacheSound

-----------------------------------------------------------------------------
(* The cells after a step                                                   *)

LEMMA DraftCapBound ==
    ASSUME NEW s, IsSlot(s), NEW n \in Nat, n <= DraftCap(s), s.state = "decode", s.produced <= MaxNew - 1
    PROVE  n <= MaxNew - s.produced - 1
<1> DEFINE M == {MtpDraft, Ring - s.ring - 1, MaxNew - s.produced - 1}
           a == Min(M)
           b == MaxNew - s.produced - 1
<1>0. s.ring \in Nat /\ s.produced \in Nat /\ MtpDraft \in Nat /\ Ring \in Nat /\ MaxNew \in Nat
  BY LlmAssumption DEF IsSlot
<1>1. MtpDraft \in Int /\ Ring - s.ring - 1 \in Int /\ b \in Int /\ b >= 0
  BY <1>0
<1>2. IsFiniteSet(M)
  <2>1. M = ({MtpDraft} \cup {Ring - s.ring - 1}) \cup {MaxNew - s.produced - 1}
    OBVIOUS
  <2>2. IsFiniteSet({MtpDraft}) /\ IsFiniteSet({Ring - s.ring - 1}) /\ IsFiniteSet({MaxNew - s.produced - 1})
    BY FS_Singleton
  <2>3. IsFiniteSet({MtpDraft} \cup {Ring - s.ring - 1})
    BY <2>2, FS_Union
  <2> QED BY <2>1, <2>2, <2>3, FS_Union, ZenonT(40)
<1>3. a \in M /\ a <= b
  <2>1. \A x \in M : x \in Int
    BY <1>1
  <2>2. b \in M
    OBVIOUS
  <2> HIDE DEF M, b
  <2> QED BY <1>2, <2>1, <2>2, LeastElement
<1>4. a \in Int
  BY <1>1, <1>3
<1>5. DraftCap(s) = Max({0, a})
  BY DEF DraftCap
<1> HIDE DEF a, M
<1>6. Max({0, a}) \in {0, a}
  <2>1. \E m \in {0, a} : \A y \in {0, a} : m >= y
    BY <1>4
  <2> QED BY <2>1 DEF Max
<1>7. n <= b
  BY <1>1, <1>3, <1>4, <1>5, <1>6
<1> QED BY <1>7

\* Cells b are cells a and what a decode of slot s with n drafts appends
Appended(s, a, b, n) ==
    /\ b \in Seq(Nat \X Nat) /\ Len(a) <= Len(b) /\ \A k \in 1 .. Len(a) : b[k] = a[k]
    /\ ~s.in_step => b = a
    /\ s.in_step /\ s.state = "prefill" =>
         Len(b) = Len(a) + s.chunk /\ \A k \in 1 .. s.chunk : b[Len(a) + k][1] = s.prompt[s.done + k]
    /\ s.in_step /\ s.state = "decode" =>
         Len(b) = Len(a) + 1 + n /\ \A k \in 1 .. 1 + n : b[Len(a) + k][1] = 0

\* The cells a sequence has after its part of the step: a row with d drafts, or a chunk
LEMMA DecodedCells ==
    ASSUME Shape, CacheSound, NEW d, NEW i \in SlotId, d[i] \in Nat
    PROVE  Appended(slot[i], kv[i], Decoded(d)[i], d[i])
<1> DEFINE s == slot[i]
           a == kv[i]
           b == Decoded(d)[i]
           n == d[i]
           zp == [k \in 1 .. s.chunk |-> <<s.prompt[s.done + k], s.order>>]
           zd == [k \in 1 .. 1 + n |-> <<0, s.order>>]
<1>1. /\ IsSlot(s) /\ a \in Seq(Nat \X Nat) /\ n \in Nat
      /\ s.in_step => Live(s)
      /\ s.state = "prefill" /\ s.in_step => s.chunk <= Len(s.prompt) - s.done
  BY DEF Shape, EngineTypes, StepShape, Bounds, CacheSound, PoolType
<1>2. b = IF ~s.in_step THEN a ELSE IF s.state = "prefill" THEN a \o zp ELSE a \o zd
  BY DEF Decoded
<1> HIDE DEF s, a, b, n
<1>3. s.chunk \in Nat /\ s.done \in Nat /\ s.order \in Nat /\ Len(a) \in Nat /\ s.prompt \in Seq(Nat) /\ Len(s.prompt) \in Nat
  BY <1>1, SMTT(40) DEF IsSlot
<1>4. CASE ~s.in_step
  <2>1. b = a
    BY <1>2, <1>4
  <2>2. /\ b \in Seq(Nat \X Nat) /\ Len(a) <= Len(b) /\ \A k \in 1 .. Len(a) : b[k] = a[k]
    BY <1>1, <1>3, <2>1
  <2>3. Appended(s, a, b, n)
    BY <1>4, <2>1, <2>2 DEF Appended
  <2> QED BY <2>3 DEF s, a, b, n
<1>5. CASE s.in_step
  <2> DEFINE m == IF s.state = "prefill" THEN s.chunk ELSE 1 + n
             z == IF s.state = "prefill" THEN zp ELSE zd
  <2>1. b = a \o z
    BY <1>2, <1>5
  <2>2. s.state = "prefill" => \A k \in 1 .. s.chunk : s.prompt[s.done + k] \in Nat
    <3>1. s.state = "prefill" => \A k \in 1 .. s.chunk : s.done + k \in 1 .. Len(s.prompt)
      BY <1>1, <1>3, <1>5, SMTT(40)
    <3> QED BY <1>3, <3>1, SMTT(40)
  <2>3. m \in Nat
    BY <1>1, <1>3
  <2>4. z \in [1 .. m -> Nat \X Nat]
    <3>1. CASE s.state = "prefill"
      BY <1>3, <2>2, <3>1
    <3>2. CASE s.state # "prefill"
      BY <1>3, <3>2
    <3> QED BY <3>1, <3>2
  <2>5. s.state = "prefill" => m = s.chunk /\ \A k \in 1 .. m : z[k][1] = s.prompt[s.done + k]
    OBVIOUS
  <2>6. s.state # "prefill" => m = 1 + n /\ \A k \in 1 .. m : z[k][1] = 0
    OBVIOUS
  <2> HIDE DEF m, z
  <2>7. z \in Seq(Nat \X Nat) /\ Len(z) = m
    BY <2>3, <2>4
  <2>8. /\ b \in Seq(Nat \X Nat) /\ Len(b) = Len(a) + m
        /\ \A k \in 1 .. Len(a) + m : b[k] = IF k <= Len(a) THEN a[k] ELSE z[k - Len(a)]
    BY <1>1, <2>1, <2>7, ConcatProperties
  <2>9. ASSUME NEW k \in 1 .. Len(a) PROVE b[k] = a[k]
    <3>1. k \in 1 .. Len(a) + m /\ k <= Len(a)
      BY <1>3, <2>3
    <3> QED BY <2>8, <3>1
  <2>10. ASSUME NEW k \in 1 .. m PROVE b[Len(a) + k] = z[k]
    <3> DEFINE q == Len(a) + k
    <3>1. q \in 1 .. Len(a) + m /\ ~(q <= Len(a)) /\ q - Len(a) = k
      BY <1>3, <2>3
    <3> HIDE DEF q
    <3>2. b[q] = z[q - Len(a)]
      BY <2>8, <3>1
    <3>3. b[q] = z[k]
      BY <3>1, <3>2
    <3> QED BY <3>3 DEF q
  <2>11. Len(a) <= Len(b)
    BY <1>3, <2>3, <2>8
  <2>12. s.state = "prefill" =>
           Len(b) = Len(a) + s.chunk /\ \A k \in 1 .. s.chunk : b[Len(a) + k][1] = s.prompt[s.done + k]
    BY <2>5, <2>8, <2>10
  <2>13. s.state = "decode" => Len(b) = Len(a) + 1 + n /\ \A k \in 1 .. 1 + n : b[Len(a) + k][1] = 0
    <3> SUFFICES ASSUME s.state = "decode" PROVE Len(b) = Len(a) + 1 + n /\ \A k \in 1 .. 1 + n : b[Len(a) + k][1] = 0
      OBVIOUS
    <3>1. m = 1 + n /\ \A k \in 1 .. 1 + n : b[Len(a) + k][1] = 0
      BY <2>6, <2>10
    <3>2. n \in Nat /\ Len(a) \in Nat /\ Len(b) = Len(a) + (1 + n)
      BY <1>1, <1>3, <2>8, <3>1
    <3>3. Len(b) = Len(a) + 1 + n
      BY <3>2
    <3> QED BY <3>1, <3>3
  <2>14. Appended(s, a, b, n)
    BY <1>5, <2>8, <2>9, <2>11, <2>12, <2>13 DEF Appended
  <2> QED BY <2>14 DEF s, a, b, n
<1> QED BY <1>4, <1>5

\* A slot of the step once it is decoded
LEMMA SoundDecoded ==
    ASSUME NEW u, NEW i, NEW s, IsSlot(s), NEW r, NEW a, NEW b, NEW st, NEW v, st # "ok", v # i, s.in_step, Live(s), s.busy,
           Len(a) \in Nat, Len(b) \in Nat, NEW n \in Nat,
           SlotSound(u, i, s, a, st, v), Alike(r, s), r.in_step, r.chunk = s.chunk, r.draft = n,
           \A k \in 1 .. Len(a) : b[k] = a[k], Len(a) <= Len(b),
           s.state = "prefill" => n = 0 /\ Len(b) = Len(a) + s.chunk /\ \A k \in 1 .. s.chunk : b[Len(a) + k][1] = s.prompt[s.done + k],
           s.state = "decode" => Len(b) = Len(a) + 1 + n /\ (\A k \in 1 .. 1 + n : b[Len(a) + k][1] = 0)
                                 /\ (s.produced <= MaxNew - 1 => n <= MaxNew - s.produced - 1)
    PROVE  SlotSound(u, i, r, b, "ok", v)
<1>1. ~Unbuilt(s) /\ BuiltSound(i, s, a, st, v)
  BY DEF SlotSound, UnbuiltSound
<1>2. ~Unbuilt(r) /\ r.busy /\ r.prompt \in Prompts /\ r.src = NoSlot
  BY <1>1 DEF SlotSound, Alike, Unbuilt
<1>3. s.prompt \in Seq(Nat) /\ Len(s.prompt) \in Nat /\ s.done \in Nat /\ s.chunk \in Nat /\ s.past \in Nat /\ s.produced \in Nat /\ s.count \in Nat
  BY SMTT(40) DEF IsSlot
<1>4. Held(r, b)
  <2>1. Held(s, a)
    BY DEF SlotSound
  <2>2. \A k \in 1 .. s.count : k \in 1 .. Len(a)
    BY <1>3, <2>1 DEF Held
  <2> QED BY <1>3, <2>1, <2>2, SMTT(40) DEF Held, Alike
<1>5. CASE s.state = "prefill"
  <2>1. PrefillSound(i, s, Len(a), st, v)
    BY <1>1, <1>5 DEF BuiltSound
  <2>2. Len(a) = s.done /\ s.chunk \in 1 .. Len(s.prompt) - s.done /\ Len(b) = s.done + s.chunk
    BY <1>5, <2>1 DEF PrefillSound, Stepped
  <2>3. ASSUME NEW k \in 1 .. Len(b) PROVE b[k][1] = Word(s, k)
    <3>1. CASE k <= Len(a)
      BY <1>1, <3>1 DEF BuiltSound
    <3>2. CASE ~(k <= Len(a))
      <4>1. k - Len(a) \in 1 .. s.chunk /\ Len(a) + (k - Len(a)) = k /\ s.done + (k - Len(a)) = k /\ k <= Len(s.prompt)
        <5> DEFINE m == Len(a)
                   o == Len(s.prompt)
        <5>1. /\ k \in 1 .. s.done + s.chunk /\ m = s.done /\ ~(k <= m) /\ s.done \in Nat /\ o \in Nat /\ s.chunk \in Nat
              /\ s.chunk <= o - s.done
          BY <1>3, <2>2, <3>2
        <5> HIDE DEF m, o
        <5>2. k - m \in 1 .. s.chunk /\ m + (k - m) = k /\ s.done + (k - m) = k /\ k <= o
          BY ONLY <5>1
        <5> QED BY <5>2 DEF m, o
      <4>2. b[k][1] = s.prompt[k]
        BY <1>5, <4>1
      <4> QED BY <4>1, <4>2 DEF Word
    <3> QED BY <3>1, <3>2
  <2>4. PrefillSound(i, r, Len(b), "ok", v)
    BY <1>5, <2>1, <2>2 DEF PrefillSound, Alike, Stepped
  <2>5. BuiltSound(i, r, b, "ok", v)
    BY <1>1, <1>5, <2>3, <2>4 DEF BuiltSound, Alike, Word
  <2> QED BY <1>2, <1>4, <2>5 DEF SlotSound
<1>6. CASE s.state = "decode"
  <2>1. DecodeSound(i, s, Len(a), st, v)
    BY <1>1, <1>6 DEF BuiltSound
  <2>2. /\ Len(a) = s.past /\ s.produced \in 1 .. MaxNew - 1 /\ s.past = Len(s.prompt) + s.produced - 1
        /\ n <= MaxNew - s.produced - 1 /\ Len(b) = s.past + 1 + n
    BY <1>6, <2>1, LlmAssumption DEF DecodeSound, Stepped
  <2>3. ASSUME NEW k \in 1 .. Len(b) PROVE b[k][1] = Word(s, k)
    <3>1. CASE k <= Len(a)
      BY <1>1, <3>1 DEF BuiltSound
    <3>2. CASE ~(k <= Len(a))
      <4>1. k - Len(a) \in 1 .. 1 + n /\ Len(a) + (k - Len(a)) = k /\ ~(k <= Len(s.prompt))
        <5> DEFINE m == Len(a)
                   o == Len(s.prompt)
                   g == s.produced
        <5>1. /\ k \in Int /\ k <= m + 1 + n /\ ~(k <= m) /\ m \in Int /\ o \in Int /\ n \in Int
              /\ g \in Int /\ g >= 1 /\ m = o + g - 1
          BY <1>3, <2>2, <3>2, LlmAssumption
        <5> HIDE DEF m, o, g
        <5>2. k - m \in 1 .. 1 + n /\ m + (k - m) = k
          BY ONLY <5>1
        <5>3. ~(k <= o)
          BY ONLY <5>1
        <5> QED BY <5>2, <5>3 DEF m, o
      <4>2. b[k][1] = 0
        BY <1>6, <4>1
      <4> QED BY <4>1, <4>2 DEF Word
    <3> QED BY <3>1, <3>2
  <2>4. DecodeSound(i, r, Len(b), "ok", v)
    BY <1>6, <2>1, <2>2, LlmAssumption DEF DecodeSound, Alike, Stepped
  <2>5. BuiltSound(i, r, b, "ok", v)
    BY <1>1, <1>6, <2>3, <2>4 DEF BuiltSound, Alike, Word
  <2> QED BY <1>2, <1>4, <2>5 DEF SlotSound
<1> QED BY <1>5, <1>6 DEF Live

LEMMA DraftAlike ==
    ASSUME NEW s, IsSlot(s), NEW n
    PROVE  LET r == [s EXCEPT !.draft = n] IN Alike(r, s) /\ r.in_step = s.in_step /\ r.chunk = s.chunk /\ r.draft = n
BY DEF IsSlot, Fields, Alike

LEMMA CacheDecode ==
    ASSUME Shape, CacheSound, EngineDecode
    PROVE  CacheSound'
<1>1. epc = "decode" /\ UNCHANGED <<setup, victim>>
  BY DEF EngineDecode
<1>2. step = "none" /\ victim = NoSlot
  BY <1>1 DEF Shape, StepShape
<1>3. PICK d \in Drafts :
         \/ step' = "ok" /\ slot' = [i \in SlotId |-> [slot[i] EXCEPT !.draft = d[i]]] /\ kv' = Decoded(d)
         \/ step' = "error" /\ UNCHANGED <<slot, kv>>
  BY DEF EngineDecode
<1>4. \A i \in SlotId : d[i] \in Nat /\ (slot[i].in_step => d[i] <= DraftCap(slot[i]))
  <2>1. d \in [SlotId -> 0 .. MtpDraft] /\ MtpDraft \in Nat /\ \A i \in SlotId : d[i] <= IF i \in InStep THEN DraftCap(slot[i]) ELSE 0
    BY LlmAssumption DEF Drafts
  <2> QED BY <2>1 DEF InStep
<1>5. CASE step' = "error" /\ UNCHANGED <<slot, kv>>
  <2>1. ASSUME NEW i \in SlotId PROVE SlotSound(setup', i, slot'[i], kv'[i], step', victim')
    <3>1. SlotSound(setup, i, slot[i], kv[i], step, victim) /\ victim # i
      BY <1>2, SlotsFinite DEF CacheSound
    <3>2. SlotSound(setup, i, slot[i], kv[i], "error", victim)
      BY <1>2, <3>1, SoundUnstepped DEF Stepped, Alike
    <3> QED BY <1>1, <1>5, <3>2
  <2> QED BY <1>5, <2>1 DEF CacheSound, PoolType
<1>6. CASE step' = "ok" /\ slot' = [i \in SlotId |-> [slot[i] EXCEPT !.draft = d[i]]] /\ kv' = Decoded(d)
  <2>1. \A i \in SlotId : IsSlot(slot[i])
    BY DEF Shape, EngineTypes
  <2>2. ASSUME NEW i \in SlotId
        PROVE  /\ Alike(slot'[i], slot[i]) /\ slot'[i].in_step = slot[i].in_step
               /\ slot'[i].chunk = slot[i].chunk /\ slot'[i].draft = d[i]
    <3> DEFINE s == slot[i]
               n == d[i]
    <3>1. slot'[i] = [s EXCEPT !.draft = n] /\ IsSlot(s)
      BY <1>6, <2>1
    <3> HIDE DEF s, n
    <3> QED BY <3>1, DraftAlike DEF s, n
  <2>3. ASSUME NEW i \in SlotId
        PROVE  LET s == slot[i] a == kv[i] b == kv'[i] IN
           /\ b \in Seq(Nat \X Nat) /\ Len(a) <= Len(b) /\ \A k \in 1 .. Len(a) : b[k] = a[k]
           /\ ~s.in_step => b = a
           /\ s.in_step /\ s.state = "prefill" =>
                Len(b) = Len(a) + s.chunk /\ \A k \in 1 .. s.chunk : b[Len(a) + k][1] = s.prompt[s.done + k]
           /\ s.in_step /\ s.state = "decode" =>
                Len(b) = Len(a) + 1 + d[i] /\ \A k \in 1 .. 1 + d[i] : b[Len(a) + k][1] = 0
    <3>1. d[i] \in Nat
      BY <1>4
    <3>2. Appended(slot[i], kv[i], Decoded(d)[i], d[i])
      BY <3>1, DecodedCells
    <3>3. kv'[i] = Decoded(d)[i]
      BY <1>6
    <3>4. Appended(slot[i], kv[i], kv'[i], d[i])
      BY <3>2, <3>3
    <3> QED BY <3>4 DEF Appended
  <2>4. PoolType'
    <3>1. DOMAIN kv' = SlotId /\ kv' = [i \in SlotId |-> kv'[i]]
      BY <1>6 DEF Decoded
    <3> QED BY <2>3, <3>1 DEF PoolType
  <2>5. ASSUME NEW i \in SlotId PROVE SlotSound(setup', i, slot'[i], kv'[i], step', victim')
    <3> DEFINE s == slot[i]
               r == slot'[i]
               a == kv[i]
               b == kv'[i]
               n == d[i]
    <3>1. /\ SlotSound(setup, i, s, a, step, victim) /\ victim # i /\ step # "ok" /\ IsSlot(s) /\ n \in Nat
          /\ Len(a) \in Nat /\ Len(b) \in Nat
      <4>1. kv[i] \in Seq(Nat \X Nat) /\ kv'[i] \in Seq(Nat \X Nat)
        BY <2>3 DEF CacheSound, PoolType
      <4> QED BY <1>2, <1>4, <2>1, <4>1, SlotsFinite DEF CacheSound
    <3>2. s.in_step => s.busy /\ Live(s)
      BY DEF Shape, StepShape, FreeClean, Live
    <3>3. Alike(r, s) /\ r.in_step = s.in_step /\ r.chunk = s.chunk /\ r.draft = n
      BY <2>2
    <3>4. CASE ~s.in_step
      <4>1. b = a
        BY <2>3, <3>4
      <4> HIDE DEF s, r, a, b
      <4>2. SlotSound(setup, i, r, a, "ok", victim)
        BY <3>1, <3>3, <3>4, SoundUnstepped DEF Stepped
      <4> QED BY <1>1, <1>6, <4>1, <4>2 DEF r, b
    <3>5. CASE s.in_step
      <4>1. s.state = "prefill" => n = 0
        <5>1. n <= DraftCap(s)
          BY <1>4, <3>5
        <5> QED BY <3>1, <5>1 DEF DraftCap
      <4>2. s.state = "decode" => (s.produced <= MaxNew - 1 => n <= MaxNew - s.produced - 1)
        <5>1. n <= DraftCap(s)
          BY <1>4, <3>5
        <5> HIDE DEF s, n
        <5> QED BY <3>1, <5>1, DraftCapBound
      <4>3. /\ \A k \in 1 .. Len(a) : b[k] = a[k] /\ Len(a) <= Len(b)
            /\ Len(a) <= Len(b)
            /\ s.state = "prefill" => Len(b) = Len(a) + s.chunk /\ \A k \in 1 .. s.chunk : b[Len(a) + k][1] = s.prompt[s.done + k]
            /\ s.state = "decode" => Len(b) = Len(a) + 1 + n /\ \A k \in 1 .. 1 + n : b[Len(a) + k][1] = 0
        BY <2>3, <3>5
      <4> HIDE DEF s, r, a, b, n
      <4>4. SlotSound(setup, i, r, b, "ok", victim)
        BY <3>1, <3>2, <3>3, <3>5, <4>1, <4>2, <4>3, SoundDecoded
      <4> QED BY <1>1, <1>6, <4>4 DEF r, b
    <3> QED BY <3>4, <3>5
  <2>6. ASSUME NEW i \in SlotId, NEW j \in SlotId PROVE ForkSound(i, slot'[i], kv'[i], slot'[j])
    <3> DEFINE a == kv[i]
               b == kv'[i]
               f == slot[j]
    <3>1. ForkSound(i, slot[i], a, f) /\ Alike(slot'[i], slot[i]) /\ Alike(slot'[j], f)
      BY <2>2 DEF CacheSound
    <3>2. f.len \in Nat /\ Len(a) \in Nat /\ Len(b) \in Nat /\ Len(a) <= Len(b) /\ \A k \in 1 .. Len(a) : b[k] = a[k]
      <4>1. a \in Seq(Nat \X Nat) /\ IsSlot(f)
        BY <2>1 DEF CacheSound, PoolType
      <4>2. b \in Seq(Nat \X Nat) /\ Len(a) <= Len(b) /\ \A k \in 1 .. Len(a) : b[k] = a[k]
        BY <2>3
      <4> HIDE DEF a, b, f
      <4>3. f.len \in Nat
        BY <4>1 DEF IsSlot
      <4> QED BY <4>1, <4>2, <4>3
    <3> HIDE DEF a, b, f
    <3>3. f.src = i => f.len <= Len(b) /\ \A k \in 1 .. f.len : b[k][1] = a[k][1]
      BY <3>1, <3>2 DEF ForkSound
    <3>4. ForkSound(i, slot'[i], b, slot'[j])
      BY <3>1, <3>3, ForkKept DEF Alike, Unbuilt
    <3> QED BY <3>4 DEF b
  <2> QED BY <2>4, <2>5, <2>6 DEF CacheSound
<1> QED BY <1>3, <1>5, <1>6

\* A slot nobody has pinned has no pending fork
LEMMA NoForks ==
    ASSUME Shape, NEW v \in SlotId, slot[v].pins = 0
    PROVE  \A j \in SlotId : slot[j].src # v
<1> DEFINE F == {j \in SlotId : slot[j].src = v}
<1>1. Cardinality(F) = 0 /\ IsFiniteSet(F)
  BY SlotsFinite, FS_Subset DEF Shape, PinsExact
<1>2. F = {}
  BY <1>1, FS_EmptySet
<1> QED BY <1>2

\* One slot that nobody forks from loses its cells
LEMMA CacheEmptied ==
    ASSUME Shape, CacheSound, NEW v \in SlotId, slot[v].pins = 0, slot' = [slot EXCEPT ![v].count = 0],
           kv' = [kv EXCEPT ![v] = <<>>], setup' = setup, epc = "decode",
           \/ ~slot[v].busy /\ UNCHANGED <<step, victim>>
           \/ slot[v].in_step /\ step' = "full" /\ victim' = v
    PROVE  CacheSound'
<1>1. step = "none" /\ victim = NoSlot
  BY DEF Shape, StepShape
<1>2. \A i \in SlotId : LET r == slot'[i] s == slot[i] IN
        /\ IsSlot(r) /\ Kin(r, s) /\ r.state = s.state /\ r.in_step = s.in_step /\ r.done = s.done /\ r.past = s.past
        /\ r.produced = s.produced /\ r.failed = s.failed /\ r.draft = s.draft
        /\ r.count = IF i = v THEN 0 ELSE s.count
  BY EmptiedSlots
<1>3. \A i \in SlotId : i # v => Alike(slot'[i], slot[i]) /\ slot'[i].in_step = slot[i].in_step /\ slot'[i].chunk = slot[i].chunk
  BY <1>2 DEF Kin, Alike
<1>4. kv'[v] = <<>> /\ \A i \in SlotId : i # v => kv'[i] = kv[i]
  BY DEF CacheSound, PoolType
<1>5. PoolType'
  <2>1. <<>> \in Seq(Nat \X Nat)
    OBVIOUS
  <2> QED BY <2>1 DEF CacheSound, PoolType
<1>6. ASSUME NEW i \in SlotId PROVE SlotSound(setup', i, slot'[i], kv'[i], step', victim')
  <2>1. CASE i # v
    <3>1. SlotSound(setup, i, slot[i], kv[i], step, victim) /\ victim # i /\ victim' # i /\ step # "ok" /\ step' # "ok"
      BY <1>1, <2>1, SlotsFinite DEF CacheSound
    <3>2. SlotSound(setup, i, slot'[i], kv[i], step', victim')
      BY <1>3, <2>1, <3>1, SoundUnstepped DEF Stepped
    <3> QED BY <1>4, <2>1, <3>2
  <2>2. CASE i = v
    <3> DEFINE s == slot[v]
               r == slot'[v]
               b == kv'[v]
    <3>1. /\ SlotSound(setup, v, s, kv[v], step, victim) /\ IsSlot(s) /\ b = <<>> /\ r.count = 0
          /\ ~s.busy => s.src = NoSlot
          /\ s.in_step => s.busy /\ Live(s)
      BY <1>2, <1>4 DEF CacheSound, Shape, EngineTypes, FreeClean, StepShape, Live
    <3>2. /\ Kin(r, s) /\ r.state = s.state /\ r.in_step = s.in_step /\ r.done = s.done /\ r.past = s.past
          /\ r.produced = s.produced /\ r.failed = s.failed /\ r.draft = s.draft
      BY <1>2
    <3>3. \/ ~s.busy
          \/ s.in_step /\ step' = "full" /\ victim' = v
      OBVIOUS
    <3> HIDE DEF s, r, b
    <3>4. Held(r, b)
      <4>1. Len(s.toks) \in Nat /\ r.toks = s.toks /\ Len(b) = 0
        BY <3>1, <3>2 DEF IsSlot, Kin
      <4> QED BY <3>1, <4>1 DEF Held
    <3>5. CASE ~s.busy
      <4>1. SlotSound(setup, v, r, b, step', victim')
        BY <3>1, <3>2, <3>4, <3>5 DEF SlotSound, Kin, Unbuilt
      <4> QED BY <2>2, <4>1 DEF r, b
    <3>6. CASE s.in_step /\ step' = "full" /\ victim' = v
      <4>1. s.busy /\ Live(s) /\ ~Unbuilt(s) /\ BuiltSound(v, s, kv[v], step, victim)
        BY <3>1, <3>6 DEF SlotSound, UnbuiltSound
      <4>2. r.state = "prefill" => PrefillSound(v, r, Len(b), "full", v)
        BY <3>1, <3>2, <4>1 DEF BuiltSound, PrefillSound, Kin, Stepped
      <4>3. r.state = "decode" => DecodeSound(v, r, Len(b), "full", v)
        BY <3>1, <3>2, <4>1 DEF BuiltSound, DecodeSound, Kin, Stepped
      <4>4. r.state # "done"
        BY <3>2, <4>1 DEF Live
      <4>5. BuiltSound(v, r, b, "full", v)
        BY <3>1, <3>2, <4>1, <4>2, <4>3, <4>4 DEF BuiltSound, Kin
      <4>6. ~Unbuilt(r) /\ r.prompt \in Prompts /\ r.src = NoSlot
        BY <3>1, <3>2, <4>1 DEF SlotSound, Kin, Unbuilt
      <4>7. SlotSound(setup, v, r, b, "full", v)
        BY <3>4, <4>5, <4>6 DEF SlotSound
      <4> QED BY <2>2, <3>6, <4>7 DEF r, b
    <3> QED BY <3>3, <3>5, <3>6
  <2> QED BY <2>1, <2>2
<1>7. ASSUME NEW i \in SlotId, NEW j \in SlotId PROVE ForkSound(i, slot'[i], kv'[i], slot'[j])
  <2>1. slot'[j].src = slot[j].src /\ slot'[j].len = slot[j].len /\ slot'[j].prompt = slot[j].prompt
    BY <1>2 DEF Kin
  <2>2. CASE i = v
    <3>1. slot[j].src # v
      BY NoForks
    <3> QED BY <2>1, <2>2, <3>1 DEF ForkSound
  <2>3. CASE i # v
    <3>1. ForkSound(i, slot[i], kv[i], slot[j]) /\ Alike(slot'[i], slot[i]) /\ kv'[i] = kv[i]
      BY <1>3, <1>4, <2>3 DEF CacheSound
    <3> QED BY <2>1, <3>1 DEF ForkSound, Alike, Unbuilt
  <2> QED BY <2>2, <2>3
<1> QED BY <1>5, <1>6, <1>7 DEF CacheSound

LEMMA CacheEvict ==
    ASSUME Shape, CacheSound, EngineEvict
    PROVE  CacheSound'
<1> DEFINE v == Oldest(Evictable)
<1>1. v \in Evictable /\ v \in SlotId
  BY OldestIn DEF EngineEvict
<1>2. slot[v].pins = 0 /\ ~slot[v].busy
  BY <1>1 DEF Evictable
<1>3. /\ slot' = [slot EXCEPT ![v].count = 0] /\ kv' = [kv EXCEPT ![v] = <<>>]
      /\ UNCHANGED <<setup, step, victim>> /\ epc = "decode"
  BY DEF EngineEvict
<1> HIDE DEF v
<1> QED BY <1>1, <1>2, <1>3, CacheEmptied

LEMMA CachePreempt ==
    ASSUME Shape, CacheSound, EnginePreempt, slot[Preempted].pins = 0
    PROVE  CacheSound'
<1> DEFINE v == Preempted
<1>1. /\ slot' = [slot EXCEPT ![v].count = 0] /\ kv' = [kv EXCEPT ![v] = <<>>]
      /\ setup' = setup /\ epc = "decode" /\ step' = "full" /\ victim' = v
  BY DEF EnginePreempt
<1>2. v \in SlotId /\ slot[v].in_step
  BY <1>1, PreemptedIn
<1> HIDE DEF v
<1> QED BY <1>1, <1>2, CacheEmptied DEF v

\* A slot of a step that failed
LEMMA SoundHalted ==
    ASSUME NEW u, NEW i, NEW s, IsSlot(s), NEW r, NEW a, NEW st, NEW v, NEW w, st # "ok", w # i, s.in_step => s.busy /\ Live(s),
           SlotSound(u, i, s, a, st, v), Halted(r, s), v = i => s.in_step /\ (r.state = "done" \/ r.done = 0),
           r.state # "done" /\ r.done # s.done => v = i
    PROVE  SlotSound(u, i, r, a, "none", w)
<1>1. /\ Kin(r, s) /\ ~r.in_step /\ r.count = s.count /\ r.produced = s.produced /\ IsSlot(r)
      /\ \/ r.state = s.state /\ r.done = s.done /\ r.past = s.past /\ r.failed = s.failed
         \/ s.in_step /\ r.state = "done" /\ r.failed
         \/ s.in_step /\ s.state = "prefill" /\ r.state = "prefill" /\ r.done = 0 /\ r.failed = s.failed
  BY DEF Halted
<1>2. CASE ~s.in_step
  <2>1. Alike(r, s) /\ v # i
    BY <1>1, <1>2 DEF Alike, Kin
  <2> QED BY <1>1, <2>1, SoundUnstepped DEF Stepped
<1>3. CASE s.in_step
  <2>1. s.busy /\ Live(s) /\ ~Unbuilt(s) /\ BuiltSound(i, s, a, st, v)
    BY <1>3 DEF SlotSound, UnbuiltSound
  <2>2. Held(r, a) /\ ~Unbuilt(r) /\ r.prompt \in Prompts /\ r.src = NoSlot /\ r.state # "idle" /\ \A k : Word(r, k) = Word(s, k)
    BY <1>1, <2>1 DEF SlotSound, Kin, Unbuilt, Held, Live, Word
  <2>3. r.state = "prefill" => PrefillSound(i, r, Len(a), "none", w)
    <3> SUFFICES ASSUME r.state = "prefill" PROVE PrefillSound(i, r, Len(a), "none", w)
      OBVIOUS
    <3>1. s.state = "prefill" /\ PrefillSound(i, s, Len(a), st, v)
      BY <1>1, <2>1 DEF BuiltSound
    <3>2. Len(a) = IF v = i THEN 0 ELSE s.done
      BY <3>1 DEF PrefillSound, Stepped
    <3>3. Len(a) = r.done
      BY <1>1, <3>2
    <3>4. r.done < Len(r.prompt)
      <4>1. r.done \in {0, s.done} /\ r.prompt = s.prompt
        BY <1>1, <3>1 DEF Kin
      <4>2. s.done \in Nat /\ Len(s.prompt) \in Nat
        BY DEF IsSlot
      <4> QED BY <3>1, <4>1, <4>2 DEF PrefillSound
    <3> QED BY <1>1, <3>1, <3>3, <3>4 DEF PrefillSound, Stepped
  <2>4. r.state = "decode" => DecodeSound(i, r, Len(a), "none", w)
    <3> SUFFICES ASSUME r.state = "decode" PROVE DecodeSound(i, r, Len(a), "none", w)
      OBVIOUS
    <3>1. s.state = "decode" /\ r.done = s.done /\ r.past = s.past /\ DecodeSound(i, s, Len(a), st, v)
      BY <1>1, <2>1 DEF BuiltSound
    <3>2. v # i
      <4>1. s.prompt \in Seq(Nat) /\ Len(s.prompt) > 0
        <5>1. s.prompt \in Prompts
          BY <2>1 DEF SlotSound
        <5> QED BY <5>1, LlmAssumption
      <4> QED BY <3>1, <4>1 DEF DecodeSound
    <3> QED BY <1>1, <3>1, <3>2 DEF DecodeSound, Stepped, Kin
  <2>5. r.state = "done" => DoneSound(r, Len(a))
    BY <1>1, <2>1 DEF DoneSound, Live
  <2>6. BuiltSound(i, r, a, "none", w)
    BY <1>1, <2>1, <2>2, <2>3, <2>4, <2>5 DEF BuiltSound, Kin
  <2> QED BY <2>2, <2>6 DEF SlotSound
<1> QED BY <1>2, <1>3

LEMMA ForkHalted ==
    ASSUME NEW i, NEW s, NEW r, NEW a, NEW f, NEW g, ForkSound(i, s, a, f), Halted(r, s), Halted(g, f), s.in_step => Live(s)
    PROVE  ForkSound(i, r, a, g)
<1>1. /\ r.src = s.src /\ r.len = s.len /\ r.busy = s.busy /\ r.prompt = s.prompt /\ r.rm = s.rm
      /\ g.src = f.src /\ g.len = f.len /\ g.prompt = f.prompt
  BY DEF Halted, Kin
<1>2. Unbuilt(r) => Unbuilt(s)
  BY <1>1 DEF Halted, Unbuilt
<1> QED BY <1>1, <1>2 DEF ForkSound

LEMMA CacheHalted ==
    ASSUME Shape, CacheSound, ApplyFull \/ ApplyError
    PROVE  CacheSound'
<1>1. UNCHANGED <<setup, kv>> /\ step' = "none" /\ step # "ok" /\ epc = "apply"
  BY DEF ApplyFull, ApplyError
<1>2. victim' = NoSlot
  BY DEF ApplyFull, ApplyError, Shape, StepShape
<1>3. \A i \in SlotId : /\ Halted(slot'[i], slot[i]) /\ IsSlot(slot[i])
                        /\ slot[i].in_step => slot[i].busy /\ Live(slot[i])
  BY FullSlots, ErrorSlots DEF Shape, EngineTypes, StepShape, FreeClean, Live
<1>4. ASSUME NEW i \in SlotId
      PROVE  /\ victim = i => slot[i].in_step /\ (slot'[i].state = "done" \/ slot'[i].done = 0)
             /\ slot'[i].state # "done" /\ slot'[i].done # slot[i].done => victim = i
  <2> DEFINE s == slot[i]
             r == slot'[i]
  <2>1. CASE ApplyFull
    <3>1. /\ victim \in SlotId /\ slot[victim].in_step
          /\ \A j \in SlotId : j # victim => slot'[j] = [slot[j] EXCEPT !.in_step = FALSE]
          /\ slot'[victim] = IF slot[victim].state = "prefill"
                             THEN [[slot[victim] EXCEPT !.done = 0, !.past = 0] EXCEPT !.in_step = FALSE]
                             ELSE [Finished(slot[victim], TRUE) EXCEPT !.in_step = FALSE]
      BY <2>1, FullSlots
    <3>2. CASE victim = i
      <4>1. s.in_step /\ IsSlot(s)
        BY <1>3, <3>1, <3>2
      <4>2. CASE s.state = "prefill"
        <5>1. r = [[s EXCEPT !.done = 0, !.past = 0] EXCEPT !.in_step = FALSE]
          BY <3>1, <3>2, <4>2
        <5> HIDE DEF r, s
        <5>2. r.done = 0
          BY <4>1, <4>2, <5>1, HaltedRequeues
        <5> QED BY <3>2, <4>1, <5>2 DEF r, s
      <4>3. CASE s.state # "prefill"
        <5>1. r = [Finished(s, TRUE) EXCEPT !.in_step = FALSE]
          BY <3>1, <3>2, <4>3
        <5> HIDE DEF r, s
        <5>2. r.state = "done"
          BY <4>1, <5>1 DEF Finished, IsSlot, Fields
        <5> QED BY <3>2, <4>1, <5>2 DEF r, s
      <4> QED BY <4>2, <4>3
    <3>3. CASE victim # i
      <4>1. r = [s EXCEPT !.in_step = FALSE] /\ IsSlot(s)
        BY <1>3, <3>1, <3>3
      <4> HIDE DEF r, s
      <4>2. r.done = s.done
        BY <4>1, SettledSlot
      <4> QED BY <3>3, <4>2 DEF r, s
    <3> QED BY <3>2, <3>3
  <2>2. CASE ApplyError
    <3>1. victim = NoSlot /\ victim # i
      BY <2>2, SlotsFinite DEF ApplyError, Shape, StepShape
    <3>2. IsSlot(s) /\ r = IF s.in_step THEN [Finished(s, TRUE) EXCEPT !.in_step = FALSE] ELSE [s EXCEPT !.in_step = FALSE]
      BY <1>3, <2>2, ErrorSlots
    <3> HIDE DEF r, s
    <3>3. r.state # "done" => r.done = s.done
      <4>1. CASE s.in_step
        BY <3>2, <4>1 DEF Finished, IsSlot, Fields
      <4>2. CASE ~s.in_step
        BY <3>2, <4>2, SettledSlot
      <4> QED BY <4>1, <4>2
    <3> QED BY <3>1, <3>3 DEF r, s
  <2> QED BY <2>1, <2>2
<1>5. ASSUME NEW i \in SlotId PROVE SlotSound(setup', i, slot'[i], kv'[i], step', victim')
  <2> DEFINE s == slot[i]
             r == slot'[i]
             a == kv[i]
  <2>1. /\ SlotSound(setup, i, s, a, step, victim) /\ IsSlot(s) /\ Halted(r, s) /\ NoSlot # i /\ step # "ok"
        /\ s.in_step => s.busy /\ Live(s)
        /\ victim = i => s.in_step /\ (r.state = "done" \/ r.done = 0)
        /\ r.state # "done" /\ r.done # s.done => victim = i
    BY <1>1, <1>3, <1>4, SlotsFinite DEF CacheSound
  <2> HIDE DEF s, r, a
  <2>2. SlotSound(setup, i, r, a, "none", NoSlot)
    BY <2>1, SoundHalted
  <2> QED BY <1>1, <1>2, <2>2 DEF r, a
<1>6. ASSUME NEW i \in SlotId, NEW j \in SlotId PROVE ForkSound(i, slot'[i], kv'[i], slot'[j])
  <2>1. ForkSound(i, slot[i], kv[i], slot[j]) /\ kv' = kv
    BY <1>1 DEF CacheSound
  <2> QED BY <1>3, <2>1, ForkHalted
<1>7. PoolType'
  BY <1>1 DEF CacheSound, PoolType
<1> QED BY <1>5, <1>6, <1>7 DEF CacheSound

-----------------------------------------------------------------------------
(* The end of a step that went well                                        *)

LEMMA GrownPrefill ==
    ASSUME NEW u, NEW i, NEW s, IsSlot(s), NEW r, NEW a, NEW v, NEW w, NEW m \in Nat, m <= s.draft, v # i, w # i,
           s.in_step, s.busy, s.state = "prefill", SlotSound(u, i, s, a, "ok", v), Grown(r, s, m)
    PROVE  SlotSound(u, i, r, a, "none", w)
<1>1. ~Unbuilt(s) /\ BuiltSound(i, s, a, "ok", v)
  BY DEF SlotSound, UnbuiltSound
<1>2. PrefillSound(i, s, Len(a), "ok", v) /\ Held(s, a) /\ s.prompt \in Prompts /\ s.src = NoSlot
  BY <1>1 DEF BuiltSound, SlotSound
<1>3. /\ s.done \in Nat /\ s.chunk \in Nat /\ s.draft \in Nat /\ s.count \in Nat /\ Len(s.prompt) \in Nat /\ s.prompt \in Seq(Nat)
      /\ s.produced \in Nat /\ s.past \in Nat /\ s.failed \in BOOLEAN
  BY SMTT(40) DEF IsSlot
<1>4. /\ s.draft = 0 /\ Len(a) = s.done + s.chunk /\ s.produced = 0 /\ s.done < Len(s.prompt)
      /\ s.chunk \in 1 .. Len(s.prompt) - s.done
  BY <1>2 DEF PrefillSound, Stepped
<1>5. m = 0 /\ s.done + s.chunk <= Len(s.prompt)
  BY <1>3, <1>4
<1>6. /\ Kin(r, s) /\ ~r.in_step /\ r.failed = s.failed /\ r.done = s.done + s.chunk
      /\ r.count \in {s.done + s.chunk, s.count}
      /\ IF Partial(s) THEN r.state = "prefill" /\ r.produced = s.produced
         ELSE /\ r.produced = s.produced + 1 + m /\ r.state \in {"decode", "done"} /\ r.past = Len(s.prompt)
              /\ r.state = "decode" => r.produced < MaxNew
  BY DEF Grown
<1>7. ~Unbuilt(r) /\ r.prompt = s.prompt /\ r.prompt \in Prompts /\ r.src = NoSlot /\ r.toks = s.toks /\ s.toks = s.prompt /\ r.busy
  BY <1>1, <1>2, <1>6 DEF Unbuilt, Kin, BuiltSound
<1>8. \A k \in 1 .. Len(a) : a[k][1] = Word(r, k)
  BY <1>1, <1>7 DEF BuiltSound, Word
<1>9. Held(r, a)
  <2>1. CASE r.count = s.count
    BY <1>2, <1>7, <2>1 DEF Held
  <2>2. CASE r.count = s.done + s.chunk
    <3>1. r.count = Len(a) /\ r.count <= Len(s.prompt) /\ r.count \in Nat
      BY <1>3, <1>4, <1>5, <2>2
    <3>2. \A k \in 1 .. r.count : Word(r, k) = s.prompt[k]
      BY <1>3, <1>7, <3>1 DEF Word
    <3> QED BY <1>7, <1>8, <3>1, <3>2 DEF Held
  <2> QED BY <1>6, <2>1, <2>2
<1>10. CASE Partial(s)
  <2>1. r.state = "prefill" /\ r.produced = 0 /\ s.done + s.chunk < Len(s.prompt)
    BY <1>4, <1>6, <1>10 DEF Partial
  <2>2. PrefillSound(i, r, Len(a), "none", w)
    BY <1>4, <1>6, <1>7, <2>1 DEF PrefillSound, Stepped
  <2>3. BuiltSound(i, r, a, "none", w)
    BY <1>7, <1>8, <2>1, <2>2 DEF BuiltSound
  <2> QED BY <1>7, <1>9, <2>3 DEF SlotSound
<1>11. CASE ~Partial(s)
  <2>1. s.done + s.chunk = Len(s.prompt)
    <3>1. ~(s.done + s.chunk < Len(s.prompt))
      BY <1>11 DEF Partial
    <3> DEFINE x == s.done
               y == s.chunk
               z == Len(s.prompt)
    <3>2. x \in Nat /\ y \in Nat /\ z \in Nat /\ x + y <= z /\ ~(x + y < z)
      BY <1>3, <1>5, <3>1
    <3> HIDE DEF x, y, z
    <3>3. x + y = z
      BY ONLY <3>2
    <3> QED BY <3>3 DEF x, y, z
  <2>2. /\ r.produced = 1 /\ r.past = Len(s.prompt) /\ r.done = Len(s.prompt) /\ r.state \in {"decode", "done"}
        /\ r.state = "decode" => 1 < MaxNew
    BY <1>4, <1>5, <1>6, <1>11, <2>1
  <2>3. r.state = "decode" => DecodeSound(i, r, Len(a), "none", w)
    BY <1>3, <1>4, <1>6, <1>7, <2>1, <2>2, LlmAssumption DEF DecodeSound, Stepped
  <2>4. r.state = "done" => DoneSound(r, Len(a))
    BY <1>3, <1>4, <1>7, <2>1, <2>2 DEF DoneSound
  <2>5. BuiltSound(i, r, a, "none", w)
    BY <1>7, <1>8, <2>2, <2>3, <2>4 DEF BuiltSound
  <2> QED BY <1>7, <1>9, <2>5 DEF SlotSound
<1> QED BY <1>10, <1>11

\* The cells b are the first ones of a, and n of them at least
Prefix(b, a, n) == b \in Seq(Nat \X Nat) /\ n <= Len(b) /\ Len(b) <= Len(a) /\ \A k \in 1 .. Len(b) : b[k] = a[k]

\* The rejected drafts are cut off again
LEMMA GrownDecode ==
    ASSUME NEW u, NEW i, NEW s, IsSlot(s), NEW r, NEW a, a \in Seq(Nat \X Nat), NEW v, NEW w,
           NEW m \in Nat, m <= s.draft, v # i, w # i,
           s.in_step, s.busy, s.state = "decode", SlotSound(u, i, s, a, "ok", v), Grown(r, s, m)
    PROVE  LET b == Cut(a, r.past) IN
           SlotSound(u, i, r, b, "none", w) /\ Prefix(b, a, Len(s.prompt))
<1> DEFINE b == Cut(a, r.past)
<1>0. b = Cut(a, r.past)
  OBVIOUS
<1> HIDE DEF b
<1>1. ~Unbuilt(s) /\ BuiltSound(i, s, a, "ok", v)
  BY DEF SlotSound, UnbuiltSound
<1>2. DecodeSound(i, s, Len(a), "ok", v) /\ Held(s, a) /\ s.prompt \in Prompts /\ s.src = NoSlot
  BY <1>1 DEF BuiltSound, SlotSound
<1>3. /\ s.done \in Nat /\ s.draft \in Nat /\ s.count \in Nat /\ Len(s.prompt) \in Nat /\ s.prompt \in Seq(Nat)
      /\ s.produced \in Nat /\ s.past \in Nat /\ s.failed \in BOOLEAN /\ Len(a) \in Nat /\ MaxNew \in Nat
  BY LlmAssumption, SMTT(40) DEF IsSlot
<1>4. /\ Len(a) = s.past + 1 + s.draft /\ s.produced >= 1 /\ s.done = Len(s.prompt)
      /\ s.past = Len(s.prompt) + s.produced - 1
  BY <1>2, <1>3 DEF DecodeSound, Stepped
<1>5. /\ Kin(r, s) /\ ~r.in_step /\ r.failed = s.failed /\ r.done = s.done /\ r.count = s.count
      /\ r.produced = s.produced + 1 + m /\ r.state \in {"decode", "done"} /\ r.past = s.past + 1 + m
      /\ r.state = "decode" => r.produced < MaxNew
  BY DEF Grown, Partial
<1>6. r.past \in Nat /\ r.past <= Len(a) /\ Len(s.prompt) <= r.past /\ r.produced \in Nat /\ r.produced >= 1
      /\ r.past = Len(s.prompt) + r.produced - 1
  <2> DEFINE x == s.past
             y == s.produced
             z == Len(s.prompt)
             p == r.past
             q == r.produced
             n == Len(a)
             d == s.draft
  <2>1. /\ x \in Nat /\ y \in Nat /\ z \in Nat /\ d \in Nat /\ m \in Nat /\ m <= d
        /\ n = x + 1 + d /\ y >= 1 /\ x = z + y - 1 /\ q = y + 1 + m /\ p = x + 1 + m
    BY <1>3, <1>4, <1>5
  <2> HIDE DEF x, y, z, p, q, n, d
  <2>2. p \in Nat /\ p <= n /\ z <= p /\ q \in Nat /\ q >= 1 /\ p = z + q - 1
    BY ONLY <2>1
  <2> QED BY <2>2 DEF x, y, z, p, q, n
<1>7. b \in Seq(Nat \X Nat) /\ Len(b) = r.past /\ \A k \in 1 .. Len(b) : b[k] = a[k]
  <2> DEFINE p == r.past
  <2>1. p \in Nat /\ p <= Len(a) /\ b = Cut(a, p)
    BY <1>0, <1>6
  <2> HIDE DEF p
  <2>2. Cut(a, p) \in Seq(Nat \X Nat) /\ Len(Cut(a, p)) = p /\ \A k \in 1 .. p : Cut(a, p)[k] = a[k]
    BY <2>1, CutFacts, ZenonT(40)
  <2> QED BY <2>1, <2>2 DEF p
<1>8. ~Unbuilt(r) /\ r.prompt = s.prompt /\ r.prompt \in Prompts /\ r.src = NoSlot /\ r.toks = s.toks /\ s.toks = s.prompt /\ r.busy
  BY <1>1, <1>2, <1>5 DEF Unbuilt, Kin, BuiltSound
<1>9. \A k \in 1 .. Len(b) : b[k][1] = Word(r, k)
  <2>1. \A k \in 1 .. Len(b) : k \in 1 .. Len(a)
    BY <1>3, <1>6, <1>7
  <2>2. \A k \in 1 .. Len(a) : a[k][1] = Word(s, k)
    BY <1>1 DEF BuiltSound
  <2>3. \A k : Word(r, k) = Word(s, k)
    BY <1>8 DEF Word
  <2> QED BY <1>7, <2>1, <2>2, <2>3
<1>10. Held(r, b)
  <2>1. s.count <= Len(s.prompt) /\ s.count <= Len(b) /\ \A k \in 1 .. s.count : k \in 1 .. Len(b)
    <3>1. s.count <= Len(s.prompt)
      BY <1>2, <1>8 DEF Held
    <3>2. Len(b) \in Nat /\ Len(s.prompt) <= Len(b)
      BY <1>6, <1>7
    <3> QED BY <1>3, <3>1, <3>2
  <2> QED BY <1>2, <1>5, <1>7, <1>8, <2>1, ZenonT(40) DEF Held
<1>11. r.state = "decode" => DecodeSound(i, r, Len(b), "none", w)
  <2>1. r.state = "decode" => r.produced \in 1 .. MaxNew - 1
    BY <1>3, <1>5, <1>6
  <2> QED BY <1>4, <1>5, <1>6, <1>7, <1>8, <2>1 DEF DecodeSound, Stepped
<1>12. r.state = "done" => DoneSound(r, Len(b))
  BY <1>3, <1>4, <1>5, <1>7, <1>8 DEF DoneSound
<1>13. BuiltSound(i, r, b, "none", w)
  BY <1>5, <1>8, <1>9, <1>11, <1>12 DEF BuiltSound
<1>14. SlotSound(u, i, r, b, "none", w)
  BY <1>8, <1>10, <1>13 DEF SlotSound
<1>15. Prefix(b, a, Len(s.prompt))
  BY <1>6, <1>7 DEF Prefix
<1> QED BY <1>14, <1>15 DEF b

LEMMA CacheOk ==
    ASSUME Shape, CacheSound, ApplyOk
    PROVE  CacheSound' /\ \A i \in SlotId : Len(kv'[i]) <= Len(kv[i])
<1>1. epc = "apply" /\ step = "ok" /\ step' = "none" /\ UNCHANGED <<setup, victim>>
  BY DEF ApplyOk
<1>2. victim = NoSlot
  BY <1>1 DEF Shape, StepShape
<1>3. PICK m \in [SlotId -> 0 .. MtpDraft], ends \in SUBSET InStep :
        /\ \A i \in SlotId : m[i] <= slot[i].draft
        /\ slot' = Settled([i \in SlotId |-> After(i, m[i], i \in ends)])
        /\ kv' = [i \in SlotId |-> IF slot[i].in_step /\ slot[i].state = "decode"
                                   THEN Cut(kv[i], After(i, m[i], i \in ends).past) ELSE kv[i]]
  <2>1. PICK m \in {f \in [SlotId -> 0 .. MtpDraft] : \A i \in SlotId : f[i] <= slot[i].draft}, ends \in SUBSET InStep :
           \E next \in {[i \in SlotId |-> After(i, m[i], i \in ends)]} :
            /\ slot' = Settled(next)
            /\ kv' = [i \in SlotId |-> IF slot[i].in_step /\ slot[i].state = "decode" THEN Cut(kv[i], next[i].past) ELSE kv[i]]
    BY DEF ApplyOk
  <2> DEFINE next == [i \in SlotId |-> After(i, m[i], i \in ends)]
  <2>2. /\ slot' = Settled(next)
        /\ kv' = [i \in SlotId |-> IF slot[i].in_step /\ slot[i].state = "decode" THEN Cut(kv[i], next[i].past) ELSE kv[i]]
    BY <2>1
  <2>3. \A i \in SlotId : next[i] = After(i, m[i], i \in ends)
    OBVIOUS
  <2>4. kv' = [i \in SlotId |-> IF slot[i].in_step /\ slot[i].state = "decode"
                                   THEN Cut(kv[i], After(i, m[i], i \in ends).past) ELSE kv[i]]
    <3> HIDE DEF next
    <3> QED BY <2>2, <2>3
  <2> QED BY <2>1, <2>2, <2>4
<1>4. \A i \in SlotId : m[i] \in Nat
  BY <1>3, LlmAssumption
<1>5. /\ \A i \in SlotId : ~slot[i].in_step => slot'[i] = [slot[i] EXCEPT !.in_step = FALSE]
      /\ \A i \in SlotId : slot[i].in_step => Grown(slot'[i], slot[i], m[i])
  BY <1>3, <1>4, OkSlots
<1>6. ASSUME NEW i \in SlotId, slot[i].in_step, slot[i].state = "decode"
      PROVE  kv'[i] = Cut(kv[i], slot'[i].past)
  <2> DEFINE q == After(i, m[i], i \in ends)
  <2>1. slot'[i] = [q EXCEPT !.in_step = FALSE] /\ kv'[i] = Cut(kv[i], q.past)
    BY <1>3, <1>6 DEF Settled
  <2>2. [q EXCEPT !.in_step = FALSE].past = q.past
    <3> HIDE DEF q
    <3> QED OBVIOUS
  <2> QED BY <2>1, <2>2
<1>7. \A i \in SlotId : ~(slot[i].in_step /\ slot[i].state = "decode") => kv'[i] = kv[i]
  BY <1>3
<1>8. ASSUME NEW i \in SlotId
      PROVE  /\ SlotSound(setup', i, slot'[i], kv'[i], step', victim')
             /\ kv'[i] \in Seq(Nat \X Nat) /\ Len(kv'[i]) <= Len(kv[i])
             /\ Kin(slot'[i], slot[i]) /\ (slot'[i].state = "idle" <=> slot[i].state = "idle")
             /\ \/ kv'[i] = kv[i]
                \/ slot[i].busy /\ Len(slot[i].prompt) <= Len(kv'[i]) /\ \A k \in 1 .. Len(kv'[i]) : kv'[i][k] = kv[i][k]
  <2> DEFINE s == slot[i]
             r == slot'[i]
             a == kv[i]
             b == kv'[i]
             n == m[i]
  <2>1. /\ SlotSound(setup, i, s, a, "ok", NoSlot) /\ IsSlot(s) /\ NoSlot # i /\ a \in Seq(Nat \X Nat)
        /\ n \in Nat /\ n <= s.draft /\ (s.in_step => s.busy /\ Live(s))
    BY <1>1, <1>2, <1>3, <1>4, SlotsFinite DEF CacheSound, PoolType, Shape, EngineTypes, StepShape, FreeClean, Live
  <2>0. Len(a) <= Len(a)
    <3> HIDE DEF a
    <3> QED BY <2>1
  <2>2. CASE ~s.in_step
    <3>1. r = [s EXCEPT !.in_step = FALSE] /\ b = a
      BY <1>5, <1>7, <2>2
    <3> HIDE DEF s, r, a, b
    <3>2. Alike(r, s) /\ ~r.in_step /\ Kin(r, s)
      BY <2>1, <3>1 DEF IsSlot, Fields, Alike, Kin
    <3>3. SlotSound(setup, i, r, a, "none", NoSlot)
      BY <2>1, <2>2, <3>2, SoundUnstepped DEF Stepped
    <3>4. r.state = s.state
      BY <3>2 DEF Alike
    <3> QED BY <1>1, <1>2, <2>0, <2>1, <3>1, <3>2, <3>3, <3>4 DEF s, r, a, b
  <2>3. CASE s.in_step /\ s.state = "prefill"
    <3>1. Grown(r, s, n) /\ b = a
      BY <1>5, <1>7, <2>3
    <3> HIDE DEF s, r, a, b, n
    <3>2. SlotSound(setup, i, r, a, "none", NoSlot)
      BY <2>1, <2>3, <3>1, GrownPrefill
    <3>3. Kin(r, s) /\ (r.state = "idle" <=> s.state = "idle")
      BY <2>3, <3>1 DEF Grown
    <3> QED BY <1>1, <1>2, <2>0, <2>1, <3>1, <3>2, <3>3 DEF s, r, a, b
  <2>4. CASE s.in_step /\ s.state = "decode"
    <3>1. Grown(r, s, n) /\ b = Cut(a, r.past)
      BY <1>5, <1>6, <2>4
    <3> HIDE DEF s, r, a, b, n
    <3>2. SlotSound(setup, i, r, b, "none", NoSlot) /\ Prefix(b, a, Len(s.prompt))
      <4>1. s.busy /\ s.in_step /\ s.state = "decode"
        BY <2>1, <2>4
      <4> QED BY <2>1, <3>1, <4>1, GrownDecode
    <3>3. Kin(r, s) /\ (r.state = "idle" <=> s.state = "idle")
      BY <2>4, <3>1 DEF Grown, Partial
    <3> QED BY <1>1, <1>2, <2>1, <2>4, <3>2, <3>3 DEF s, r, a, b, Prefix
  <2> QED BY <2>1, <2>2, <2>3, <2>4 DEF Live
<1>9. PoolType'
  <2>1. DOMAIN kv' = SlotId /\ kv' = [i \in SlotId |-> kv'[i]]
    BY <1>3
  <2> QED BY <1>8, <2>1 DEF PoolType
<1>10. ASSUME NEW i \in SlotId, NEW j \in SlotId PROVE ForkSound(i, slot'[i], kv'[i], slot'[j])
  <2> DEFINE s == slot[i]
             r == slot'[i]
             a == kv[i]
             b == kv'[i]
             f == slot[j]
             g == slot'[j]
  <2>1. /\ ForkSound(i, s, a, f) /\ Kin(r, s) /\ Kin(g, f) /\ (r.state = "idle" <=> s.state = "idle")
        /\ b = a \/ (s.busy /\ Len(s.prompt) <= Len(b) /\ \A k \in 1 .. Len(b) : b[k] = a[k])
        /\ a \in Seq(Nat \X Nat) /\ b \in Seq(Nat \X Nat) /\ IsSlot(f) /\ IsSlot(s)
    BY <1>8 DEF CacheSound, PoolType, Shape, EngineTypes
  <2> HIDE DEF s, r, a, b, f, g
  <2>2. f.len \in Nat /\ Len(a) \in Nat /\ Len(b) \in Nat /\ Len(s.prompt) \in Nat
    <3>1. f.len \in Nat
      BY <2>1 DEF IsSlot
    <3>2. s.prompt \in Seq(Nat)
      BY <2>1 DEF IsSlot
    <3> QED BY <2>1, <3>1, <3>2
  <2>3. f.src = i => f.len <= Len(b) /\ \A k \in 1 .. f.len : b[k][1] = a[k][1]
    <3> SUFFICES ASSUME f.src = i PROVE f.len <= Len(b) /\ \A k \in 1 .. f.len : b[k][1] = a[k][1]
      OBVIOUS
    <3>1. CASE b = a
      BY <2>1, <3>1 DEF ForkSound
    <3>2. CASE s.busy /\ Len(s.prompt) <= Len(b) /\ \A k \in 1 .. Len(b) : b[k] = a[k]
      <4>1. f.len <= Len(s.prompt)
        BY <2>1, <3>2 DEF ForkSound
      <4>2. f.len <= Len(b) /\ \A k \in 1 .. f.len : k \in 1 .. Len(b)
        BY <2>2, <3>2, <4>1
      <4> QED BY <3>2, <4>2
    <3> QED BY <2>1, <3>1, <3>2
  <2>4. Unbuilt(r) => Unbuilt(s)
    BY <2>1 DEF Unbuilt, Kin
  <2>5. ForkSound(i, r, b, g)
    BY <2>1, <2>3, <2>4, ForkKept DEF Kin
  <2> QED BY <2>5 DEF r, b, g
<1> QED BY <1>8, <1>9, <1>10 DEF CacheSound

LEMMA TokenCells ==
    ASSUME NEW a, a \in Seq(Nat \X Nat)
    PROVE  Toks(a) \in Seq(Nat) /\ Len(Toks(a)) = Len(a) /\ \A k \in 1 .. Len(a) : Toks(a)[k] = a[k][1]
<1>1. DOMAIN a = 1 .. Len(a) /\ Len(a) \in Nat /\ \A k \in 1 .. Len(a) : a[k] \in Nat \X Nat
  OBVIOUS
<1>2. \A k \in 1 .. Len(a) : a[k][1] \in Nat
  BY <1>1
<1> DEFINE n == Len(a)
           t == [k \in 1 .. n |-> a[k][1]]
<1>3. Toks(a) = t
  BY <1>1 DEF Toks
<1>4. t \in [1 .. n -> Nat] /\ n \in Nat /\ \A k \in 1 .. n : t[k] = a[k][1]
  BY <1>1, <1>2
<1> HIDE DEF n, t
<1>5. t \in Seq(Nat) /\ Len(t) = n
  BY <1>4, SMTT(40)
<1> QED BY <1>3, <1>4, <1>5 DEF n

\* The invariant says of the cells what the property says of the slots
LEMMA BackedSlot ==
    ASSUME NEW u, NEW i, NEW s, IsSlot(s), NEW a, a \in Seq(Nat \X Nat), NEW st, NEW v, SlotSound(u, i, s, a, st, v),
           v = i => s.in_step, Live(s) => s.busy
    PROVE  LET cells == Toks(a) IN
           /\ s.count <= Len(cells) /\ Cut(s.toks, s.count) = Cut(cells, s.count)
           /\ s.state = "prefill" /\ ~s.in_step /\ s.src = NoSlot =>
                s.done <= Len(cells) /\ Cut(cells, s.done) = Cut(s.prompt, s.done)
           /\ s.state = "decode" /\ ~s.in_step => cells = Cut(Reply(s, s.produced), s.past)
<1> DEFINE cells == Toks(a)
<1>1. cells \in Seq(Nat) /\ Len(cells) = Len(a) /\ \A k \in 1 .. Len(a) : cells[k] = a[k][1]
  BY TokenCells
<1>2. /\ s.count \in Nat /\ s.done \in Nat /\ s.past \in Nat /\ s.produced \in Nat /\ s.len \in Nat
      /\ s.prompt \in Seq(Nat) /\ Len(s.prompt) \in Nat /\ Len(a) \in Nat
  <2>1. s.prompt \in Seq(Nat)
    BY DEF IsSlot
  <2>2. Len(s.prompt) \in Nat /\ Len(a) \in Nat
    BY <2>1
  <2>3. s.count \in Nat /\ s.done \in Nat /\ s.past \in Nat /\ s.produced \in Nat /\ s.len \in Nat
    BY DEF IsSlot
  <2> QED BY <2>1, <2>2, <2>3
<1> HIDE DEF cells
<1>3. s.count <= Len(a) /\ \A k \in 1 .. s.count : a[k][1] = s.toks[k]
  BY DEF SlotSound, Held
<1>4. s.count <= Len(cells) /\ Cut(s.toks, s.count) = Cut(cells, s.count)
  <2>1. \A k \in 1 .. s.count : k \in 1 .. Len(a)
    BY <1>2, <1>3
  <2>2. \A k \in 1 .. s.count : s.toks[k] = cells[k]
    BY <1>1, <1>3, <2>1
  <2> DEFINE t == s.toks
             n == s.count
  <2>3. n \in Nat /\ \A k \in 1 .. n : t[k] = cells[k]
    BY <1>2, <2>2
  <2> HIDE DEF t, n
  <2>4. Cut(t, n) = Cut(cells, n)
    BY <2>3, CutSame
  <2> QED BY <1>1, <1>3, <2>4 DEF t, n
<1>5. ASSUME s.state = "prefill", ~s.in_step, s.src = NoSlot
      PROVE  s.done <= Len(cells) /\ Cut(cells, s.done) = Cut(s.prompt, s.done)
  <2>1. s.done <= Len(a) /\ \A k \in 1 .. s.done : a[k][1] = s.prompt[k]
    <3>1. CASE Unbuilt(s)
      <4>1. s.done = s.count /\ s.toks = s.prompt
        BY <1>5, <3>1 DEF SlotSound, UnbuiltSound
      <4> QED BY <1>3, <4>1
    <3>2. CASE ~Unbuilt(s)
      <4>1. BuiltSound(i, s, a, st, v)
        BY <1>5, <3>2 DEF SlotSound, Live
      <4>2. Len(a) = s.done /\ s.done < Len(s.prompt)
        BY <1>5, <4>1 DEF BuiltSound, PrefillSound, Stepped
      <4>3. \A k \in 1 .. s.done : Word(s, k) = s.prompt[k]
        BY <1>2, <4>2 DEF Word
      <4>4. \A k \in 1 .. s.done : a[k][1] = Word(s, k)
        BY <4>1, <4>2 DEF BuiltSound
      <4>5. s.done <= Len(a)
        BY <1>2, <4>2
      <4> QED BY <4>3, <4>4, <4>5
    <3> QED BY <3>1, <3>2
  <2>2. \A k \in 1 .. s.done : k \in 1 .. Len(a)
    BY <1>2, <2>1
  <2>3. \A k \in 1 .. s.done : cells[k] = s.prompt[k]
    BY <1>1, <2>1, <2>2
  <2> DEFINE t == s.prompt
             n == s.done
  <2>4. n \in Nat /\ \A k \in 1 .. n : cells[k] = t[k]
    BY <1>2, <2>3
  <2> HIDE DEF t, n
  <2>5. Cut(cells, n) = Cut(t, n)
    BY <2>4, CutSame
  <2> QED BY <1>1, <2>1, <2>5 DEF t, n
<1>6. ASSUME s.state = "decode", ~s.in_step
      PROVE  cells = Cut(Reply(s, s.produced), s.past)
  <2>1. ~Unbuilt(s) /\ BuiltSound(i, s, a, st, v)
    BY <1>6 DEF SlotSound, UnbuiltSound, Live
  <2>2. Len(a) = s.past /\ s.past = Len(s.prompt) + s.produced - 1
    BY <1>6, <2>1 DEF BuiltSound, DecodeSound, Stepped
  <2> DEFINE R == Reply(s, s.produced)
             n == s.past
             C == Cut(R, n)
  <2>3. /\ R \in Seq(Nat) /\ Len(R) = Len(s.prompt) + s.produced
        /\ \A k \in 1 .. Len(s.prompt) + s.produced : R[k] = Word(s, k)
    BY <1>2, ReplyFacts
  <2> HIDE DEF R
  <2>4. n \in Nat /\ n <= Len(R) /\ \A k \in 1 .. n : k \in 1 .. Len(s.prompt) + s.produced
    BY <1>2, <2>2, <2>3, SMTT(40)
  <2> HIDE DEF n
  <2>5. C \in Seq(Nat) /\ Len(C) = n /\ \A k \in 1 .. n : C[k] = R[k]
    BY <2>3, <2>4, CutFacts
  <2>6. Len(cells) = n /\ \A k \in 1 .. n : cells[k] = Word(s, k)
    BY <1>1, <2>1, <2>2 DEF BuiltSound, n
  <2> HIDE DEF C
  <2>7. \A k \in 1 .. n : cells[k] = C[k]
    BY <2>3, <2>4, <2>5, <2>6
  <2>8. cells = C
    BY <1>1, <2>5, <2>6, <2>7, SeqEqual
  <2> QED BY <2>8 DEF C, R, n
<1> QED BY <1>4, <1>5, <1>6 DEF cells

LEMMA SoundBacked == Shape /\ CacheSound => CacheBacked
<1> SUFFICES ASSUME Shape, CacheSound, NEW i \in SlotId
             PROVE  LET s == slot[i] cells == Toks(kv[i]) IN
                    /\ s.count <= Len(cells) /\ Cut(s.toks, s.count) = Cut(cells, s.count)
                    /\ s.state = "prefill" /\ ~s.in_step /\ s.src = NoSlot =>
                         s.done <= Len(cells) /\ Cut(cells, s.done) = Cut(s.prompt, s.done)
                    /\ s.state = "decode" /\ ~s.in_step => cells = Cut(Reply(s, s.produced), s.past)
  BY DEF CacheBacked
<1> DEFINE s == slot[i]
           a == kv[i]
<1>1. /\ IsSlot(s) /\ a \in Seq(Nat \X Nat) /\ SlotSound(setup, i, s, a, step, victim)
      /\ Live(s) => s.busy
  BY DEF CacheSound, PoolType, Shape, EngineTypes, FreeClean, Live
<1>2. victim = i => s.in_step
  BY SlotsFinite DEF Shape, StepShape
<1> HIDE DEF s, a
<1>3. LET cells == Toks(a) IN
      /\ s.count <= Len(cells) /\ Cut(s.toks, s.count) = Cut(cells, s.count)
      /\ s.state = "prefill" /\ ~s.in_step /\ s.src = NoSlot =>
           s.done <= Len(cells) /\ Cut(cells, s.done) = Cut(s.prompt, s.done)
      /\ s.state = "decode" /\ ~s.in_step => cells = Cut(Reply(s, s.produced), s.past)
  BY <1>1, <1>2, BackedSlot
<1> QED BY <1>3 DEF s, a

\* A preemption that takes the cells of nobody's source
Spares == EnginePreempt => slot[Preempted].pins = 0

LEMMA CacheNext == Shape /\ CacheSound /\ [LlmNext]_llmVars /\ [Spares]_llmVars => CacheSound'
<1> SUFFICES ASSUME Shape, CacheSound, [LlmNext]_llmVars, [Spares]_llmVars PROVE CacheSound'
  OBVIOUS
<1>1. CASE UNCHANGED llmVars
  BY <1>1, CacheStutter
<1>2. CASE EnginePreempt /\ ~UNCHANGED llmVars
  BY <1>2, CachePreempt DEF Spares
<1>3. CASE EngineSleep \/ EngineBuild \/ EngineDecode \/ EngineEvict \/ ApplyFull \/ ApplyError \/ ApplyOk
  BY <1>3, CacheSleep, CacheBuild, CacheDecode, CacheEvict, CacheHalted, CacheOk
<1>4. ASSUME NEW c \in Client, NEW p \in Prompts, AcquireSlot(c, p) PROVE CacheSound'
  BY <1>4, CacheAcquire
<1>5. ASSUME NEW c \in Client, Submit(c) \/ Pull(c) \/ Finish(c) \/ ReleaseSlot(c) PROVE CacheSound'
  BY <1>5, CacheSubmit, CachePull, CacheFinish, CacheRelease
<1> QED BY <1>1, <1>2, <1>3, <1>4, <1>5 DEF LlmNext, Engine

\* No preemption takes cells that a pending fork is to copy
ForksSpared == [][Spares]_llmVars

\* What a slot says is cached is in the pool, token for token, in every behaviour that
\* preempts no sequence a pending fork is to copy from.
THEOREM BackedWhileForksSpared == LlmSpec /\ ForksSpared => []CacheBacked
<1>1. LlmInit => Shape /\ CacheSound
  BY ShapeInit, CacheInit
<1>2. Shape /\ CacheSound /\ [LlmNext]_llmVars /\ [Spares]_llmVars => Shape' /\ CacheSound'
  BY ShapeNext, CacheNext
<1> QED BY <1>1, <1>2, SoundBacked, PTL DEF LlmSpec, ForksSpared

-----------------------------------------------------------------------------
(* A pool with room for every slot                                         *)

\* A request, prompt and reply, is within M cells (g_ctx_len, to which ollm_chat_locked
\* cuts max_new), and a pool that shares prefixes has M for every slot: n_ctx is
\* g_ctx_len * g_kv_seqs, and g_kv_seqs is g_slot_count unless it is set lower
RoomFor(M) ==
    /\ \A p \in Prompts : Len(p) + MaxNew <= M
    /\ Share => NSlots * M <= setup.pool
RoomToShare == \E M \in Nat : RoomFor(M)
Within(M) == \A i \in SlotId : Len(kv[i]) <= M
Roomy == \E M \in Nat : RoomFor(M) /\ Within(M)

LEMMA DecodedWithin ==
    ASSUME Shape, CacheSound, epc = "decode", NEW M \in Nat, RoomFor(M), Within(M), NEW d \in Drafts, NEW i \in SlotId
    PROVE  Len(Decoded(d)[i]) \in Nat /\ Len(Decoded(d)[i]) <= M
<1> DEFINE s == slot[i]
           a == kv[i]
           b == Decoded(d)[i]
           n == d[i]
<1>1. n \in Nat /\ (s.in_step => n <= DraftCap(s))
  <2>1. d \in [SlotId -> 0 .. MtpDraft] /\ MtpDraft \in Nat /\ \A j \in SlotId : d[j] <= IF j \in InStep THEN DraftCap(slot[j]) ELSE 0
    BY LlmAssumption DEF Drafts
  <2> QED BY <2>1 DEF InStep
<1>2. /\ b \in Seq(Nat \X Nat) /\ (~s.in_step => b = a)
      /\ s.in_step /\ s.state = "prefill" => Len(b) = Len(a) + s.chunk
      /\ s.in_step /\ s.state = "decode" => Len(b) = Len(a) + 1 + n
  BY <1>1, DecodedCells DEF Appended
<1>3. /\ SlotSound(setup, i, s, a, "none", NoSlot) /\ NoSlot # i /\ IsSlot(s) /\ a \in Seq(Nat \X Nat) /\ Len(a) <= M
      /\ s.in_step => s.busy /\ Live(s)
  <2>1. step = "none" /\ victim = NoSlot
    BY DEF Shape, StepShape
  <2> QED BY <2>1, SlotsFinite DEF CacheSound, PoolType, Shape, EngineTypes, StepShape, FreeClean, Live, Within
<1> HIDE DEF s, a, b, n
<1>4. s.prompt \in Seq(Nat) /\ Len(s.prompt) \in Nat /\ s.done \in Nat /\ s.chunk \in Nat /\ s.produced \in Nat /\ s.past \in Nat
  <2>1. s.prompt \in Seq(Nat)
    BY <1>3 DEF IsSlot
  <2> QED BY <1>3, <2>1, SMTT(40) DEF IsSlot
<1>5. Len(a) \in Nat /\ Len(b) \in Nat /\ MaxNew \in Nat
  BY <1>2, <1>3, LlmAssumption
<1>6. CASE ~s.in_step
  BY <1>2, <1>3, <1>5, <1>6 DEF b
<1>7. CASE s.in_step
  <2>1. s.busy /\ ~Unbuilt(s) /\ BuiltSound(i, s, a, "none", NoSlot)
    BY <1>3, <1>7 DEF SlotSound, UnbuiltSound
  <2>2. Len(s.prompt) + MaxNew <= M
    BY <1>3, <2>1 DEF SlotSound, RoomFor
  <2>3. CASE s.state = "prefill"
    <3>1. PrefillSound(i, s, Len(a), "none", NoSlot)
      BY <2>1, <2>3 DEF BuiltSound
    <3>2. Len(a) = s.done /\ s.chunk <= Len(s.prompt) - s.done
      BY <1>3, <1>4, <1>7, <3>1 DEF PrefillSound, Stepped
    <3>3. Len(b) = s.done + s.chunk
      BY <1>2, <1>7, <2>3, <3>2
    <3>4. Len(b) <= M
      BY <1>4, <1>5, <2>2, <3>2, <3>3
    <3> QED BY <1>5, <3>4 DEF b
  <2>4. CASE s.state = "decode"
    <3>1. DecodeSound(i, s, Len(a), "none", NoSlot)
      BY <2>1, <2>4 DEF BuiltSound
    <3>2. /\ Len(a) = s.past /\ s.past = Len(s.prompt) + s.produced - 1 /\ s.produced <= MaxNew - 1
      BY <1>3, <1>4, <1>5, <3>1 DEF DecodeSound, Stepped
    <3>3. n <= MaxNew - s.produced - 1
      BY <1>1, <1>3, <1>7, <2>4, <3>2, DraftCapBound
    <3>4. Len(b) = Len(a) + 1 + n
      BY <1>2, <1>7, <2>4
    <3>5. Len(b) <= M
      <4> DEFINE x == Len(a)
                 y == Len(b)
                 z == Len(s.prompt)
                 g == s.produced
      <4>1. /\ x \in Nat /\ y \in Nat /\ z \in Nat /\ g \in Nat /\ n \in Nat /\ MaxNew \in Nat /\ M \in Nat
            /\ x = z + g - 1 /\ n <= MaxNew - g - 1 /\ y = x + 1 + n /\ z + MaxNew <= M
        BY <1>1, <1>4, <1>5, <2>2, <3>2, <3>3, <3>4
      <4> HIDE DEF x, y, z, g
      <4>2. y <= M
        BY ONLY <4>1
      <4> QED BY <4>2 DEF y
    <3> QED BY <1>5, <3>5 DEF b
  <2> QED BY <1>3, <1>7, <2>3, <2>4 DEF Live
<1> QED BY <1>6, <1>7

\* Every cell is at one of M places of a slot
LEMMA CellsBound ==
    ASSUME NEW k, NEW M \in Nat, \A i \in SlotId : k[i] \in Seq(Nat \X Nat) /\ Len(k[i]) <= M
    PROVE  Cardinality(Cells(k)) \in Nat /\ Cardinality(Cells(k)) <= NSlots * M
<1> DEFINE All == SlotId \X (1 .. M)
           D == {w \in All : w[2] <= Len(k[w[1]])}
           f == [w \in D |-> <<w[2], k[w[1]][w[2]]>>]
           C == Cells(k)
<1>1. IsFiniteSet(All) /\ Cardinality(All) = NSlots * M
  <2>1. IsFiniteSet(1 .. M) /\ Cardinality(1 .. M) = M
    BY FS_Interval
  <2>2. IsFiniteSet(SlotId) /\ Cardinality(SlotId) = NSlots
    BY SlotsFinite
  <2> DEFINE P == 1 .. M
  <2> HIDE DEF P
  <2>3. IsFiniteSet(SlotId \X P) /\ Cardinality(SlotId \X P) = Cardinality(SlotId) * Cardinality(P)
    BY <2>1, <2>2, FS_Product DEF P
  <2> QED BY <2>1, <2>2, <2>3 DEF P
<1>2. IsFiniteSet(D) /\ Cardinality(D) <= Cardinality(All)
  <2>1. D \in SUBSET All
    OBVIOUS
  <2> HIDE DEF D, All
  <2> QED BY <1>1, <2>1, FS_Subset
<1>3. \A i \in SlotId : DOMAIN k[i] = 1 .. Len(k[i]) /\ Len(k[i]) \in Nat
  OBVIOUS
<1>4. ASSUME NEW w \in D PROVE f[w] \in C
  <2>1. w[1] \in SlotId /\ w[2] \in 1 .. M /\ w[2] <= Len(k[w[1]])
    OBVIOUS
  <2>2. w[2] \in DOMAIN k[w[1]]
    BY <1>3, <2>1
  <2>3. f[w] = <<w[2], k[w[1]][w[2]]>>
    OBVIOUS
  <2> QED BY <2>1, <2>2, <2>3 DEF Cells
<1>5. ASSUME NEW x \in C PROVE \E w \in D : f[w] = x
  <2>1. PICK i \in SlotId : x \in {<<p, k[i][p]>> : p \in DOMAIN k[i]}
    BY DEF Cells
  <2>2. PICK p \in DOMAIN k[i] : x = <<p, k[i][p]>>
    BY <2>1
  <2>3. p \in 1 .. M /\ p <= Len(k[i])
    BY <1>3, SMTT(40)
  <2>4. <<i, p>> \in D
    BY <2>3
  <2> QED BY <2>2, <2>4
<1>6. f \in Surjection(D, C)
  <2>1. f \in [D -> C]
    BY <1>4
  <2>2. \A x \in C : \E w \in D : f[w] = x
    BY <1>5
  <2> HIDE DEF D, f, C
  <2> QED BY <2>1, <2>2 DEF Surjection
<1>7. Cardinality(C) <= Cardinality(D) /\ IsFiniteSet(C)
  <2> HIDE DEF D, f, C
  <2> QED BY <1>2, <1>6, FS_Surjection
<1>8. Cardinality(C) \in Nat /\ Cardinality(D) \in Nat /\ Cardinality(All) \in Nat
  BY <1>1, <1>2, <1>7, FS_CardinalityType
<1> DEFINE x == Cardinality(C)
           y == Cardinality(D)
           z == Cardinality(All)
<1>9. x \in Nat /\ y \in Nat /\ z \in Nat /\ x <= y /\ y <= z /\ z = NSlots * M
  BY <1>1, <1>2, <1>7, <1>8
<1> HIDE DEF x, y, z
<1>10. x <= z
  BY ONLY <1>9
<1> QED BY <1>8, <1>9, <1>10 DEF x

\* With room for every slot, and no fork where there is nothing to share, the engine
\* preempts no source of a fork
LEMMA RoomSpares == Shape /\ CacheSound /\ Roomy => Spares
<1> SUFFICES ASSUME Shape, CacheSound, Roomy, EnginePreempt PROVE slot[Preempted].pins = 0
  BY DEF Spares
<1>1. epc = "decode" /\ Full
  BY DEF EnginePreempt
<1>2. PICK M \in Nat : RoomFor(M) /\ Within(M)
  BY DEF Roomy
<1>3. CASE Share
  <2>1. PICK d \in Drafts : ~Fits(d)
    BY <1>1 DEF Full
  <2> DEFINE k == Decoded(d)
  <2>2. \A i \in SlotId : k[i] \in Seq(Nat \X Nat) /\ Len(k[i]) <= M
    <3>1. \A i \in SlotId : d[i] \in Nat
      BY LlmAssumption DEF Drafts
    <3>2. \A i \in SlotId : k[i] \in Seq(Nat \X Nat)
      BY <3>1, DecodedCells DEF Appended
    <3>3. \A i \in SlotId : Len(k[i]) <= M
      BY <1>1, <1>2, DecodedWithin
    <3> QED BY <3>2, <3>3
  <2> HIDE DEF k
  <2>3. Cardinality(Cells(k)) \in Nat /\ Cardinality(Cells(k)) <= NSlots * M
    BY <2>2, CellsBound
  <2>4. ~(Cardinality(Cells(k)) <= setup.pool)
    BY <2>1 DEF Fits, k
  <2>5. NSlots * M \in Int /\ setup.pool \in Int
    <3>1. setup \in [share : BOOLEAN, pool : Nat] /\ NSlots \in Nat
      BY LlmAssumption DEF Shape, EngineTypes
    <3> QED BY <3>1
  <2> QED BY <1>2, <1>3, <2>3, <2>4, <2>5 DEF RoomFor
<1>4. CASE ~Share
  <2>1. Preempted \in SlotId
    BY <1>1, PreemptedIn
  <2>2. \A j \in SlotId : slot[j].src = NoSlot
    BY <1>4 DEF CacheSound, SlotSound, Share
  <2>3. {j \in SlotId : slot[j].src = Preempted} = {}
    BY <2>1, <2>2, SlotsFinite
  <2>4. Cardinality({}) = 0
    BY FS_EmptySet
  <2> QED BY <2>1, <2>3, <2>4 DEF Shape, PinsExact
<1> QED BY <1>3, <1>4

LEMMA WithinStays ==
    ASSUME NEW M \in Nat, Within(M), PoolType, \A i \in SlotId : kv'[i] = kv[i] \/ kv'[i] = <<>>
    PROVE  Within(M)'
<1>1. Len(<<>>) = 0
  OBVIOUS
<1> QED BY <1>1 DEF Within

\* A build copies and trims: it makes no sequence longer than the longest there is
LEMMA WithinBuilt ==
    ASSUME Shape, PoolType, NEW M \in Nat, Within(M), NEW lost, NEW i \in SlotId
    PROVE  Len(BuiltCells(i, lost)) <= M
<1>1. ASSUME NEW j \in SlotId PROVE Len(TrimmedCells(j, lost)) \in Nat /\ Len(TrimmedCells(j, lost)) <= M
  <2> DEFINE c == TrimmedCells(j, lost)
             a == kv[j]
  <2>1. c \in Seq(Nat \X Nat) /\ Len(c) <= Len(a)
    BY TrimmedCellsFacts
  <2>2. a \in Seq(Nat \X Nat) /\ Len(a) <= M
    BY DEF PoolType, Within
  <2> HIDE DEF c, a
  <2>3. Len(c) \in Nat /\ Len(c) <= M
    BY <2>1, <2>2
  <2> QED BY <2>3 DEF c
<1>2. CASE Runs(slot[i]) /\ slot[i].src # NoSlot
  <2> DEFINE x == slot[i].src
             from == IF x < i THEN TrimmedCells(x, lost) ELSE kv[x]
             c == CopiedCells(i, lost)
             n == slot[i].len
  <2>1. /\ x \in SlotId /\ from \in Seq(Nat \X Nat)
        /\ c \in Seq(Nat \X Nat) /\ Len(c) = IF n <= Len(from) THEN n ELSE Len(from)
    BY <1>2, CopiedCellsFacts
  <2>2. Len(from) <= M
    <3>1. Len(kv[x]) <= M
      BY <2>1 DEF Within
    <3>2. Len(TrimmedCells(x, lost)) <= M
      BY <1>1, <2>1
    <3> QED BY <3>1, <3>2
  <2>3. n \in Nat
    BY DEF Shape, EngineTypes, IsSlot
  <2>4. BuiltCells(i, lost) = c
    BY <1>2 DEF BuiltCells
  <2> HIDE DEF x, from, c, n
  <2>5. Len(c) <= M
    BY <2>1, <2>2, <2>3
  <2> QED BY <2>4, <2>5
<1>3. CASE ~(Runs(slot[i]) /\ slot[i].src # NoSlot)
  <2>1. BuiltCells(i, lost) = TrimmedCells(i, lost)
    BY <1>3 DEF BuiltCells
  <2> QED BY <1>1, <2>1
<1> QED BY <1>2, <1>3

LEMMA RoomNext == Shape /\ CacheSound /\ Roomy /\ [LlmNext]_llmVars => Roomy'
<1> SUFFICES ASSUME Shape, CacheSound, Roomy, [LlmNext]_llmVars PROVE Roomy'
  OBVIOUS
<1>1. PICK M \in Nat : RoomFor(M) /\ Within(M)
  BY DEF Roomy
<1>2. setup' = setup
  BY DEF LlmNext, llmVars, Engine, EngineSleep, EngineBuild, EngineDecode, EngineEvict, EnginePreempt, ApplyFull, ApplyError,
         ApplyOk, AcquireSlot, Submit, Pull, Finish, ReleaseSlot
<1>3. RoomFor(M)'
  BY <1>1, <1>2 DEF RoomFor, Share
<1>4. PoolType
  BY DEF CacheSound
<1>5. CASE EngineBuild
  <2>1. PICK lost : kv' = [i \in SlotId |-> BuiltCells(i, lost)]
    BY <1>5 DEF EngineBuild, engine_build
  <2>2. \A i \in SlotId : Len(BuiltCells(i, lost)) <= M
    BY <1>1, <1>4, WithinBuilt
  <2>3. Within(M)'
    BY <2>1, <2>2 DEF Within
  <2> QED BY <1>3, <2>3 DEF Roomy
<1>6. CASE EngineDecode
  <2>1. PICK d \in Drafts : kv' = Decoded(d) \/ kv' = kv
    BY <1>6 DEF EngineDecode
  <2>2. \A i \in SlotId : Len(Decoded(d)[i]) <= M
    BY <1>1, <1>6, DecodedWithin DEF EngineDecode
  <2>3. Within(M)'
    BY <1>1, <2>1, <2>2 DEF Within
  <2> QED BY <1>3, <2>3 DEF Roomy
<1>7. CASE ApplyOk
  <2>1. CacheSound' /\ \A i \in SlotId : Len(kv'[i]) <= Len(kv[i])
    BY <1>7, CacheOk
  <2>2. ASSUME NEW i \in SlotId PROVE Len(kv'[i]) <= M
    <3> DEFINE a == kv[i]
               b == kv'[i]
    <3>1. a \in Seq(Nat \X Nat) /\ b \in Seq(Nat \X Nat) /\ Len(b) <= Len(a) /\ Len(a) <= M
      BY <1>1, <1>4, <2>1 DEF CacheSound, PoolType, Within
    <3> HIDE DEF a, b
    <3>2. Len(b) <= M
      BY <3>1
    <3> QED BY <3>2 DEF b
  <2>3. Within(M)'
    BY <2>2 DEF Within
  <2> QED BY <1>3, <2>3 DEF Roomy
<1>8. CASE EngineEvict \/ EnginePreempt
  <2>1. \A i \in SlotId : kv'[i] = kv[i] \/ kv'[i] = <<>>
    BY <1>4, <1>8 DEF EngineEvict, EnginePreempt, PoolType
  <2>2. Within(M)'
    BY <1>1, <1>4, <2>1, WithinStays
  <2> QED BY <1>3, <2>2 DEF Roomy
<1>9. CASE kv' = kv
  <2>1. Within(M)'
    BY <1>1, <1>9 DEF Within
  <2> QED BY <1>3, <2>1 DEF Roomy
<1>10. \/ EngineBuild \/ EngineDecode \/ ApplyOk \/ EngineEvict \/ EnginePreempt \/ kv' = kv
  BY DEF LlmNext, llmVars, Engine, EngineSleep, ApplyFull, ApplyError, AcquireSlot, Submit, Pull, Finish, ReleaseSlot
<1> QED BY <1>5, <1>6, <1>7, <1>8, <1>9, <1>10

\* What a slot says is cached is in the pool, token for token, whatever is forked,
\* trimmed, drafted, stopped, evicted or failed, whenever the pool has room for the
\* longest request in every slot (OMNISERVE_NATIVE_LLM_KV_SEQS at its default,
\* g_slot_count) or no prefix is shared (OMNISERVE_NATIVE_LLM_SHARE_PREFIX=0, or a
\* pruned window).
THEOREM CacheAlwaysBacked == LlmSpec /\ RoomToShare => []CacheBacked
<1> DEFINE I == Shape /\ CacheSound /\ Roomy
<1>1. LlmInit /\ RoomToShare => I
  <2> SUFFICES ASSUME LlmInit, RoomToShare PROVE Roomy
    BY ShapeInit, CacheInit
  <2>1. PICK M \in Nat : RoomFor(M)
    BY DEF RoomToShare
  <2>2. \A i \in SlotId : kv[i] = <<>>
    BY DEF LlmInit, Started
  <2>3. Within(M)
    BY <2>2 DEF Within
  <2> QED BY <2>1, <2>3 DEF Roomy
<1>2. I /\ [LlmNext]_llmVars => I'
  <2> SUFFICES ASSUME Shape, CacheSound, Roomy, [LlmNext]_llmVars PROVE I'
    OBVIOUS
  <2>1. [Spares]_llmVars
    BY RoomSpares
  <2> QED BY <2>1, ShapeNext, CacheNext, RoomNext
<1>3. I => CacheBacked
  BY SoundBacked
<1> QED BY <1>1, <1>2, <1>3, PTL DEF LlmSpec

=============================================================================
