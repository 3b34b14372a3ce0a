----------------------------- MODULE LlmEngine ------------------------------
(***************************************************************************)
(* Continuous batching in src/src/backend_llama.c: request threads take a  *)
(* slot (acquire_slot), hand their prompt to the engine thread, pull the   *)
(* tokens from the slot's ring and give the slot back; the engine packs    *)
(* one token of every decoding sequence and chunks of the prompts into a   *)
(* step, decodes it into the shared KV pool and samples.  A prompt that    *)
(* shares a prefix with another slot's cache is forked from it.            *)
(*                                                                         *)
(* kv is what the pool really holds of each sequence: a token and the      *)
(* request that computed it, which names the cell.                         *)
(***************************************************************************)
EXTENDS Integers, Sequences, FiniteSets, FiniteSetsExt, Collections

CONSTANTS
    Client,      \* request threads
    NSlots,      \* g_slot_count
    Prompts,     \* token sequences a request may bring; token 0 is a generated one
    MaxNew,      \* max_new
    Ring,        \* OLLM_RING
    StepBudget,  \* g_step_budget
    Setups,      \* g_share_prefix and the cells of the KV pool, as ollm_init may set them
    ShareMin,    \* OLLM_SHARE_MIN
    MtpDraft,    \* g_mtp_draft
    MaxOrder     \* bound: requests

ASSUME LlmAssumption ==
    /\ NSlots \in Nat \ {0} /\ MaxNew \in Nat \ {0} /\ Ring \in Nat \ {0}
    /\ StepBudget \in Nat \ {0} /\ ShareMin \in Nat /\ MtpDraft \in Nat /\ MaxOrder \in Nat
    /\ Setups \subseteq [share : BOOLEAN, pool : Nat]
    /\ \A p \in Prompts : p \in Seq(Nat) /\ Len(p) > 0    \* a chat template renders something
    /\ \A p \in Prompts, u \in Setups : Len(p) + MaxNew <= u.pool

VARIABLES
    setup,   \* the member of Setups in force
    slot,    \* the slots
    kv,      \* the cells of each sequence, from position 0
    hold,    \* g_prefill_hold
    epc,     \* the engine thread: "sleep", "build", "decode", "apply"
    step,    \* how llama_decode of the step ended
    victim,  \* the sequence the step preempted, 0 none
    cpc,     \* place of each client
    mine,    \* its slot, 0 none
    taken,   \* tokens it has pulled
    order    \* g_engine_order, and use_clock

client == <<cpc, mine, taken>>
llmVars == <<setup, slot, kv, hold, epc, step, victim, client, order>>

SlotId == 1 .. NSlots
NoSlot == 0
Idle ==
    [busy |-> FALSE, pins |-> 0, used |-> 0, toks |-> <<>>, count |-> 0, state |-> "idle",
     in_step |-> FALSE, stop |-> FALSE, failed |-> FALSE, has_next |-> FALSE, rm |-> -1,
     prompt |-> <<>>, done |-> 0, past |-> 0, produced |-> 0, ring |-> 0, src |-> NoSlot,
     len |-> 0, order |-> 0, chunk |-> 0, draft |-> 0]

\* engine_start_locked: every slot free, the engine thread asleep
Started ==
    /\ slot = [i \in SlotId |-> Idle] /\ kv = [i \in SlotId |-> <<>>] /\ hold = FALSE
    /\ epc = "sleep" /\ step = "none" /\ victim = NoSlot
\* ollm_init_locked, whose configuration is a member of Setups
LlmInit ==
    /\ setup \in Setups /\ Started
    /\ cpc = [c \in Client |-> "idle"] /\ mine = [c \in Client |-> NoSlot] /\ taken = [c \in Client |-> 0]
    /\ order = 0

Share == setup.share
Toks(cells) == [p \in DOMAIN cells |-> cells[p][1]]
Cut(seq, n) == SubSeq(seq, 1, n)
\* A signal of g_engine_cond
Woken == IF epc = "sleep" THEN "build" ELSE epc

-----------------------------------------------------------------------------
(* acquire_slot                                                            *)

\* The last shared token is evaluated again, for its logits
common_prefix(i, p) ==
    Max({0} \cup {k - 1 : k \in {n \in 1 .. Min({slot[i].count, Len(p)}) : Cut(slot[i].toks, n) = Cut(p, n)}})
Free == {i \in SlotId : ~slot[i].busy /\ slot[i].pins = 0}
\* The longest shared prefix, the least recently used on a tie
Best(p) ==
    CHOOSE i \in Free : \A j \in Free \ {i} :
      LET a == common_prefix(i, p) b == common_prefix(j, p) IN
      \/ a > b \/ (a = b /\ slot[i].used < slot[j].used)
      \/ (a = b /\ slot[i].used = slot[j].used /\ i < j)
\* A slot, busy ones included, that holds more of the prompt than the best one
Source(p) ==
    LET more == {i \in SlotId \ {Best(p)} : Share /\ common_prefix(i, p) > common_prefix(Best(p), p) + ShareMin}
    IN IF more = {} THEN NoSlot
       ELSE CHOOSE i \in more : \A j \in more \ {i} :
              common_prefix(i, p) > common_prefix(j, p) \/ (common_prefix(i, p) = common_prefix(j, p) /\ i < j)

\* The slots once the best one is taken, and the source of a fork pinned
acquire_slot(p) ==
    LET b == Best(p) s == Source(p) keep == common_prefix(b, p) IN
    [i \in SlotId |->
       IF i = b THEN [slot[i] EXCEPT !.busy = TRUE, !.used = order + 1, !.prompt = p,
                        !.src = IF s = NoSlot THEN @ ELSE s,
                        !.len = IF s = NoSlot THEN keep ELSE common_prefix(s, p),
                        !.count = IF s = NoSlot THEN keep ELSE 0]
       ELSE IF i = s THEN [slot[i] EXCEPT !.pins = @ + 1] ELSE slot[i]]
\* ollm_chat_locked up to the slot; the prompt travels with the client's slot
AcquireSlot(c, p) ==
    /\ cpc[c] = "idle" /\ Free # {} /\ order < MaxOrder
    /\ slot' = acquire_slot(p)
    /\ mine' = [mine EXCEPT ![c] = Best(p)]
    /\ order' = order + 1
    /\ cpc' = [cpc EXCEPT ![c] = "submit"]
    /\ UNCHANGED <<setup, kv, hold, epc, step, victim, taken>>

engine_submit(s) ==
    [s EXCEPT !.toks = s.prompt, !.state = "prefill", !.rm = s.len, !.done = s.len, !.past = s.len,
       !.produced = 0, !.ring = 0, !.stop = FALSE, !.failed = FALSE, !.has_next = FALSE, !.order = s.used]
\* The sampler is built, the prompt published with what is visible of it (the same
\* prefix as before, so that no other thread tells it from the next step) and submitted
Submit(c) ==
    /\ cpc[c] = "submit"
    /\ slot' = [slot EXCEPT ![mine[c]] = engine_submit(@)]
    /\ cpc' = [cpc EXCEPT ![c] = "pull"]
    /\ taken' = [taken EXCEPT ![c] = 0]
    /\ epc' = Woken
    /\ UNCHANGED <<setup, kv, hold, step, victim, mine, order>>

-----------------------------------------------------------------------------
(* The request thread while it is served                                   *)

\* Seeded fault: an engine that waits for room in the ring is not told
Pull_Silent(c) ==
    /\ cpc[c] = "pull"
    /\ slot[mine[c]].ring > 0
    /\ taken' = [taken EXCEPT ![c] = @ + slot[mine[c]].ring]
    /\ slot' = [slot EXCEPT ![mine[c]].ring = 0]
    /\ UNCHANGED <<setup, kv, hold, epc, step, victim, cpc, mine, order>>
\* engine_pull takes all there is
Pull(c) ==
    /\ cpc[c] = "pull"
    /\ slot[mine[c]].ring > 0
    /\ taken' = [taken EXCEPT ![c] = @ + slot[mine[c]].ring]
    /\ slot' = [slot EXCEPT ![mine[c]].ring = 0]
    /\ epc' = IF slot[mine[c]].ring >= Ring THEN Woken ELSE epc
    /\ UNCHANGED <<setup, kv, hold, step, victim, cpc, mine, order>>

\* The request ends: enough tokens, the sequence's end, a stop string, a cancel;
\* engine_release first asks a live sequence to stop
Ends(c) == taken[c] > 0 \/ slot[mine[c]].state = "done"
Finish(c) ==
    /\ cpc[c] = "pull" /\ Ends(c)
    /\ IF slot[mine[c]].state \in {"prefill", "decode"}
       THEN slot' = [slot EXCEPT ![mine[c]].stop = TRUE] /\ epc' = Woken
       ELSE UNCHANGED <<slot, epc>>
    /\ cpc' = [cpc EXCEPT ![c] = "release"]
    /\ UNCHANGED <<setup, kv, hold, step, victim, mine, taken, order>>

\* Seeded fault: all of the reply counts as cached
Kept_Reply(s, n) == IF s.failed \/ s.rm >= 0 \/ s.src # NoSlot THEN 0
                    ELSE IF s.done < Len(s.prompt) THEN s.done ELSE Len(s.prompt) + n
\* What of prompt and reply is cached when a request ends.  The reply's last token
\* is sampled but not in the cache
Kept(s, n) == IF s.failed \/ s.rm >= 0 \/ s.src # NoSlot THEN 0
              ELSE Min({IF s.done < Len(s.prompt) THEN s.done ELSE s.past, Len(s.prompt) + n})
Reply(s, n) == s.prompt \o [k \in 1 .. n |-> 0]
Unpinned(sl, i) == [sl EXCEPT ![i].pins = @ - 1]

\* engine_release, cache_prompt and release_slot.  Of the tokens
\* pulled the reply holds the first n
Released(i, n) ==
    LET sl == IF slot[i].src = NoSlot THEN slot ELSE Unpinned(slot, slot[i].src)
    IN [sl EXCEPT ![i].state = "idle", ![i].src = NoSlot, ![i].toks = Cut(Reply(slot[i], n), Kept(slot[i], n)),
                  ![i].count = Kept(slot[i], n), ![i].prompt = <<>>, ![i].busy = FALSE, ![i].ring = 0, ![i].rm = -1]
ReleaseSlot(c) ==
    /\ cpc[c] = "release"
    /\ ~slot[mine[c]].in_step /\ slot[mine[c]].state = "done"
    /\ \E n \in 0 .. taken[c] : slot' = Released(mine[c], n)
    /\ cpc' = [cpc EXCEPT ![c] = "idle"] /\ mine' = [mine EXCEPT ![c] = NoSlot] /\ taken' = [taken EXCEPT ![c] = 0]
    /\ UNCHANGED <<setup, kv, hold, epc, step, victim, order>>

-----------------------------------------------------------------------------
(* engine_build_locked                                                     *)

HasWork ==
    \E i \in SlotId :
      \/ slot[i].state = "prefill"
      \/ slot[i].state = "decode" /\ (slot[i].stop \/ (slot[i].has_next /\ slot[i].ring < Ring))
EngineSleep ==
    /\ epc = "build" /\ ~HasWork
    /\ epc' = "sleep"
    /\ UNCHANGED <<setup, slot, kv, hold, step, victim, client, order>>

\* engine_finish_locked
Finished(s, failed) == [s EXCEPT !.state = "done", !.has_next = FALSE, !.failed = @ \/ failed]

Live(s) == s.state \in {"prefill", "decode"}
\* What the loop over the slots works on: a live sequence told to stop is finished instead
Runs(s) == Live(s) /\ ~s.stop
Row(s) == s.state = "decode" /\ s.has_next /\ s.ring < Ring

\* Seeded fault: the copy leaves its source pinned
Copies_Pinned(i) == {}
\* The slots copied from i in this build, each of which gives its pin back
Copies(i) == {j \in SlotId : Runs(slot[j]) /\ slot[j].src = i}
\* A fork has its source's prefix; a kept prefix is trimmed to what is kept, and a
\* trim the cache cannot do (a pruned sliding window) clears the sequence
Keep(i, lost) == IF i \in lost THEN 0 ELSE slot[i].rm
Forked(s) == [s EXCEPT !.done = s.len, !.count = s.len, !.src = NoSlot, !.rm = -1]
Trimmed(s, keep) ==
    [s EXCEPT !.rm = -1, !.done = IF keep = 0 THEN 0 ELSE @, !.count = IF keep = 0 THEN 0 ELSE @]
Moved(i, lost) ==
    IF slot[i].src # NoSlot THEN Forked(slot[i])
    ELSE IF slot[i].rm >= 0 THEN Trimmed(slot[i], Keep(i, lost)) ELSE slot[i]
Built(i, lost) ==
    LET s == slot[i]
        turn == IF ~Live(s) THEN s ELSE IF s.stop THEN Finished(s, FALSE)
                ELSE [Moved(i, lost) EXCEPT !.in_step = Row(s)]
    IN [turn EXCEPT !.chunk = 0, !.draft = 0, !.pins = @ - Cardinality(Copies(i))]
\* The cells: a copy is made of what the source's own turn of the loop left, if that
\* came first.  A pending fork has nothing cached, so it is no source itself
TrimmedCells(i, lost) ==
    IF Runs(slot[i]) /\ slot[i].rm >= 0 THEN Cut(kv[i], Min({Keep(i, lost), Len(kv[i])})) ELSE kv[i]
CopiedCells(i, lost) ==
    LET from == IF slot[i].src < i THEN TrimmedCells(slot[i].src, lost) ELSE kv[slot[i].src]
    IN Cut(from, Min({slot[i].len, Len(from)}))
BuiltCells(i, lost) ==
    IF Runs(slot[i]) /\ slot[i].src # NoSlot THEN CopiedCells(i, lost) ELSE TrimmedCells(i, lost)
\* g_prefill_hold, which a finished sequence ends
StillHeld == hold /\ \A i \in SlotId : Live(slot[i]) => ~slot[i].stop

\* Prompts join in the order of arrival while the budget lasts, a quarter of which
\* is always theirs; none while the pool is full and something decodes
Rows == {i \in SlotId : Runs(slot[i]) /\ Row(slot[i])}
Budget == IF StillHeld /\ Rows # {} THEN 0 ELSE Max({StepBudget - Cardinality(Rows), StepBudget \div 4})
Need(s) == Len(s.prompt) - s.done
Before(sl, i) == {j \in SlotId : sl[j].state = "prefill" /\ sl[j].order < sl[i].order}
Left(sl, i) == Budget - Sum([j \in SlotId |-> Need(sl[j])], Before(sl, i))
Filled(sl) ==
    [i \in SlotId |->
       IF sl[i].state = "prefill" /\ Left(sl, i) > 0
       THEN [sl[i] EXCEPT !.in_step = TRUE, !.chunk = Min({Need(sl[i]), Left(sl, i)})] ELSE sl[i]]

\* A slot of the step brings a token at least, so that only an empty one has none
engine_build(lost) ==
    /\ slot' = Filled([i \in SlotId |-> Built(i, lost)])
    /\ kv' = [i \in SlotId |-> BuiltCells(i, lost)]
    /\ hold' = StillHeld
    /\ epc' = IF \E i \in SlotId : slot'[i].in_step THEN "decode" ELSE "build"
EngineBuild ==
    /\ epc = "build" /\ HasWork
    /\ \E lost \in IF Share THEN {{}} ELSE SUBSET {i \in SlotId : slot[i].rm > 0} : engine_build(lost)
    /\ UNCHANGED <<setup, step, victim, client, order>>

-----------------------------------------------------------------------------
(* The step: llama_decode, and what is done about a full pool              *)

InStep == {i \in SlotId : slot[i].in_step}
Cells(k) == UNION {{<<p, k[i][p]>> : p \in DOMAIN k[i]} : i \in SlotId}
\* engine_mtp_draft: what a row may bring along, by room in the ring and in the reply
DraftCap(s) == IF s.state # "decode" THEN 0 ELSE Max({0, Min({MtpDraft, Ring - s.ring - 1, MaxNew - s.produced - 1})})
\* The cells after the step, with d[i] drafts behind the row of i
Decoded(d) ==
    [i \in SlotId |->
       LET s == slot[i] IN
       IF ~s.in_step THEN kv[i]
       ELSE IF s.state = "prefill" THEN kv[i] \o [k \in 1 .. s.chunk |-> <<s.prompt[s.done + k], s.order>>]
       ELSE kv[i] \o [k \in 1 .. 1 + d[i] |-> <<0, s.order>>]]
Drafts == {d \in [SlotId -> 0 .. MtpDraft] : \A i \in SlotId : d[i] <= IF i \in InStep THEN DraftCap(slot[i]) ELSE 0}
Fits(d) == Cardinality(Cells(Decoded(d))) <= setup.pool

\* engine_evict_idle: the oldest prefix that nobody uses or forks
Evictable == {i \in SlotId : ~slot[i].busy /\ slot[i].pins = 0 /\ slot[i].count > 0}
Oldest(S) == CHOOSE i \in S : \A j \in S : slot[i].used <= slot[j].used

EngineDecode ==
    /\ epc = "decode"
    /\ \E d \in Drafts :
         \/ /\ Fits(d)
            /\ kv' = Decoded(d)
            /\ slot' = [i \in SlotId |-> [slot[i] EXCEPT !.draft = d[i]]]
            /\ step' = "ok"
         \/ /\ Fits(d) /\ step' = "error"    \* any other failure of the decode
            /\ UNCHANGED <<slot, kv>>
    /\ epc' = "apply"
    /\ UNCHANGED <<setup, hold, victim, client, order>>
Full == \E d \in Drafts : ~Fits(d)
EngineEvict ==
    /\ epc = "decode" /\ Full /\ Evictable # {}
    /\ LET v == Oldest(Evictable) IN
       /\ slot' = [slot EXCEPT ![v].count = 0]
       /\ kv' = [kv EXCEPT ![v] = <<>>]
    /\ UNCHANGED <<setup, hold, epc, step, victim, client, order>>

\* The youngest prompt of the step, else its youngest request
Preempted ==
    LET prefill == {i \in InStep : slot[i].state = "prefill"}
        pool == IF prefill = {} THEN InStep ELSE prefill
    IN CHOOSE i \in pool : \A j \in pool : slot[i].order >= slot[j].order
EnginePreempt ==
    /\ epc = "decode" /\ Full /\ Evictable = {}
    /\ victim' = Preempted
    /\ kv' = [kv EXCEPT ![Preempted] = <<>>]
    /\ slot' = [slot EXCEPT ![Preempted].count = 0]
    /\ epc' = "apply" /\ step' = "full"
    /\ UNCHANGED <<setup, hold, client, order>>

-----------------------------------------------------------------------------
(* After the step, under g_engine_lock                                     *)

Settled(sl) == [i \in SlotId |-> [sl[i] EXCEPT !.in_step = FALSE]]
ApplyFull ==
    /\ epc = "apply" /\ step = "full"
    /\ LET s == slot[victim] IN
       \/ /\ s.state = "prefill"    \* back to the queue
          /\ slot' = Settled([slot EXCEPT ![victim].done = 0, ![victim].past = 0])
          /\ hold' = TRUE
       \/ /\ s.state # "prefill"
          /\ slot' = Settled([slot EXCEPT ![victim] = Finished(s, TRUE)])
          /\ hold' = FALSE
    /\ epc' = "build" /\ step' = "none" /\ victim' = NoSlot
    /\ UNCHANGED <<setup, kv, client, order>>
ApplyError ==
    /\ epc = "apply" /\ step = "error"
    /\ slot' = Settled([i \in SlotId |-> IF slot[i].in_step THEN Finished(slot[i], TRUE) ELSE slot[i]])
    /\ hold' = FALSE
    /\ epc' = "build" /\ step' = "none"
    /\ UNCHANGED <<setup, kv, victim, client, order>>

\* A prompt advances and may become a decoding sequence; a decoding one keeps the
\* drafts the sampler agreed with (m of them); both then have a token for the ring
Advance(s) == [s EXCEPT !.done = @ + s.chunk, !.count = IF Share /\ s.src = NoSlot THEN s.done + s.chunk ELSE @]
Sampled(s, m, eog) ==
    LET fed == IF s.state = "prefill"
               THEN [Advance(s) EXCEPT !.past = Len(s.prompt), !.state = "decode"]
               ELSE [s EXCEPT !.past = @ + 1 + m]
        put == [fed EXCEPT !.ring = @ + 1 + m, !.produced = @ + 1 + m]
    IN IF eog \/ put.produced >= MaxNew THEN Finished(put, FALSE) ELSE [put EXCEPT !.has_next = TRUE]
Partial(s) == s.state = "prefill" /\ s.done + s.chunk < Len(s.prompt)
After(i, m, eog) == IF ~slot[i].in_step THEN slot[i]
                    ELSE IF Partial(slot[i]) THEN Advance(slot[i]) ELSE Sampled(slot[i], m, eog)
ApplyOk ==
    /\ epc = "apply" /\ step = "ok"
    /\ \E m \in {f \in [SlotId -> 0 .. MtpDraft] : \A i \in SlotId : f[i] <= slot[i].draft}, ends \in SUBSET InStep :
         /\ \A i \in ends : ~Partial(slot[i])
         /\ \E next \in {[i \in SlotId |-> After(i, m[i], i \in ends)]} :
            /\ slot' = Settled(next)
            /\ kv' = [i \in SlotId |-> IF slot[i].in_step /\ slot[i].state = "decode" THEN Cut(kv[i], next[i].past) ELSE kv[i]]
            /\ hold' = (hold /\ \A i \in InStep : next[i].state # "done")
    /\ epc' = "build" /\ step' = "none"
    /\ UNCHANGED <<setup, victim, client, order>>

-----------------------------------------------------------------------------
Engine == EngineSleep \/ EngineBuild \/ EngineDecode \/ EngineEvict \/ EnginePreempt \/ ApplyFull \/ ApplyError \/ ApplyOk
LlmNext ==
    \/ Engine
    \/ \E c \in Client :
         \/ \E p \in Prompts : AcquireSlot(c, p)
         \/ Submit(c) \/ Pull(c) \/ Finish(c) \/ ReleaseSlot(c)
LlmSpec == LlmInit /\ [][LlmNext]_llmVars

\* The engine thread and the request threads run; a client keeps reading
LlmFairness ==
    /\ WF_llmVars(Engine)
    /\ \A c \in Client : WF_llmVars(Submit(c)) /\ WF_llmVars(Pull(c)) /\ WF_llmVars(Finish(c) /\ taken[c] >= MaxNew)
                         /\ WF_llmVars(Finish(c) /\ slot[mine[c]].state = "done") /\ WF_llmVars(ReleaseSlot(c))
LlmFairSpec == LlmSpec /\ LlmFairness

-----------------------------------------------------------------------------
(* Properties                                                              *)

\* What a slot says is cached is in the pool, token for token: of an idle slot, of
\* a kept prefix still to be trimmed, of a prompt as it is prefilled and of a reply.
\* A prefix too long by one and the next request attends to cells that are not there.
CacheBacked ==
    \A i \in SlotId :
      LET s == slot[i] cells == Toks(kv[i]) IN
      /\ s.count <= Len(cells) /\ Cut(s.toks, s.count) = Cut(cells, s.count)
      /\ s.state = "prefill" /\ ~s.in_step /\ s.src = NoSlot =>
           s.done <= Len(cells) /\ Cut(cells, s.done) = Cut(s.prompt, s.done)
      /\ s.state = "decode" /\ ~s.in_step => cells = Cut(Reply(s, s.produced), s.past)

\* A slot is pinned exactly while a fork from it is pending: a pin that outlives its
\* fork takes the slot out of service for good.
PinsExact ==
    \A i \in SlotId : slot[i].pins = Cardinality({j \in SlotId : slot[j].src = i})

\* Every request that was handed to the engine ends and gives its slot back: no full
\* ring, full pool or missed signal leaves it waiting.
RequestEnds == \A c \in Client : cpc[c] = "submit" ~> cpc[c] = "idle"
=============================================================================
