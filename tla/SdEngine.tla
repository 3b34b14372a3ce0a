------------------------------ MODULE SdEngine ------------------------------
(***************************************************************************)
(* The embedded image engine, src/src/backend_sd.c, as handle_images of    *)
(* src/src/main.c drives it: one diffusion context behind g_sd_lock, a     *)
(* cache of encoded images and captured latents behind g_cache_lock, and   *)
(* the switch of the context between streamed and resident weights, made   *)
(* by the residency thread or by the next request.                         *)
(*                                                                         *)
(* A request is its cache key and a kind: "plain" bypasses the cache,      *)
(* "cached" uses it, "override" asks for it but also overrides a default   *)
(* the key does not hold, "teleport" replays latents.                      *)
(***************************************************************************)
EXTENDS Collections, FiniteSets

CONSTANTS
    ImgThread,   \* worker threads
    ImgKey,      \* cache keys (prompt, size, steps, seed, LoRAs, source image)
    ImgLen,      \* key -> length of the encoded image
    CacheSlots,  \* g_latent_cache_size
    CacheMax,    \* cache_bytes_max
    MaxSwitches, MaxImages  \* bounds: wishes of the arbiter, requests

ImgAssumption ==
    /\ ImgLen \in [ImgKey -> Nat \ {0}]
    /\ CacheMax \in Nat \ {0} /\ CacheSlots \in Nat
    /\ "none" \notin ImgKey /\ "nobody" \notin ImgThread /\ "residency_main" \notin ImgThread

VARIABLES
    sd_lock,     \* holder of g_sd_lock
    context,     \* g_sd: 0 while NULL, else which context it is
    resident, sd_want,
    switching,   \* what the holder's sd_switch_locked is doing
    cache,       \* [e: the entries, lru: the used slots by tick, bytes: g_cache_bytes]
    ipc, ireq,   \* place and request of each thread
    islot,       \* `cached` / `entry`: the slot it works on, 0 none
    image,       \* the request whose render it holds
    wishes, images  \* bounds

ibounds == <<wishes, images>>
ictx == <<context, resident, sd_want, switching>>
ithread == <<ipc, ireq, islot, image>>
imgVars == <<sd_lock, ictx, cache, ithread, ibounds>>

Kind == {"plain", "cached", "override", "teleport"}
ImgReq == [key : ImgKey, kind : Kind]
Slot == 1 .. CacheSlots
Nobody == "nobody"
Arbiter == "residency_main"
NoImage == [key |-> "none", kind |-> "none"]
Empty == [key |-> "none", resume |-> FALSE, latent |-> 0, image |-> NoImage]

Len0(r) == IF r = NoImage THEN 0 ELSE ImgLen[r.key]

\* osd_init: the streamed context and an empty cache
ImgInit ==
    /\ sd_lock = Nobody /\ context = 1 /\ resident = FALSE /\ sd_want = -1 /\ switching = "no"
    /\ cache = [e |-> [s \in Slot |-> Empty], lru |-> <<>>, bytes |-> 0]
    /\ ipc = [t \in ImgThread |-> "idle"] /\ ireq = [t \in ImgThread |-> NoImage]
    /\ islot = [t \in ImgThread |-> 0]
    /\ image = [t \in ImgThread |-> NoImage]
    /\ wishes = 0 /\ images = 0

-----------------------------------------------------------------------------
(* The cache                                                               *)

Used(c) == {s \in Slot : c.e[s].key # "none"}
Imaged(c) == {s \in Slot : c.e[s].image # NoImage}
\* The bytes of the images in the slots S
Held(c, S) == Sum([s \in Slot |-> Len0(c.e[s].image)], S)
cache_key_equal(c, s, r, resume) == c.e[s].key = r.key /\ c.e[s].resume = resume
\* The slot with this key, 0 if there is none
Lookup(c, r, resume) ==
    LET found == {s \in Slot : cache_key_equal(c, s, r, resume)}
    IN IF found = {} THEN 0 ELSE Min(found)
Without(q, S) == SelectAt(q, {i \in DOMAIN q : q[i] \notin S})
Touched(c, s) == [c EXCEPT !.lru = Append(Without(@, {s}), s)]
cache_find(c, r, resume) == IF Lookup(c, r, resume) = 0 THEN c ELSE Touched(c, Lookup(c, r, resume))

\* cache_entry_clear of the slots S
Cleared(c, S) ==
    [e |-> [s \in Slot |-> IF s \in S THEN Empty ELSE c.e[s]],
     lru |-> Without(c.lru, S), bytes |-> c.bytes - Held(c, S)]
cache_entry_clear(c, s) == Cleared(c, {s})

\* The slot an insert takes: the key's own, the first empty one, the oldest
Place(c, r, resume) ==
    IF Lookup(c, r, resume) # 0 THEN Lookup(c, r, resume)
    ELSE IF Used(c) # Slot THEN Min(Slot \ Used(c)) ELSE Head(c.lru)
cache_insert(c, r, resume, latent) ==
    IF latent = 0 /\ Lookup(c, r, resume) # 0 THEN Touched(c, Lookup(c, r, resume))
    ELSE LET s == Place(c, r, resume)
         IN [Touched(cache_entry_clear(c, s), s) EXCEPT
               !.e[s] = [key |-> r.key, resume |-> resume, latent |-> latent, image |-> NoImage]]

\* Least recently used first, the images other than s that go before n bytes fit
Age(c, v) == CHOOSE i \in DOMAIN c.lru : c.lru[i] = v
Victims(c, s, n) ==
    {v \in Imaged(c) \ {s} :
       c.bytes - Held(c, {u \in Imaged(c) \ {s} : Age(c, u) < Age(c, v)}) + n > CacheMax}
\* The old image goes, then the victims
cache_store_encoded_result(c, s, r) ==
    LET n == ImgLen[r.key]
        bare == [c EXCEPT !.e[s].image = NoImage, !.bytes = @ - Len0(c.e[s].image)]
    IN IF n > CacheMax THEN c
       ELSE [Cleared(bare, Victims(bare, s, n)) EXCEPT !.e[s].image = r, !.bytes = @ + n]

-----------------------------------------------------------------------------
(* A request up to the lane                                                *)

Goto(t, where) == ipc' = [ipc EXCEPT ![t] = where]
Done(t) ==
    /\ Goto(t, "idle")
    /\ ireq' = [ireq EXCEPT ![t] = NoImage]
    /\ islot' = [islot EXCEPT ![t] = 0] /\ image' = [image EXCEPT ![t] = NoImage]

\* handle_images: with no context, a demotion's gap included, nothing is served
ImgArrive(t) ==
    /\ ipc[t] = "idle" /\ images < MaxImages /\ context # 0
    /\ images' = images + 1
    /\ \E r \in ImgReq : ireq' = [ireq EXCEPT ![t] = r]
    /\ Goto(t, "try")
    /\ UNCHANGED <<sd_lock, ictx, cache, islot, image, wishes>>

\* osd_try_cached_result: by the key alone, without g_sd_lock
Tries(t) == context # 0 /\ ireq[t].kind \in {"cached", "override"}
ImgTryCached(t) ==
    /\ ipc[t] = "try"
    /\ LET s == Lookup(cache, ireq[t], FALSE)
           hit == Tries(t) /\ s # 0 /\ cache.e[s].image # NoImage
       IN /\ cache' = IF Tries(t) THEN cache_find(cache, ireq[t], FALSE) ELSE cache
          /\ image' = [image EXCEPT ![t] = IF hit THEN cache.e[s].image ELSE NoImage]
          /\ Goto(t, IF hit THEN "reply" ELSE "lease")
    /\ UNCHANGED <<sd_lock, ictx, ireq, islot, ibounds>>

\* The memory lease is granted and osd_generate begins, or it is refused
ImgLease(t) ==
    /\ ipc[t] = "lease"
    /\ \/ Goto(t, "enter") /\ UNCHANGED <<ireq, islot, image>>
       \/ Done(t)
    /\ UNCHANGED <<sd_lock, ictx, cache, ibounds>>

\* osd_generate reads g_sd before it takes the lock: NULL fails the request
ImgEnter(t) ==
    /\ ipc[t] = "enter"
    /\ \/ context = 0 /\ Done(t)
       \/ context # 0 /\ Goto(t, "lock") /\ UNCHANGED <<ireq, islot, image>>
    /\ UNCHANGED <<sd_lock, ictx, cache, ibounds>>

\* A pending wish is carried out before the request is
ImgLock(t) ==
    /\ ipc[t] = "lock" /\ sd_lock = Nobody
    /\ sd_lock' = t
    /\ IF sd_want >= 0 /\ (sd_want = 1) # resident
       THEN switching' = (IF sd_want = 1 THEN "promote" ELSE "demote") /\ Goto(t, "switch")
       ELSE UNCHANGED switching /\ Goto(t, "lookup")
    /\ UNCHANGED <<context, resident, sd_want, cache, ireq, islot, image, ibounds>>

-----------------------------------------------------------------------------
(* sd_switch_locked, by whoever holds the lock                             *)

NoLatents(c) == Cleared(c, {s \in Slot : c.e[s].latent # 0})

SwitchDone ==
    /\ switching' = "no"
    /\ IF sd_lock = Arbiter THEN sd_lock' = Nobody /\ UNCHANGED ipc
                            ELSE Goto(sd_lock, "lookup") /\ UNCHANGED sd_lock

\* The resident context is built beside the streamed one, or not at all
SwPromote ==
    /\ switching = "promote"
    /\ \/ /\ context' = wishes + 2 /\ resident' = TRUE
          /\ cache' = NoLatents(cache) /\ UNCHANGED sd_want
       \/ sd_want' = -1 /\ UNCHANGED <<context, resident, cache>>
    /\ SwitchDone
    /\ UNCHANGED <<ireq, islot, image, ibounds>>
\* The resident context goes first: g_sd is NULL until the streamed one is built
SwFree ==
    /\ switching = "demote"
    /\ switching' = "rebuild" /\ context' = 0
    /\ UNCHANGED <<sd_lock, resident, sd_want, cache, ithread, ibounds>>
SwRebuild ==
    /\ switching = "rebuild"
    /\ context' = wishes + 2 /\ resident' = FALSE
    /\ cache' = NoLatents(cache)
    /\ SwitchDone
    /\ UNCHANGED <<sd_want, ireq, islot, image, ibounds>>
\* A failed rebuild aborts the process, which starts again
SwAbort ==
    /\ switching = "rebuild"
    /\ sd_lock' = Nobody /\ context' = 1 /\ resident' = FALSE /\ sd_want' = -1 /\ switching' = "no"
    /\ cache' = [e |-> [s \in Slot |-> Empty], lru |-> <<>>, bytes |-> 0]
    /\ ipc' = [t \in ImgThread |-> "idle"] /\ ireq' = [t \in ImgThread |-> NoImage]
    /\ islot' = [t \in ImgThread |-> 0]
    /\ image' = [t \in ImgThread |-> NoImage]
    /\ UNCHANGED ibounds

\* osd_set_resident(r, false)
SwAsk(r) ==
    /\ wishes < MaxSwitches /\ wishes' = wishes + 1
    /\ sd_want' = (IF r THEN 1 ELSE 0)
    /\ IF sd_lock = Nobody /\ r # resident
       THEN sd_lock' = Arbiter /\ switching' = (IF r THEN "promote" ELSE "demote")
       ELSE UNCHANGED <<sd_lock, switching>>
    /\ UNCHANGED <<context, resident, cache, ithread, images>>
osd_residency_settled ==
    /\ sd_want >= 0 /\ sd_want' = -1
    /\ UNCHANGED <<sd_lock, context, resident, switching, cache, ithread, ibounds>>

-----------------------------------------------------------------------------
(* osd_generate, holding g_sd_lock                                         *)

ResultCache(r) == r.kind = "cached"
Teleports(r) == r.kind = "teleport"

\* A stored image is copied and the lane left; else a latent may be resumed from
ImgLookup(t) ==
    /\ ipc[t] = "lookup"
    /\ LET r == ireq[t]
           looks == ResultCache(r) \/ Teleports(r)
           s == IF looks THEN Lookup(cache, r, Teleports(r)) ELSE 0
           hit == s # 0 /\ cache.e[s].image # NoImage
       IN /\ cache' = IF looks THEN cache_find(cache, r, Teleports(r)) ELSE cache
          /\ image' = [image EXCEPT ![t] = IF hit THEN cache.e[s].image ELSE NoImage]
          /\ islot' = [islot EXCEPT ![t] = IF Teleports(r) /\ ~hit THEN s ELSE 0]
          /\ Goto(t, IF hit THEN "reply" ELSE "render")
          /\ sd_lock' = IF hit THEN Nobody ELSE sd_lock
    /\ UNCHANGED <<ictx, ireq, ibounds>>

\* The render with latent replay: a new latent is cached if one was captured, a
\* latent that fails is dropped and the image rendered without it
Replayed(t) ==
    IF islot[t] # 0 THEN {[c |-> cache, teleport |-> TRUE]}
    ELSE {[c |-> cache, teleport |-> TRUE]}    \* no latent returned, or no memory to keep it
         \cup (IF CacheSlots > 0 THEN {[c |-> cache_insert(cache, ireq[t], TRUE, context), teleport |-> TRUE]} ELSE {})
Failed(t) == [c |-> IF islot[t] # 0 THEN cache_entry_clear(cache, islot[t]) ELSE cache, teleport |-> FALSE]
ImgRender(t) ==
    /\ ipc[t] = "render" /\ sd_lock = t
    /\ \E out \in IF Teleports(ireq[t]) THEN Replayed(t) \cup {Failed(t)} ELSE {[c |-> cache, teleport |-> FALSE]} :
         /\ cache' = out.c
         /\ \/ /\ image' = [image EXCEPT ![t] = ireq[t]]
               /\ Goto(t, IF ResultCache(ireq[t]) THEN "insert" ELSE IF out.teleport THEN "refind" ELSE "reply")
               /\ islot' = [islot EXCEPT ![t] = IF out.teleport THEN @ ELSE 0]
               /\ UNCHANGED ireq
            \/ Done(t)    \* the render or the encoder failed
    /\ sd_lock' = Nobody
    /\ UNCHANGED <<ictx, ibounds>>

\* The encoded image is stored under the lock taken again
ImgInsert(t) ==
    /\ ipc[t] = "insert" /\ sd_lock = Nobody
    /\ \/ /\ CacheSlots > 0 /\ sd_lock' = t
          /\ cache' = cache_insert(cache, ireq[t], FALSE, 0)
          /\ islot' = [islot EXCEPT ![t] = Place(cache, ireq[t], FALSE)]
          /\ Goto(t, "store")
       \/ Goto(t, "reply") /\ UNCHANGED <<sd_lock, cache, islot>>   \* no slot or no memory
    /\ UNCHANGED <<ictx, ireq, image, ibounds>>

\* Seeded fault: the entry found before the lock was left is used again
ImgRefind_Remembers(t) ==
    /\ ipc[t] = "refind" /\ sd_lock = Nobody
    /\ IF islot[t] = 0 THEN Goto(t, "reply") /\ UNCHANGED <<sd_lock, islot>>
                       ELSE Goto(t, "store") /\ sd_lock' = t /\ UNCHANGED islot
    /\ UNCHANGED <<ictx, cache, ireq, image, ibounds>>
\* The latent's entry is looked up again: it may be gone or moved
ImgRefind(t) ==
    /\ ipc[t] = "refind" /\ sd_lock = Nobody
    /\ LET s == Lookup(cache, ireq[t], TRUE)
       IN /\ cache' = cache_find(cache, ireq[t], TRUE)
          /\ islot' = [islot EXCEPT ![t] = s]
          /\ IF s = 0 THEN Goto(t, "reply") /\ UNCHANGED sd_lock ELSE Goto(t, "store") /\ sd_lock' = t
    /\ UNCHANGED <<ictx, ireq, image, ibounds>>
ImgStore(t) ==
    /\ ipc[t] = "store"
    /\ cache' = cache_store_encoded_result(cache, islot[t], image[t])
    /\ sd_lock' = Nobody /\ Goto(t, "reply")
    /\ UNCHANGED <<ictx, ireq, islot, image, ibounds>>
ImgReply(t) ==
    /\ ipc[t] = "reply"
    /\ Done(t)
    /\ UNCHANGED <<sd_lock, ictx, cache, ibounds>>

ImgNext ==
    \/ \E t \in ImgThread :
         \/ ImgArrive(t) \/ ImgTryCached(t) \/ ImgLease(t) \/ ImgEnter(t) \/ ImgLock(t) \/ ImgLookup(t)
         \/ ImgRender(t) \/ ImgInsert(t) \/ ImgRefind(t) \/ ImgStore(t) \/ ImgReply(t)
    \/ SwPromote \/ SwFree \/ SwRebuild \/ SwAbort
    \/ \E r \in BOOLEAN : SwAsk(r)
    \/ osd_residency_settled

ImgSpec == ImgInit /\ [][ImgNext]_imgVars

-----------------------------------------------------------------------------
(* Properties                                                              *)

\* The cache's byte count is the sum of what it stores and within the budget,
\* through inserts, replacements, evictions and switches (g_cache_bytes is
\* unsigned: one miscount and nothing is ever evicted, or everything is).
BytesExact ==
    /\ cache.bytes = Held(cache, Slot)
    /\ cache.bytes <= CacheMax

\* Whatever moved in the cache between a render and its store, an image sits under
\* the key it was rendered for and a request is served an image of its own key.
CacheHoldsKey ==
    /\ \A s \in Slot : cache.e[s].image # NoImage =>
         cache_key_equal(cache, s, cache.e[s].image, Teleports(cache.e[s].image))
    /\ \A t \in ImgThread : ipc[t] = "reply" =>
         image[t].key = ireq[t].key /\ (Teleports(image[t]) <=> Teleports(ireq[t]))

\* "A cache_entry pointer found under g_sd_lock stays valid for as long as
\* g_sd_lock is held" (backend_sd.c 411): the latent a render resumes from belongs
\* to its request and to the context that renders.
LatentLive ==
    \A t \in ImgThread : ipc[t] = "render" =>
      /\ context # 0
      /\ islot[t] # 0 => /\ cache_key_equal(cache, islot[t], ireq[t], TRUE)
                         /\ cache.e[islot[t]].latent = context
=============================================================================
