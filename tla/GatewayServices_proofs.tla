----------------------- MODULE GatewayServices_proofs -----------------------
(***************************************************************************)
(* Proofs about the services a request passes in the gateway, for any      *)
(* number of threads, credentials and connections and any time limits.     *)
(***************************************************************************)
EXTENDS MC_GatewayServices, CollectionTheorems, FiniteSetTheorems, TLAPS

-----------------------------------------------------------------------------
(* The subscriber cache                                                    *)

LEMMA MaxOfTwo ==
    ASSUME NEW a \in Nat, NEW b \in Nat
    PROVE  Auth!Max({a, b}) >= a /\ Auth!Max({a, b}) >= b /\ Auth!Max({a, b}) \in Nat
<1>1. CASE a >= b
  <2>1. a \in {a, b} /\ \A y \in {a, b} : a >= y
    BY <1>1
  <2> QED BY <2>1 DEF Auth!Max
<1>2. CASE b >= a
  <2>1. b \in {a, b} /\ \A y \in {a, b} : b >= y
    BY <1>2
  <2> QED BY <2>1 DEF Auth!Max
<1> QED BY <1>1, <1>2

\* What an entry of the cache is worth: it ends within its limit of the last time
\* the verifier gave that verdict
EntryBacked(e) ==
    e.cred \in Cred =>
      IF Auth!Positive(e.verdict)
      THEN /\ said[e.cred].ok >= 0
           /\ e.fresh <= said[e.cred].ok + OkTtl /\ e.stale <= said[e.cred].ok + StaleTtl
      ELSE /\ e.fresh > 0 => said[e.cred].deny >= 0
           /\ e.fresh <= said[e.cred].deny + DenyTtl
\* A verdict on its way into the cache was given at this very moment: no time
\* passes between the answer and subcache_put
JustSaid(a) ==
    LET c == areq[a].cred
    IN  IF Auth!Positive(areq[a].verdict) THEN said[c].ok = clock ELSE said[c].deny = clock
Verdict == {"sub", "paid", "401", "402"}
Entry == [cred : Cred \cup {"nobody"}, verdict : Verdict, fresh : Nat, stale : Nat]
AuthRequest == [cred : Cred \cup {"nobody"}, verdict : Verdict, tier : Verdict \cup {"free"},
                ends : {"none", "passed", "refused", "503", "subscriber"}]
AuthPlace == {"idle", "mode", "gate", "verify", "put", "decide", "tier", "done"}
AuthType ==
    /\ clock \in Nat
    /\ subcache \in [Auth!Range(HashOf) -> Entry]
    /\ account \in [Cred -> Verdict]
    /\ apc \in [AuthThread -> AuthPlace] /\ areq \in [AuthThread -> AuthRequest]
    /\ said \in [Cred -> [ok : Int, deny : Int]]
AuthInv ==
    /\ AuthType
    /\ \A c \in Cred : said[c].ok <= clock /\ said[c].deny <= clock
    /\ \A a \in AuthThread : apc[a] # "idle" => areq[a].cred \in Cred
    /\ \A a \in AuthThread : apc[a] = "put" => JustSaid(a)
    /\ \A h \in Auth!Range(HashOf) : EntryBacked(subcache[h])
    /\ VerdictsExpire

LEMMA AuthConstants ==
    /\ OkTtl \in Nat /\ StaleTtl \in Nat /\ DenyTtl \in Nat \ {0}
    /\ Auth!Max({OkTtl, StaleTtl}) \in Nat
    /\ Auth!Max({OkTtl, StaleTtl}) >= OkTtl /\ Auth!Max({OkTtl, StaleTtl}) >= StaleTtl
    /\ \A c \in Cred : HashOf[c] \in Auth!Range(HashOf)
<1>1. OkTtl \in Nat /\ StaleTtl \in Nat /\ DenyTtl \in Nat \ {0} /\ DOMAIN HashOf = Cred
  BY GatewayAssumption DEF Auth!AuthAssumption
<1>2. \A c \in Cred : HashOf[c] \in Auth!Range(HashOf)
  BY <1>1 DEF Auth!Range
<1> QED BY <1>1, <1>2, MaxOfTwo

LEMMA AuthInvInit == Auth!AuthInit => AuthInv
<1> SUFFICES ASSUME Auth!AuthInit PROVE AuthInv
  OBVIOUS
<1> USE DEF Auth!AuthInit, Auth!NobodyKnown, Auth!NoRequest
<1>1. AuthType
  BY DEF AuthType, Entry, Verdict, AuthRequest, AuthPlace
<1>2. \A h \in Auth!Range(HashOf) : EntryBacked(subcache[h])
  BY AuthConstants DEF EntryBacked, Auth!Positive, Auth!Refusals
<1>3. \A c \in Cred : said[c].ok <= clock /\ said[c].deny <= clock
  OBVIOUS
<1>4. \A a \in AuthThread : apc[a] = "idle"
  OBVIOUS
<1> QED BY <1>1, <1>2, <1>3, <1>4 DEF AuthInv, VerdictsExpire, Auth!VerdictsExpire

\* A verdict that may decide a request, as VerdictsExpire says
Timely(r) ==
    IF Auth!Positive(r.verdict)
    THEN said[r.cred].ok >= 0 /\ clock - said[r.cred].ok <= Auth!Max({OkTtl, StaleTtl})
    ELSE said[r.cred].deny >= 0 /\ clock - said[r.cred].deny <= DenyTtl

(* A thread moves on and nothing it shares changes.                         *)
LEMMA AuthGotoInv ==
    ASSUME AuthInv, NEW a \in AuthThread, NEW l \in AuthPlace, NEW r \in AuthRequest,
           Auth!AuthGoto(a, l, r), l # "put", l # "idle" => r.cred \in Cred,
           l = "decide" => Timely(r),
           UNCHANGED <<clock, subcache, account, said>>
    PROVE  AuthInv'
<1> USE DEF AuthInv, Auth!AuthGoto
<1>1. AuthType'
  BY DEF AuthType
<1>2. \A b \in AuthThread : apc'[b] = (IF b = a THEN l ELSE apc[b])
                         /\ areq'[b] = (IF b = a THEN r ELSE areq[b])
  BY DEF AuthType
<1>3. \A b \in AuthThread : apc'[b] = "put" => JustSaid(b)'
  BY <1>2 DEF JustSaid
<1>4. VerdictsExpire'
  BY <1>2 DEF VerdictsExpire, Auth!VerdictsExpire, Timely, Auth!Positive, Auth!Refusals, Auth!Max
<1>5. \A h \in Auth!Range(HashOf) : EntryBacked(subcache[h])'
  BY DEF EntryBacked
<1> QED BY <1>1, <1>2, <1>3, <1>4, <1>5

(* What the cache serves, fresh or stale, is timely.                        *)
LEMMA ServedIsTimely ==
    ASSUME AuthInv, NEW a \in AuthThread, areq[a].cred \in Cred,
           Auth!SubFresh(areq[a].cred) \/ Auth!SubUsable(areq[a].cred)
    PROVE  /\ [areq[a] EXCEPT !.verdict = Auth!SubSlot(areq[a].cred).verdict] \in AuthRequest
           /\ Timely([areq[a] EXCEPT !.verdict = Auth!SubSlot(areq[a].cred).verdict])
<1> DEFINE c == areq[a].cred  e == subcache[HashOf[c]]
<1>1. e \in Entry /\ EntryBacked(e)
  BY AuthConstants DEF AuthInv, AuthType
<1>2. e.cred = c /\ e.verdict \in Verdict
  BY <1>1 DEF Auth!SubFresh, Auth!SubUsable, Auth!SubSlot, Entry
<1>3. areq[a] \in AuthRequest /\ clock \in Nat /\ said[c].ok \in Int /\ said[c].deny \in Int
  BY DEF AuthInv, AuthType
<1>4. e.fresh \in Nat /\ e.stale \in Nat
  BY <1>1 DEF Entry
<1>5. IF Auth!Positive(e.verdict)
      THEN said[c].ok >= 0 /\ clock - said[c].ok <= Auth!Max({OkTtl, StaleTtl})
      ELSE said[c].deny >= 0 /\ clock - said[c].deny <= DenyTtl
  BY <1>1, <1>2, <1>3, <1>4, AuthConstants
  DEF Auth!SubFresh, Auth!SubUsable, Auth!SubSlot, EntryBacked
<1> QED BY <1>2, <1>3, <1>5 DEF Timely, AuthRequest, Auth!SubSlot

LEMMA AuthInvNext == AuthInv /\ [Auth!AuthNext]_(Auth!authVars) => AuthInv'
<1> SUFFICES ASSUME AuthInv, [Auth!AuthNext]_(Auth!authVars) PROVE AuthInv'
  OBVIOUS
<1>t. \A a \in AuthThread : areq[a] \in AuthRequest /\ (apc[a] # "idle" => areq[a].cred \in Cred)
  BY DEF AuthInv, AuthType
<1>1. CASE Auth!AuthTick
  BY <1>1 DEF Auth!AuthTick, AuthInv, AuthType, EntryBacked, JustSaid, VerdictsExpire,
              Auth!VerdictsExpire
<1>2. ASSUME NEW m \in Modes, Auth!WriteMode(m) PROVE AuthInv'
  BY <1>2 DEF Auth!WriteMode, AuthInv, AuthType, EntryBacked, JustSaid, VerdictsExpire,
              Auth!VerdictsExpire
<1>3. ASSUME NEW c \in Cred, NEW v \in {"sub", "401"}, Auth!AccountChanges(c, v) PROVE AuthInv'
  BY <1>3 DEF Auth!AccountChanges, AuthInv, AuthType, EntryBacked, JustSaid, VerdictsExpire,
              Auth!VerdictsExpire, Verdict
<1>4. ASSUME NEW a \in AuthThread, NEW c \in Cred, Auth!AuthArrive(a, c) PROVE AuthInv'
  <2>1. [Auth!NoRequest EXCEPT !.cred = c] \in AuthRequest
        /\ [Auth!NoRequest EXCEPT !.cred = c].cred \in Cred
    BY DEF Auth!NoRequest, AuthRequest, Verdict
  <2> QED BY <1>4, <2>1, AuthGotoInv DEF Auth!AuthArrive, AuthPlace
<1>5. ASSUME NEW a \in AuthThread, Auth!ReadMode(a) \/ Auth!PassUnasked(a) PROVE AuthInv'
  <2>1. [areq[a] EXCEPT !.ends = "passed"] \in AuthRequest
        /\ [areq[a] EXCEPT !.ends = "passed"].cred = areq[a].cred
    BY <1>t DEF AuthRequest
  <2> QED BY <1>5, <1>t, <2>1, AuthGotoInv DEF Auth!ReadMode, Auth!PassUnasked, AuthPlace
<1>6. ASSUME NEW a \in AuthThread, Auth!AuthCheck(a) PROVE AuthInv'
  <2>1. areq[a].cred \in Cred
    BY <1>6, <1>t DEF Auth!AuthCheck
  <2>2. \A v : [areq[a] EXCEPT !.verdict = v].cred = areq[a].cred
    BY <1>t DEF AuthRequest
  <2>3. CASE Auth!SubFresh(areq[a].cred)
    BY <1>6, <2>1, <2>2, <2>3, ServedIsTimely, AuthGotoInv DEF Auth!AuthCheck, AuthPlace
  <2>4. CASE ~Auth!SubFresh(areq[a].cred)
    BY <1>6, <1>t, <2>1, <2>4, AuthGotoInv DEF Auth!AuthCheck, AuthPlace
  <2> QED BY <2>3, <2>4
<1>7. ASSUME NEW a \in AuthThread, Auth!VerifierAnswers(a) PROVE AuthInv'
  <2> DEFINE c == areq[a].cred  v == account[c]  r == [areq[a] EXCEPT !.verdict = v]
  <2>1. c \in Cred /\ v \in Verdict /\ r \in AuthRequest /\ r.cred = c /\ r.verdict = v
    BY <1>7, <1>t DEF Auth!VerifierAnswers, AuthInv, AuthType, AuthRequest
  <2>2. \A b \in AuthThread : /\ apc'[b] = (IF b = a THEN "put" ELSE apc[b])
                              /\ areq'[b] = (IF b = a THEN r ELSE areq[b])
    BY <1>7 DEF Auth!VerifierAnswers, Auth!AuthGoto, AuthInv, AuthType
  <2>3. /\ said' \in [Cred -> [ok : Int, deny : Int]]
        /\ \A d \in Cred :
             /\ said'[d].ok = IF d = c /\ Auth!Positive(v) THEN clock ELSE said[d].ok
             /\ said'[d].deny = IF d = c /\ ~Auth!Positive(v) THEN clock ELSE said[d].deny
    BY <1>7, <2>1 DEF Auth!VerifierAnswers, AuthInv, AuthType
  <2>4. AuthType' /\ clock' = clock /\ subcache' = subcache
    BY <1>7, <2>1, <2>3 DEF Auth!VerifierAnswers, Auth!AuthGoto, AuthInv, AuthType, AuthPlace
  <2>5. \A d \in Cred : /\ said'[d].ok <= clock' /\ said'[d].deny <= clock'
                        /\ said'[d].ok >= said[d].ok /\ said'[d].deny >= said[d].deny
    BY <2>3, <2>4 DEF AuthInv, AuthType
  <2>6. \A b \in AuthThread : apc'[b] # "idle" => areq'[b].cred \in Cred
    BY <1>t, <2>1, <2>2
  <2>7. ASSUME NEW b \in AuthThread, apc'[b] = "put" PROVE JustSaid(b)'
    <3>1. CASE b = a
      BY <2>1, <2>2, <2>3, <2>4, <3>1 DEF JustSaid, Auth!Positive, Auth!Refusals
    <3>2. CASE b # a
      <4>1. areq'[b] = areq[b] /\ areq[b].cred \in Cred /\ JustSaid(b)
        BY <1>t, <2>2, <2>7, <3>2 DEF AuthInv
      <4> QED BY <2>3, <2>4, <4>1 DEF JustSaid, Auth!Positive, Auth!Refusals
    <3> QED BY <3>1, <3>2
  <2>8. ASSUME NEW h \in Auth!Range(HashOf) PROVE EntryBacked(subcache[h])'
    <3>1. subcache[h] \in Entry /\ EntryBacked(subcache[h])
      BY DEF AuthInv, AuthType
    <3> QED BY <2>3, <2>4, <2>5, <3>1, AuthConstants DEF EntryBacked, Entry, AuthInv, AuthType
  <2>9. VerdictsExpire'
    <3> SUFFICES ASSUME NEW b \in AuthThread, apc'[b] = "decide" PROVE Timely(areq[b])'
      BY DEF VerdictsExpire, Auth!VerdictsExpire, Timely
    <3>1. areq'[b] = areq[b] /\ areq[b].cred \in Cred /\ Timely(areq[b])
      BY <1>t, <2>2 DEF AuthInv, VerdictsExpire, Auth!VerdictsExpire, Timely
    <3> QED BY <2>3, <2>4, <2>5, <3>1, AuthConstants
            DEF AuthType, Timely, Auth!Positive, Auth!Refusals, Auth!Max
  <2> QED BY <2>4, <2>5, <2>6, <2>7, <2>8, <2>9 DEF AuthInv
<1>8. ASSUME NEW a \in AuthThread, Auth!AuthPut(a) PROVE AuthInv'
  <2> DEFINE c == areq[a].cred  e == Auth!SubEntry(c, areq[a].verdict)
  <2>1. c \in Cred /\ JustSaid(a) /\ areq[a].verdict \in Verdict /\ clock \in Nat
    BY <1>8, <1>t DEF Auth!AuthPut, AuthInv, AuthType, AuthRequest
  <2>2. e \in Entry /\ EntryBacked(e)
    BY <2>1, AuthConstants DEF Auth!SubEntry, Entry, EntryBacked, JustSaid
  <2>3. \A b \in AuthThread : /\ apc'[b] = (IF b = a THEN "decide" ELSE apc[b])
                              /\ areq'[b] = areq[b]
    BY <1>8 DEF Auth!AuthPut, Auth!AuthGoto, AuthInv, AuthType
  <2>4. AuthType' /\ clock' = clock /\ said' = said
    BY <1>8, <2>2 DEF Auth!AuthPut, Auth!AuthGoto, AuthInv, AuthType, AuthPlace
  <2>5. ASSUME NEW h \in Auth!Range(HashOf) PROVE EntryBacked(subcache[h])'
    <3>1. subcache'[h] = e \/ subcache'[h] = subcache[h]
      BY <1>8 DEF Auth!AuthPut, AuthInv, AuthType
    <3>2. EntryBacked(subcache'[h])
      BY <2>2, <3>1 DEF AuthInv
    <3> QED BY <2>4, <3>2 DEF EntryBacked
  <2>6. \A b \in AuthThread : apc'[b] = "put" => JustSaid(b)'
    BY <2>3, <2>4 DEF AuthInv, JustSaid
  <2>7. VerdictsExpire'
    BY <2>1, <2>3, <2>4, AuthConstants 
    DEF AuthInv, VerdictsExpire, Auth!VerdictsExpire, JustSaid, Auth!Positive, Auth!Refusals
  <2>8. \A b \in AuthThread : apc'[b] # "idle" => areq'[b].cred \in Cred
    BY <1>t, <2>1, <2>3
  <2> QED BY <2>4, <2>5, <2>6, <2>7, <2>8 DEF AuthInv
<1>9. ASSUME NEW a \in AuthThread, Auth!VerifierFails(a) PROVE AuthInv'
  <2>1. areq[a].cred \in Cred
    BY <1>9, <1>t DEF Auth!VerifierFails
  <2>2. /\ \A v : [areq[a] EXCEPT !.verdict = v].cred = areq[a].cred
        /\ \A v \in {"passed", "503"} : /\ [areq[a] EXCEPT !.ends = v].cred = areq[a].cred
                                        /\ [areq[a] EXCEPT !.ends = v] \in AuthRequest
    BY <1>t DEF AuthRequest
  <2>3. CASE Auth!SubUsable(areq[a].cred) /\ ~Auth!SubFresh(areq[a].cred)
    BY <1>9, <2>1, <2>2, <2>3, ServedIsTimely, AuthGotoInv DEF Auth!VerifierFails, AuthPlace
  <2>4. CASE ~(Auth!SubUsable(areq[a].cred) /\ ~Auth!SubFresh(areq[a].cred))
    BY <1>9, <2>1, <2>2, <2>4, AuthGotoInv DEF Auth!VerifierFails, AuthPlace
  <2> QED BY <2>3, <2>4
<1>10. ASSUME NEW a \in AuthThread, Auth!AuthDecide(a) PROVE AuthInv'
  <2>1. \A v \in {"passed", "refused"} : /\ [areq[a] EXCEPT !.ends = v].cred = areq[a].cred
                                         /\ [areq[a] EXCEPT !.ends = v] \in AuthRequest
    BY <1>t DEF AuthRequest
  <2> QED BY <1>10, <1>t, <2>1, AuthGotoInv DEF Auth!AuthDecide, AuthPlace
<1>11. ASSUME NEW a \in AuthThread, Auth!RequestTier(a) PROVE AuthInv'
  <2> DEFINE r == [areq[a] EXCEPT !.tier = Auth!TierOf(areq[a].cred), !.ends = "subscriber"]
  <2>1. areq[a].cred \in Cred
    BY <1>11, <1>t DEF Auth!RequestTier
  <2>2. Auth!TierOf(areq[a].cred) \in Verdict \cup {"free"}
    BY <2>1, AuthConstants DEF Auth!TierOf, Auth!SubSlot, AuthInv, AuthType, Entry
  <2>3. r \in AuthRequest /\ r.cred = areq[a].cred
    BY <1>t, <2>2 DEF AuthRequest
  <2> QED BY <1>11, <2>1, <2>3, AuthGotoInv DEF Auth!RequestTier, AuthPlace
<1>12. ASSUME NEW a \in AuthThread, Auth!AuthDone(a) PROVE AuthInv'
  <2>1. Auth!NoRequest \in AuthRequest
    BY DEF Auth!NoRequest, AuthRequest, Verdict
  <2> QED BY <1>12, <2>1, AuthGotoInv DEF Auth!AuthDone, AuthPlace
<1>13. CASE UNCHANGED Auth!authVars
  BY <1>13 DEF Auth!authVars, AuthInv, AuthType, EntryBacked, JustSaid, VerdictsExpire,
               Auth!VerdictsExpire
<1> QED
  BY <1>1, <1>2, <1>3, <1>4, <1>5, <1>6, <1>7, <1>8, <1>9, <1>10, <1>11, <1>12, <1>13
  DEF Auth!AuthNext

\* Every verdict a request is decided on was given by the verifier no longer ago
\* than such a verdict may be kept, through outages and races of the threads for
\* a slot of g_subcache (main.c, auth_gate over subcache_get and subcache_put).
THEOREM VerdictsAlwaysExpire == Auth!AuthSpec => []VerdictsExpire
<1>1. AuthInv => VerdictsExpire
  BY DEF AuthInv
<1> QED BY <1>1, AuthInvInit, AuthInvNext, PTL DEF Auth!AuthSpec
-----------------------------------------------------------------------------
(* The HTTP server.  A connection is with one thread at a time: a thread that *)
(* has given it away (it is armed or queued again) still holds its lock until *)
(* it has unlocked it, and the next one waits for that lock.                  *)

Threads == Reactor \cup HttpWorker
Bare == {"wait", "top", "pop", "done"}                                 \* no connection
Before == {"woken", "sweep_lock", "sweep", "swept", "popped"}          \* not locked yet
Owning == {"accepted", "read", "uncharge", "unlock", "drop", "handle", "rearm"}
HttpPlace == Bare \cup Before \cup Owning \cup {"free"}
Alive(c) == state[c] # "free"

HttpTypes ==
    /\ Http!TypeOK
    /\ hpc \in [Threads -> HttpPlace] /\ cap \in [Conn -> Nat] /\ heap \in Int
    /\ \A c \in Conn : cap[c] >= InlineCap /\ (state[c] = "free" => cap[c] = InlineCap)

InHand ==
    /\ \A t \in Threads : hpc[t] \in Bare => hat[t] = None
    /\ \A t \in Threads : hpc[t] \in Owning \cup {"free", "popped"} => hat[t] # None
    /\ \A t \in Threads : hat[t] # None => Alive(hat[t])
    /\ \A t, u \in Threads : t # u /\ hat[t] # None /\ hat[t] = hat[u] =>
         \/ hpc[t] = "unlock" /\ hpc[u] \in Before
         \/ hpc[u] = "unlock" /\ hpc[t] \in Before
Shelved ==
    /\ \A c \in armed : Alive(c)
    /\ \A i \in DOMAIN queue : Alive(queue[i]) /\ queue[i] \notin armed
    /\ \A i, j \in DOMAIN queue : queue[i] = queue[j] => i = j
    /\ \A t \in Threads : hat[t] \in armed => hpc[t] = "unlock"
    /\ \A t \in Threads : \A i \in DOMAIN queue : hat[t] = queue[i] => hpc[t] = "unlock"
NoneLost ==
    \A c \in Conn : Alive(c) =>
      \/ c \in armed
      \/ \E i \in DOMAIN queue : queue[i] = c
      \/ \E t \in Threads : hat[t] = c /\ hpc[t] # "unlock"
Locked == \A t \in Threads : hpc[t] \in Owning => own[hat[t]] = t
\* A connection that nobody has locked has no complete request in its buffer,
\* unless it is queued or given up
Unheard ==
    /\ \A c \in Conn : state[c] = "free" => ~Http!Complete(buf[c])
    /\ \A c \in Conn : state[c] = "reading" /\ own[c] = None =>
         ~Http!Complete(buf[c]) \/ \E t \in Threads : hat[t] = c /\ hpc[t] = "free"
    /\ \A t \in Threads : hpc[t] \in {"accepted", "unlock", "rearm"} /\ state[hat[t]] = "reading" =>
         ~Http!Complete(buf[hat[t]])
PlacesInv == HttpTypes /\ InHand /\ Shelved /\ NoneLost /\ Locked
HttpInv == PlacesInv /\ Unheard /\ Http!HeapExact

LEMMA HttpSum == \A f, S : Http!Sum(f, S) = Sum(f, S)
BY DEF Http!Sum, Http!MapThenSumSet, Http!MapThenFoldSet, Sum, MapThenSumSet, MapThenFoldSet

LEMMA HttpConstants ==
    /\ Reactor \cap HttpWorker = {} /\ None \notin Threads /\ None \notin Conn
    /\ IsFiniteSet(Reactor) /\ IsFiniteSet(Conn)
    /\ InlineCap \in Nat \ {0} /\ MaxBuffer \in Nat /\ MaxBuffer > InlineCap
    /\ Http!HttpThread = Threads
<1>1. \A S : Http!IsFiniteSet(S) <=> IsFiniteSet(S)
  BY DEF Http!IsFiniteSet, IsFiniteSet
<1> QED BY <1>1, GatewayAssumption
        DEF Http!ThreadAssumption, Http!BufferAssumption, Threads, Http!HttpThread

\* The bytes that conn_free gives back
LEMMA HeapOfConns ==
    ASSUME HttpTypes, NEW C \in SUBSET Conn
    PROVE  /\ IsFiniteSet(C) /\ \A c \in C : Http!HeapOf(cap[c]) \in Int
           /\ Sum([c \in C |-> Http!HeapOf(cap[c])], C) \in Int
<1>1. IsFiniteSet(C)
  BY HttpConstants, FS_Subset
<1>2. \A c \in C : Http!HeapOf(cap[c]) \in Int
  BY DEF HttpTypes, Http!HeapOf
<1> DEFINE g == [c \in C |-> Http!HeapOf(cap[c])]
<1>3. \A c \in C : g[c] \in Int
  BY <1>2
<1> HIDE DEF g
<1>4. Sum(g, C) \in Int
  BY <1>1, <1>3, SumInt
<1> QED BY <1>1, <1>2, <1>4 DEF g
LEMMA HandTypes ==
    ASSUME PlacesInv, NEW t \in Threads, hpc[t] \in Owning \cup {"free", "popped"}
    PROVE  hat[t] \in Conn
BY HttpConstants DEF PlacesInv, InHand, HttpTypes, Http!TypeOK

LEMMA TouchTypes ==
    ASSUME HttpTypes, NEW c \in Conn, Http!Touch(c)
    PROVE  idle' \in SUBSET Conn /\ old' \in [Reactor -> SUBSET Conn]
BY DEF HttpTypes, Http!TypeOK, Http!Touch

LEMMA FreedTypes ==
    ASSUME HttpTypes, NEW C \in SUBSET Conn, Http!Freed(C)
    PROVE  /\ state' \in [Conn -> {"free", "reading", "dispatched"}] /\ eof' \in [Conn -> BOOLEAN]
           /\ cap' \in [Conn -> Nat] /\ heap' \in Int /\ idle' \in SUBSET Conn
           /\ \A c \in Conn : cap'[c] >= InlineCap /\ (state'[c] = "free" => cap'[c] = InlineCap)
           /\ \A c \in Conn : state'[c] = IF c \in C THEN "free" ELSE state[c]
           /\ \A c \in Conn : cap'[c] = IF c \in C THEN InlineCap ELSE cap[c]
           /\ \A c \in Conn : buf'[c] = IF c \in C THEN << >> ELSE buf[c]
           /\ heap' = heap - Sum([c \in C |-> Http!HeapOf(cap[c])], C)
<1>1. heap' = heap - Sum([c \in C |-> Http!HeapOf(cap[c])], C)
  BY HttpSum DEF Http!Freed
<1>2. heap' \in Int
  BY <1>1, HeapOfConns DEF HttpTypes
<1>3. /\ state' = [c \in Conn |-> IF c \in C THEN "free" ELSE state[c]]
      /\ eof' = [c \in Conn |-> IF c \in C THEN FALSE ELSE eof[c]]
      /\ cap' = [c \in Conn |-> IF c \in C THEN InlineCap ELSE cap[c]]
      /\ buf' = [c \in Conn |-> IF c \in C THEN << >> ELSE buf[c]]
      /\ idle' = idle \ C
  BY DEF Http!Freed
<1>4. InlineCap \in Nat /\ cap \in [Conn -> Nat] /\ idle \in SUBSET Conn /\ eof \in [Conn -> BOOLEAN]
      /\ state \in [Conn -> {"free", "reading", "dispatched"}]
      /\ \A c \in Conn : cap[c] >= InlineCap /\ (state[c] = "free" => cap[c] = InlineCap)
  BY HttpConstants DEF HttpTypes, Http!TypeOK
<1>5. state' \in [Conn -> {"free", "reading", "dispatched"}] /\ eof' \in [Conn -> BOOLEAN]
      /\ cap' \in [Conn -> Nat] /\ idle' \in SUBSET Conn
  BY <1>3, <1>4
<1>6. /\ \A c \in Conn : state'[c] = IF c \in C THEN "free" ELSE state[c]
      /\ \A c \in Conn : cap'[c] = IF c \in C THEN InlineCap ELSE cap[c]
      /\ \A c \in Conn : buf'[c] = IF c \in C THEN << >> ELSE buf[c]
  BY <1>3
<1>7. \A c \in Conn : cap'[c] >= InlineCap /\ (state'[c] = "free" => cap'[c] = InlineCap)
  BY <1>4, <1>6
<1> QED BY <1>1, <1>2, <1>5, <1>6, <1>7

LEMMA PeerTypes ==
    ASSUME HttpTypes, NEW c \in Conn,
           (\E f \in Fragment : Http!Send(c, f)) \/ Http!PeerCloses(c) \/ Http!LimitPasses(c) \/ Http!Stop
    PROVE  HttpTypes'
BY DEF HttpTypes, Http!TypeOK, Http!Send, Http!PeerCloses, Http!LimitPasses, Http!Stop, Http!conns,
       Http!HttpThread

LEMMA SweepTypes ==
    ASSUME HttpTypes, NEW r \in Reactor,
           \/ Http!EpollTimeout(r) \/ Http!ReactorStops(r) \/ Http!SweepNow(r) \/ Http!SweepLock(r)
           \/ (\E c \in Conn : Http!SweepOne(r, c)) \/ Http!SweepEnd(r) \/ Http!Idle(r)
           \/ (\E c \in Conn : Http!EpollTake(r, c))
    PROVE  HttpTypes'
<1> r \in Threads
  BY DEF Threads
<1> USE DEF HttpTypes, Http!TypeOK, Http!conns, Http!Goto, HttpPlace, Bare, Before, Owning
<1>1. CASE Http!EpollTimeout(r) \/ Http!ReactorStops(r) \/ Http!Idle(r)
  BY <1>1 DEF Http!EpollTimeout, Http!ReactorStops, Http!Idle
<1>2. CASE Http!SweepNow(r)
  BY <1>2 DEF Http!SweepNow
<1>3. CASE Http!SweepLock(r)
  BY <1>3 DEF Http!SweepLock, Http!Live
<1>4. ASSUME NEW c \in Conn, Http!SweepOne(r, c) PROVE HttpTypes'
  <2>1. eof' \in [Conn -> BOOLEAN] /\ todo' \in [Reactor -> SUBSET Conn]
    BY <1>4 DEF Http!SweepOne
  <2> QED BY <1>4, <2>1 DEF Http!SweepOne
<1>5. CASE Http!SweepEnd(r)
  BY <1>5 DEF Http!SweepEnd
<1>6. ASSUME NEW c \in Conn, Http!EpollTake(r, c) PROVE HttpTypes'
  BY <1>6, HttpConstants DEF Http!EpollTake
<1> QED BY <1>1, <1>2, <1>3, <1>4, <1>5, <1>6

LEMMA MovesTypes ==
    ASSUME PlacesInv, NEW t \in Threads,
           \/ Http!AcceptArm(t) \/ Http!AcceptFails(t) \/ Http!ReactorLock(t) \/ Http!WorkerLock(t)
           \/ Http!TooLarge(t) \/ Http!ReadEof(t) \/ Http!ReadBad(t) \/ Http!ReadMore(t)
           \/ Http!Dispatch(t) \/ Http!Unlock(t) \/ Http!Rearm(t)
           \/ Http!WorkerTop(t) \/ Http!Pop(t) \/ Http!PopNothing(t)
    PROVE  HttpTypes'
<1>0. HttpTypes
  BY DEF PlacesInv
<1> USE DEF HttpTypes, Http!TypeOK, Http!conns, Http!Goto, HttpPlace, Bare, Before, Owning
<1>1. CASE Http!AcceptFails(t) \/ Http!TooLarge(t) \/ Http!ReadEof(t) \/ Http!ReadBad(t)
           \/ (Http!GiveUp(t) /\ (Http!ReadMore(t) \/ Http!Rearm(t)))
  BY <1>0, <1>1 DEF Http!AcceptFails, Http!TooLarge, Http!ReadEof, Http!ReadBad, Http!GiveUp
<1>2. ASSUME Http!Arm(t, "unlock"), hpc[t] \in {"accepted", "read", "rearm"} PROVE HttpTypes'
  <2>1. hat[t] \in Conn
    BY <1>2, HandTypes DEF Owning
  <2> QED BY <1>0, <1>2, <2>1 DEF Http!Arm
<1>3. CASE Http!AcceptArm(t) \/ (Http!Arm(t, "unlock") /\ (Http!ReadMore(t) \/ Http!Rearm(t)))
  BY <1>2, <1>3 DEF Http!AcceptArm, Http!ReadMore, Http!Rearm, Http!Drained
<1>4. CASE Http!ReactorLock(t) \/ Http!WorkerLock(t)
  <2>1. PICK to \in {"read", "handle"} :
          /\ own' = [own EXCEPT ![hat[t]] = t] /\ hpc' = [hpc EXCEPT ![t] = to]
          /\ UNCHANGED <<serving, joined, state, inbox, eof, buf, cap, armed, idle,
                         queue, all_lock, heap, hat, old, todo>>
    BY <1>4 DEF Http!ReactorLock, Http!WorkerLock, Http!Lock
  <2>2. own' \in [Conn -> Threads \cup {None}] /\ hpc' \in [Threads -> HttpPlace]
    BY <1>0, <2>1, HttpConstants
  <2> QED BY <1>0, <2>1, <2>2, HttpConstants
<1>5. CASE Http!Dispatch(t)
  <2>1. hat[t] \in Conn
    BY <1>5, HandTypes DEF Http!Dispatch, Http!Drained
  <2>2. queue' \in Seq(Conn)
    BY <1>0, <1>5, <2>1 DEF Http!Dispatch
  <2>3. /\ state' \in [Conn -> {"free", "reading", "dispatched"}]
        /\ \A c \in Conn : state'[c] = "free" => state[c] = "free"
    BY <1>0, <1>5, <2>1 DEF Http!Dispatch
  <2> QED BY <1>0, <1>5, <2>2, <2>3 DEF Http!Dispatch
<1>6. CASE Http!Unlock(t)
  <2>1. hat[t] \in Conn
    BY <1>6, HandTypes DEF Http!Unlock
  <2>2. own' \in [Conn -> Threads \cup {None}] /\ hat' \in [Threads -> Conn \cup {None}]
    BY <1>0, <1>6, HttpConstants DEF Http!Unlock
  <2>3. hpc' \in [Threads -> HttpPlace]
    BY <1>0, <1>6 DEF Http!Unlock
  <2> QED BY <1>0, <1>6, <2>2, <2>3, HttpConstants DEF Http!Unlock
<1>7. CASE Http!WorkerTop(t) \/ Http!PopNothing(t)
  BY <1>0, <1>7 DEF Http!WorkerTop, Http!PopNothing
<1>8. CASE Http!Pop(t)
  <2>1. queue \in Seq(Conn) /\ queue # << >>
    BY <1>0, <1>8 DEF Http!Pop
  <2>2. Head(queue) \in Conn /\ Tail(queue) \in Seq(Conn)
    BY <2>1
  <2> QED BY <1>0, <1>8, <2>2, HttpConstants DEF Http!Pop
<1> QED BY <1>1, <1>3, <1>4, <1>5, <1>6, <1>7, <1>8 DEF Http!ReadMore, Http!Rearm

LEMMA WorkTypes ==
    ASSUME PlacesInv, NEW t \in Threads,
           \/ (\E c \in Conn : Http!AcceptLink(t, c)) \/ Http!Grow(t) \/ Http!Uncharge(t)
           \/ Http!Read(t) \/ Http!Free(t) \/ Http!HandleCloses(t) \/ Http!HandleKeeps(t)
    PROVE  HttpTypes'
<1>0. HttpTypes
  BY DEF PlacesInv
<1> USE DEF HttpTypes, Http!TypeOK, Http!conns, Http!Goto, HttpPlace, Bare, Before, Owning
<1>1. ASSUME NEW c \in Conn, Http!AcceptLink(t, c) PROVE HttpTypes'
  <2>1. idle' \in SUBSET Conn /\ old' \in [Reactor -> SUBSET Conn]
    BY <1>0, <1>1, TouchTypes DEF Http!AcceptLink
  <2> QED BY <1>0, <1>1, <2>1, HttpConstants DEF Http!AcceptLink
<1>2. CASE Http!Grow(t)
  <2>1. hat[t] \in Conn
    BY <1>2, HandTypes DEF Http!Grow
  <2>2. /\ cap[hat[t]] \in Nat /\ Http!NewCap(hat[t]) \in Nat /\ Http!GrowBy(hat[t]) \in Int
        /\ Http!NewCap(hat[t]) >= InlineCap
    BY <1>0, <2>1, HttpConstants DEF Http!NewCap, Http!GrowBy, Http!HeapOf
  <2>3. Alive(hat[t])
    BY <2>1, HttpConstants DEF PlacesInv, InHand
  <2>4. heap' \in Int /\ hpc' \in [Threads -> HttpPlace]
    <3>1. heap' = heap + Http!GrowBy(hat[t]) /\ (hpc' = hpc \/ hpc' = [hpc EXCEPT ![t] = "uncharge"])
      BY <1>2 DEF Http!Grow
    <3>2. heap \in Int /\ hpc \in [Threads -> HttpPlace] /\ "uncharge" \in HttpPlace
      BY <1>0
    <3> HIDE DEF HttpPlace
    <3>3. heap' \in Int
      BY <2>2, <3>1, <3>2
    <3> QED BY <3>1, <3>2, <3>3
  <2>5. /\ cap' \in [Conn -> Nat]
        /\ \A c \in Conn : cap'[c] >= InlineCap /\ (state[c] = "free" => cap'[c] = InlineCap)
    <3>1. cap' = cap \/ cap' = [cap EXCEPT ![hat[t]] = Http!NewCap(hat[t])]
      BY <1>2 DEF Http!Grow
    <3>2. CASE cap' = cap
      BY <1>0, <3>2
    <3>3. CASE cap' = [cap EXCEPT ![hat[t]] = Http!NewCap(hat[t])]
      <4>1. \A c \in Conn : cap'[c] = IF c = hat[t] THEN Http!NewCap(hat[t]) ELSE cap[c]
        BY <1>0, <3>3
      <4>2. cap' \in [Conn -> Nat]
        BY <1>0, <2>2, <3>3
      <4>3. state[hat[t]] # "free"
        BY <2>3 DEF Alive
      <4> QED BY <1>0, <2>2, <4>1, <4>2, <4>3
    <3> QED BY <3>1, <3>2, <3>3
  <2> QED BY <1>0, <1>2, <2>4, <2>5 DEF Http!Grow
<1>3. CASE Http!Uncharge(t)
  <2>1. hat[t] \in Conn
    BY <1>3, HandTypes DEF Http!Uncharge
  <2>2. Http!GrowBy(hat[t]) \in Int
    BY <1>0, <2>1, HttpConstants DEF Http!NewCap, Http!GrowBy, Http!HeapOf
  <2> QED BY <1>0, <1>3, <2>2 DEF Http!Uncharge
<1>4. CASE Http!Read(t)
  <2>1. hat[t] \in Conn
    BY <1>4, HandTypes DEF Http!Read
  <2>2. idle' \in SUBSET Conn /\ old' \in [Reactor -> SUBSET Conn]
    BY <1>0, <1>4, <2>1, TouchTypes DEF Http!Read
  <2> QED BY <1>0, <1>4, <2>2 DEF Http!Read
<1>5. CASE Http!Free(t)
  <2>1. hat[t] \in Conn
    BY <1>5, HandTypes DEF Http!Free
  <2>2. /\ state' \in [Conn -> {"free", "reading", "dispatched"}] /\ eof' \in [Conn -> BOOLEAN]
        /\ cap' \in [Conn -> Nat] /\ heap' \in Int /\ idle' \in SUBSET Conn
        /\ \A c \in Conn : cap'[c] >= InlineCap /\ (state'[c] = "free" => cap'[c] = InlineCap)
    <3>1. {hat[t]} \in SUBSET Conn /\ Http!Freed({hat[t]})
      BY <1>5, <2>1 DEF Http!Free
    <3> HIDE DEF HttpTypes, Http!TypeOK
    <3> QED BY <1>0, <3>1, FreedTypes
  <2> QED BY <1>0, <1>5, <2>2, HttpConstants DEF Http!Free
<1>6. CASE Http!HandleCloses(t)
  BY <1>0, <1>6 DEF Http!HandleCloses
<1>7. CASE Http!HandleKeeps(t)
  <2>1. hat[t] \in Conn
    BY <1>7, HandTypes DEF Http!HandleKeeps, Http!Handle
  <2>2. idle' \in SUBSET Conn /\ old' \in [Reactor -> SUBSET Conn]
    BY <1>0, <1>7, <2>1, TouchTypes DEF Http!HandleKeeps
  <2>3. hpc' \in [Threads -> HttpPlace]
    BY <1>0, <1>7 DEF Http!HandleKeeps, Http!AfterKeep
  <2>4. /\ state' \in [Conn -> {"free", "reading", "dispatched"}]
        /\ \A c \in Conn : state'[c] = "free" => state[c] = "free"
    BY <1>0, <1>7, <2>1 DEF Http!HandleKeeps
  <2> QED BY <1>0, <1>7, <2>2, <2>3, <2>4 DEF Http!HandleKeeps
<1> QED BY <1>1, <1>2, <1>3, <1>4, <1>5, <1>6, <1>7
\* A thread moves on with what it has, or takes the lock.
LEMMA MovingOnKeepsPlaces ==
    ASSUME PlacesInv, HttpTypes', NEW t \in Threads, NEW q \in HttpPlace,
           hpc' = [hpc EXCEPT ![t] = q], UNCHANGED <<hat, armed, queue>>,
           \A c \in Conn : Alive(c)' <=> Alive(c),
           hpc[t] # "unlock", q # "unlock",
           hat[t] = None => q \notin Owning \cup {"free", "popped"},
           hat[t] # None => q \notin Bare,
           q \in Before \/ hat[t] = None \/ hpc[t] \notin Before \/ own[hat[t]] = None,
           \A u \in Threads : u # t /\ hpc[u] \in Owning => own'[hat[u]] = own[hat[u]],
           q \in Owning => own'[hat[t]] = t
    PROVE  PlacesInv'
<1>0. /\ HttpTypes /\ InHand /\ Shelved /\ NoneLost /\ Locked /\ None \notin Threads
      /\ hat \in [Threads -> Conn \cup {None}] /\ armed \in SUBSET Conn
      /\ \A i \in DOMAIN queue : queue[i] \in Conn
  <2>1. queue \in Seq(Conn)
    BY DEF PlacesInv, HttpTypes, Http!TypeOK
  <2> QED BY <2>1, HttpConstants DEF PlacesInv, HttpTypes, Http!TypeOK
<1>1. \A u \in Threads : hpc'[u] = IF u = t THEN q ELSE hpc[u]
  BY <1>0 DEF HttpTypes
<1>2. InHand'
  <2>1. /\ \A u \in Threads : hpc'[u] \in Bare => hat'[u] = None
        /\ \A u \in Threads : hpc'[u] \in Owning \cup {"free", "popped"} => hat'[u] # None
    BY <1>0, <1>1 DEF InHand
  <2>2. \A u \in Threads : hat'[u] # None => Alive(hat[u])'
    BY <1>0 DEF InHand, Alive
  <2>3. ASSUME NEW u \in Threads, u # t, hat[t] # None, hat[u] = hat[t]
        PROVE  hpc[u] = "unlock" /\ q \in Before
    <3>1. hpc[u] = "unlock" /\ hpc[t] \in Before
      BY <1>0, <2>3 DEF InHand
    <3>2. own[hat[t]] = u /\ u # None
      BY <1>0, <2>3, <3>1 DEF Locked, Owning
    <3> QED BY <2>3, <3>1, <3>2
  <2>4. \A u, v \in Threads : u # v /\ hat'[u] # None /\ hat'[u] = hat'[v] =>
           \/ hpc'[u] = "unlock" /\ hpc'[v] \in Before
           \/ hpc'[v] = "unlock" /\ hpc'[u] \in Before
    BY <1>0, <1>1, <2>3 DEF InHand
  <2> QED BY <2>1, <2>2, <2>4 DEF InHand
<1>3. Shelved'
  BY <1>0, <1>1 DEF Shelved, Alive
<1>4. NoneLost'
  BY <1>0, <1>1 DEF NoneLost
<1>5. Locked'
  BY <1>0, <1>1 DEF Locked
<1> QED BY <1>2, <1>3, <1>4, <1>5 DEF PlacesInv

\* A thread gives its connection to epoll or to the queue; it unlocks it later.
LEMMA ReleasingKeepsPlaces ==
    ASSUME PlacesInv, HttpTypes', NEW t \in Threads, hpc[t] \in Owning \ {"unlock"},
           hpc' = [hpc EXCEPT ![t] = "unlock"], UNCHANGED <<hat, own>>,
           \A c \in Conn : Alive(c)' <=> Alive(c),
           \/ armed' = armed \cup {hat[t]} /\ queue' = queue
           \/ armed' = armed /\ queue' = Append(queue, hat[t])
    PROVE  PlacesInv'
<1>0. /\ HttpTypes /\ InHand /\ Shelved /\ NoneLost /\ Locked /\ None \notin Threads
      /\ hat \in [Threads -> Conn \cup {None}] /\ armed \in SUBSET Conn
      /\ \A i \in DOMAIN queue : queue[i] \in Conn
  <2>1. queue \in Seq(Conn)
    BY DEF PlacesInv, HttpTypes, Http!TypeOK
  <2> QED BY <2>1, HttpConstants DEF PlacesInv, HttpTypes, Http!TypeOK
<1>1. \A u \in Threads : hpc'[u] = IF u = t THEN "unlock" ELSE hpc[u]
  BY <1>0 DEF HttpTypes
<1>2. hat[t] \in Conn /\ Alive(hat[t]) /\ hpc[t] \notin Before /\ hpc[t] # "unlock"
  BY <1>0, HandTypes DEF InHand, Owning, Before
<1>3. \A u \in Threads : u # t => hat[u] # hat[t]
  BY <1>0, <1>2, HttpConstants DEF InHand
<1>4. hat[t] \notin armed /\ \A i \in DOMAIN queue : queue[i] # hat[t]
  BY <1>0, <1>2 DEF Shelved
<1>5. InHand'
  BY <1>0, <1>1, <1>2, <1>3 DEF InHand, Bare, Owning, Alive
<1>6. Locked'
  BY <1>0, <1>1 DEF Locked
<1>7. CASE armed' = armed \cup {hat[t]} /\ queue' = queue
  <2>1. Shelved'
    BY <1>0, <1>1, <1>2, <1>3, <1>4, <1>7 DEF Shelved, Alive
  <2>2. NoneLost'
    BY <1>0, <1>1, <1>7 DEF NoneLost
  <2> QED BY <1>5, <1>6, <2>1, <2>2 DEF PlacesInv
<1>8. CASE armed' = armed /\ queue' = Append(queue, hat[t])
  <2> DEFINE n == Len(queue)
  <2>1. /\ DOMAIN queue' = 1..(n + 1) /\ \A i \in DOMAIN queue : queue'[i] = queue[i]
        /\ queue'[n + 1] = hat[t] /\ \A i \in 1..(n + 1) : i = n + 1 \/ i \in DOMAIN queue
        /\ n + 1 \in 1..(n + 1) /\ \A i \in DOMAIN queue : i \in 1..(n + 1)
    <3>1. queue \in Seq(Conn) /\ n \in Nat
      BY <1>0 DEF HttpTypes, Http!TypeOK
    <3> QED BY <1>2, <1>8, <3>1
  <2> HIDE DEF n
  <2>2. Shelved'
    BY <1>0, <1>1, <1>2, <1>3, <1>4, <1>8, <2>1 DEF Shelved, Alive
  <2>3. NoneLost'
    BY <1>0, <1>1, <1>8, <2>1 DEF NoneLost
  <2> QED BY <1>5, <1>6, <2>2, <2>3 DEF PlacesInv
<1> QED BY <1>7, <1>8

\* The lock of a connection that was given away is released.
LEMMA UnlockingKeepsPlaces ==
    ASSUME PlacesInv, HttpTypes', NEW t \in Threads, hpc[t] = "unlock", NEW q \in {"wait", "top"},
           hpc' = [hpc EXCEPT ![t] = q], hat' = [hat EXCEPT ![t] = None],
           own' = [own EXCEPT ![hat[t]] = None], UNCHANGED <<state, armed, queue>>
    PROVE  PlacesInv'
<1>0. /\ HttpTypes /\ InHand /\ Shelved /\ NoneLost /\ Locked /\ None \notin Threads
      /\ hat \in [Threads -> Conn \cup {None}] /\ own \in [Conn -> Threads \cup {None}]
      /\ None \notin Conn /\ armed \in SUBSET Conn /\ \A i \in DOMAIN queue : queue[i] \in Conn
  <2>1. queue \in Seq(Conn)
    BY DEF PlacesInv, HttpTypes, Http!TypeOK
  <2> QED BY <2>1, HttpConstants DEF PlacesInv, HttpTypes, Http!TypeOK
<1>1. /\ \A u \in Threads : hpc'[u] = IF u = t THEN q ELSE hpc[u]
      /\ \A u \in Threads : hat'[u] = IF u = t THEN None ELSE hat[u]
  BY <1>0 DEF HttpTypes
<1>2. InHand'
  BY <1>0, <1>1 DEF InHand, Bare, Owning, Alive
<1>3. Shelved'
  BY <1>0, <1>1 DEF Shelved, Alive
<1>4. NoneLost'
  BY <1>0, <1>1 DEF NoneLost, Alive
<1>5. Locked'
  <2> SUFFICES ASSUME NEW u \in Threads, hpc'[u] \in Owning PROVE own'[hat'[u]] = u
    BY DEF Locked
  <2>1. u # t /\ hpc[u] \in Owning /\ hat'[u] = hat[u] /\ own[hat[u]] = u
    BY <1>0, <1>1 DEF Owning, Locked
  <2>2. hat[u] # hat[t]
    BY <1>0, <2>1 DEF Locked, Owning
  <2>3. hat[u] \in Conn
    BY <1>0, <2>1 DEF InHand
  <2> QED BY <1>0, <2>1, <2>2, <2>3
<1> QED BY <1>2, <1>3, <1>4, <1>5 DEF PlacesInv

\* A thread without a connection takes one from epoll or from the queue.
LEMMA TakingKeepsPlaces ==
    ASSUME PlacesInv, HttpTypes', NEW t \in Threads, hpc[t] \in Bare, NEW c \in Conn,
           NEW q \in Before, hpc' = [hpc EXCEPT ![t] = q], hat' = [hat EXCEPT ![t] = c],
           UNCHANGED <<state, own>>,
           \/ c \in armed /\ armed' = armed \ {c} /\ queue' = queue
           \/ queue # << >> /\ c = Head(queue) /\ queue' = Tail(queue) /\ armed' = armed
    PROVE  PlacesInv'
<1>0. /\ HttpTypes /\ InHand /\ Shelved /\ NoneLost /\ Locked /\ None \notin Threads
      /\ hat \in [Threads -> Conn \cup {None}] /\ queue \in Seq(Conn) /\ hat[t] = None
      /\ None \notin Conn /\ armed \in SUBSET Conn
      /\ \A i \in DOMAIN queue : queue[i] \in Conn
  <2>1. queue \in Seq(Conn)
    BY DEF PlacesInv, HttpTypes, Http!TypeOK
  <2> QED BY <2>1, HttpConstants DEF PlacesInv, HttpTypes, Http!TypeOK, InHand
<1>1. /\ \A u \in Threads : hpc'[u] = IF u = t THEN q ELSE hpc[u]
      /\ \A u \in Threads : hat'[u] = IF u = t THEN c ELSE hat[u]
      /\ q \notin Bare /\ q \notin Owning /\ q # "unlock"
  BY <1>0 DEF HttpTypes, Bare, Before, Owning
<1>2. Alive(c) /\ \A u \in Threads : hat[u] = c => hpc[u] = "unlock"
  <2>1. CASE c \in armed
    BY <1>0, <2>1 DEF Shelved
  <2>2. CASE queue # << >> /\ c = Head(queue)
    <3>1. 1 \in DOMAIN queue /\ queue[1] = c
      BY <1>0, <2>2
    <3> QED BY <1>0, <3>1 DEF Shelved
  <2> QED BY <2>1, <2>2
<1>3. InHand'
  BY <1>0, <1>1, <1>2 DEF InHand, Alive
<1>4. Locked'
  BY <1>0, <1>1 DEF Locked
<1>5. CASE c \in armed /\ armed' = armed \ {c} /\ queue' = queue
  <2>1. Shelved'
    BY <1>0, <1>1, <1>2, <1>5 DEF Shelved, Alive
  <2>2. NoneLost'
    BY <1>0, <1>1, <1>5 DEF NoneLost, Alive
  <2> QED BY <1>3, <1>4, <2>1, <2>2 DEF PlacesInv
<1>6. CASE queue # << >> /\ c = Head(queue) /\ queue' = Tail(queue) /\ armed' = armed
  <2> DEFINE n == Len(queue)
  <2>1. /\ n \in Nat \ {0} /\ DOMAIN queue = 1..n /\ DOMAIN queue' = 1..(n - 1)
        /\ \A i \in 1..(n - 1) : queue'[i] = queue[i + 1] /\ i + 1 \in 1..n /\ i + 1 # 1
        /\ c = queue[1] /\ 1 \in 1..n
        /\ \A i \in 1..n : i # 1 => i - 1 \in 1..(n - 1) /\ (i - 1) + 1 = i
        /\ \A i, j \in 1..(n - 1) : i + 1 = j + 1 => i = j
    BY <1>0, <1>6
  <2> HIDE DEF n
  <2>2. \A i \in DOMAIN queue' : \E j \in DOMAIN queue : j # 1 /\ queue'[i] = queue[j]
    BY <2>1
  <2>3. \A i \in DOMAIN queue' : queue'[i] # c
    BY <1>0, <2>1, <2>2 DEF Shelved
  <2>4. \A i, j \in DOMAIN queue' : queue'[i] = queue'[j] => i = j
    <3> SUFFICES ASSUME NEW i \in 1..(n - 1), NEW j \in 1..(n - 1), queue'[i] = queue'[j]
                 PROVE  i = j
      BY <2>1
    <3>1. i + 1 \in DOMAIN queue /\ j + 1 \in DOMAIN queue /\ queue[i + 1] = queue[j + 1]
      BY <2>1
    <3>2. i + 1 = j + 1
      BY <1>0, <3>1 DEF Shelved
    <3> QED BY <2>1, <3>2
  <2>5. Shelved'
    BY <1>0, <1>1, <1>2, <1>6, <2>2, <2>3, <2>4 DEF Shelved, Alive
  <2>6. NoneLost'
    <3> SUFFICES ASSUME NEW d \in Conn, Alive(d), d # c
                 PROVE  \/ d \in armed'
                        \/ \E i \in DOMAIN queue' : queue'[i] = d
                        \/ \E u \in Threads : hat'[u] = d /\ hpc'[u] # "unlock"
      BY <1>1 DEF NoneLost, Alive
    <3>1. CASE d \in armed
      BY <1>6, <3>1
    <3>2. ASSUME NEW i \in DOMAIN queue, queue[i] = d PROVE \E j \in DOMAIN queue' : queue'[j] = d
      <4>1. i \in 1..n /\ i # 1
        BY <2>1, <3>2
      <4>2. i - 1 \in DOMAIN queue' /\ queue'[i - 1] = d
        BY <2>1, <3>2, <4>1
      <4> QED BY <4>2
    <3>3. ASSUME NEW u \in Threads, hat[u] = d, hpc[u] # "unlock"
          PROVE  hat'[u] = d /\ hpc'[u] # "unlock"
      BY <1>0, <1>1, <3>3
    <3> QED BY <1>0, <3>1, <3>2, <3>3 DEF NoneLost
  <2> QED BY <1>3, <1>4, <2>5, <2>6 DEF PlacesInv
<1> QED BY <1>5, <1>6
LEMMA AcceptKeepsPlaces ==
    ASSUME PlacesInv, HttpTypes', NEW t \in Threads, NEW c \in Conn, Http!AcceptLink(t, c)
    PROVE  PlacesInv'
<1>0. /\ HttpTypes /\ InHand /\ Shelved /\ NoneLost /\ Locked /\ None \notin Threads
      /\ hat \in [Threads -> Conn \cup {None}] /\ own \in [Conn -> Threads \cup {None}]
      /\ None \notin Conn /\ armed \in SUBSET Conn /\ \A i \in DOMAIN queue : queue[i] \in Conn
  <2>1. queue \in Seq(Conn)
    BY DEF PlacesInv, HttpTypes, Http!TypeOK
  <2> QED BY <2>1, HttpConstants DEF PlacesInv, HttpTypes, Http!TypeOK
<1>1. /\ \A u \in Threads : hpc'[u] = IF u = t THEN "accepted" ELSE hpc[u]
      /\ \A u \in Threads : hat'[u] = IF u = t THEN c ELSE hat[u]
      /\ \A d \in Conn : state'[d] = IF d = c THEN "reading" ELSE state[d]
      /\ \A d \in Conn : own'[d] = IF d = c THEN t ELSE own[d]
      /\ hat[t] = None /\ ~Alive(c) /\ hpc[t] \in {"woken", "swept"} /\ armed' = armed /\ queue' = queue
  BY <1>0 DEF HttpTypes, Http!TypeOK, Http!AcceptLink, Http!Goto, Http!Live, Alive
<1>2. c \notin armed /\ (\A i \in DOMAIN queue : queue[i] # c) /\ \A u \in Threads : hat[u] # c
  BY <1>0, <1>1 DEF Shelved, InHand
<1>3. \A d \in Conn : d # c => (Alive(d)' <=> Alive(d))
  BY <1>1 DEF Alive
<1>4. Alive(c)'
  BY <1>1 DEF Alive
<1>5. InHand'
  BY <1>0, <1>1, <1>2, <1>3, <1>4 DEF InHand, Bare, Owning
<1>6. Shelved'
  BY <1>0, <1>1, <1>2, <1>3 DEF Shelved
<1>7. NoneLost'
  BY <1>0, <1>1, <1>2, <1>3 DEF NoneLost
<1>8. Locked'
  BY <1>0, <1>1, <1>2 DEF Locked, InHand
<1> QED BY <1>5, <1>6, <1>7, <1>8 DEF PlacesInv

LEMMA FreeKeepsPlaces ==
    ASSUME PlacesInv, HttpTypes', NEW t \in Threads, Http!Free(t)
    PROVE  PlacesInv'
<1>0. /\ HttpTypes /\ InHand /\ Shelved /\ NoneLost /\ Locked /\ None \notin Threads
      /\ hat \in [Threads -> Conn \cup {None}] /\ own \in [Conn -> Threads \cup {None}]
      /\ None \notin Conn /\ armed \in SUBSET Conn /\ \A i \in DOMAIN queue : queue[i] \in Conn
  <2>1. queue \in Seq(Conn)
    BY DEF PlacesInv, HttpTypes, Http!TypeOK
  <2> QED BY <2>1, HttpConstants DEF PlacesInv, HttpTypes, Http!TypeOK
<1>1. PICK c \in Conn : hat[t] = c /\ hpc[t] = "free"
  BY HandTypes DEF Http!Free
<1>2. PICK q \in {"wait", "top"} :
        /\ \A u \in Threads : hpc'[u] = IF u = t THEN q ELSE hpc[u]
        /\ \A u \in Threads : hat'[u] = IF u = t THEN None ELSE hat[u]
        /\ own' = own /\ armed' = armed /\ queue' = queue
  BY <1>0 DEF HttpTypes, Http!TypeOK, Http!Free, Http!Goto
<1>3. \A d \in Conn : state'[d] = IF d = c THEN "free" ELSE state[d]
  <2>1. {c} \in SUBSET Conn /\ Http!Freed({c})
    BY <1>1 DEF Http!Free
  <2>2. \A d \in Conn : state'[d] = IF d \in {c} THEN "free" ELSE state[d]
    BY <1>0, <2>1, FreedTypes
  <2> QED BY <2>2
<1>4. c \notin armed /\ (\A i \in DOMAIN queue : queue[i] # c) /\ \A u \in Threads : u # t => hat[u] # c
  BY <1>0, <1>1 DEF Shelved, InHand, Before
<1>5. \A d \in Conn : d # c => (Alive(d)' <=> Alive(d))
  BY <1>3 DEF Alive
<1>6. InHand'
  BY <1>0, <1>1, <1>2, <1>4, <1>5 DEF InHand, Bare, Owning
<1>7. Shelved'
  BY <1>0, <1>1, <1>2, <1>4, <1>5 DEF Shelved
<1>8. NoneLost'
  <2>1. ~Alive(c)'
    BY <1>1, <1>3 DEF Alive
  <2> QED BY <1>0, <1>1, <1>2, <1>5, <2>1 DEF NoneLost
<1>9. Locked'
  BY <1>0, <1>2 DEF Locked, Owning
<1> QED BY <1>6, <1>7, <1>8, <1>9 DEF PlacesInv

LEMMA JoinKeepsPlaces ==
    ASSUME PlacesInv, Http!Join
    PROVE  PlacesInv'
<1>0. HttpTypes /\ InHand /\ None \notin Conn
  BY HttpConstants DEF PlacesInv
<1>1. Http!Live \in SUBSET Conn
  BY DEF Http!Live
<1>2. /\ state' \in [Conn -> {"free", "reading", "dispatched"}] /\ eof' \in [Conn -> BOOLEAN]
      /\ cap' \in [Conn -> Nat] /\ heap' \in Int /\ idle' \in SUBSET Conn
      /\ \A c \in Conn : cap'[c] >= InlineCap /\ (state'[c] = "free" => cap'[c] = InlineCap)
      /\ \A c \in Conn : state'[c] = IF c \in Http!Live THEN "free" ELSE state[c]
  BY <1>0, <1>1, FreedTypes DEF Http!Join
<1>3. /\ queue' = << >> /\ armed' = {} /\ joined' = TRUE
      /\ UNCHANGED <<serving, own, all_lock, hpc, hat, old, todo>>
      /\ \A t \in Threads : hpc[t] = "done"
  BY HttpConstants DEF Http!Join
<1>4. HttpTypes'
  BY <1>0, <1>2, <1>3 DEF HttpTypes, Http!TypeOK
<1>5. \A t \in Threads : hpc'[t] = "done" /\ hat'[t] = None
  BY <1>0, <1>3 DEF InHand, Bare
<1>6. \A c \in Conn : ~Alive(c)'
  BY <1>2 DEF Alive, Http!Live
<1>7. InHand' /\ Locked'
  BY <1>5 DEF InHand, Locked, Bare, Owning
<1>8. Shelved'
  BY <1>0, <1>3, <1>5 DEF Shelved
<1>9. NoneLost'
  BY <1>6 DEF NoneLost
<1> QED BY <1>4, <1>7, <1>8, <1>9 DEF PlacesInv

\* Threads look around, and peers and time act, without moving a connection.
LEMMA LookingKeepsPlaces ==
    ASSUME PlacesInv, HttpTypes', NEW t \in Threads,
           \/ Http!EpollTimeout(t) \/ Http!ReactorStops(t) \/ Http!SweepNow(t) \/ Http!SweepLock(t)
           \/ Http!SweepEnd(t) \/ Http!Idle(t) \/ Http!WorkerTop(t) \/ Http!PopNothing(t)
    PROVE  PlacesInv'
<1>0. HttpTypes /\ InHand /\ t \in Threads
  BY DEF PlacesInv
<1>1. UNCHANGED <<hat, armed, queue, own, state>>
  BY DEF Http!EpollTimeout, Http!ReactorStops, Http!SweepNow, Http!SweepLock, Http!SweepEnd,
         Http!Idle, Http!WorkerTop, Http!PopNothing, Http!conns
<1>2. PICK q \in {"woken", "done", "sweep_lock", "sweep", "swept", "wait", "pop"} :
        /\ hpc' = [hpc EXCEPT ![t] = q]
        /\ hpc[t] \in {"wait", "woken", "swept", "sweep_lock", "sweep", "top", "pop"}
        /\ q \in Bare => hpc[t] \in Bare \/ hat[t] = None
  BY DEF Http!EpollTimeout, Http!ReactorStops, Http!SweepNow, Http!SweepLock, Http!SweepEnd,
         Http!Idle, Http!WorkerTop, Http!PopNothing, Http!Goto, Bare
<1>3. /\ q \in HttpPlace /\ q # "unlock" /\ hpc[t] # "unlock"
      /\ q \notin Owning \cup {"free", "popped"}
      /\ hat[t] # None => q \notin Bare
      /\ q \in Before \/ hat[t] = None
  BY <1>0, <1>2 DEF HttpPlace, Bare, Before, Owning, InHand
<1>4. \A u \in Threads : u # t /\ hpc[u] \in Owning => own'[hat[u]] = own[hat[u]]
  BY <1>1
<1>5. \A c \in Conn : Alive(c)' <=> Alive(c)
  BY <1>1 DEF Alive
<1> QED BY <1>1, <1>2, <1>3, <1>4, <1>5, MovingOnKeepsPlaces

LEMMA StandingKeepsPlaces ==
    ASSUME PlacesInv, HttpTypes', UNCHANGED <<state, own, armed, queue, hpc, hat>>
    PROVE  PlacesInv'
BY DEF PlacesInv, InHand, Shelved, NoneLost, Locked, Alive

LEMMA WorkingKeepsPlaces ==
    ASSUME PlacesInv, HttpTypes', NEW t \in Threads,
           \/ Http!ReactorLock(t) \/ Http!WorkerLock(t)
           \/ Http!GiveUp(t) /\ hpc[t] \in {"accepted", "read", "rearm"}
           \/ Http!Grow(t) \/ Http!Uncharge(t) \/ Http!HandleCloses(t) \/ Http!HandleKeeps(t)
    PROVE  PlacesInv'
<1>0. /\ HttpTypes /\ InHand /\ Locked /\ None \notin Threads /\ None \notin Conn
      /\ hat \in [Threads -> Conn \cup {None}] /\ own \in [Conn -> Threads \cup {None}]
      /\ state \in [Conn -> {"free", "reading", "dispatched"}]
  BY HttpConstants DEF PlacesInv, HttpTypes, Http!TypeOK
<1>1. UNCHANGED <<hat, armed, queue>>
  BY DEF Http!ReactorLock, Http!WorkerLock, Http!Lock, Http!GiveUp, Http!Grow, Http!Uncharge,
         Http!HandleCloses, Http!HandleKeeps, Http!conns
<1>2. CASE Http!ReactorLock(t) \/ Http!WorkerLock(t)
  <2>1. PICK q \in {"read", "handle"} :
          /\ hpc' = [hpc EXCEPT ![t] = q] /\ own' = [own EXCEPT ![hat[t]] = t] /\ state' = state
          /\ hat[t] # None /\ own[hat[t]] = None /\ hpc[t] \in Before
    BY <1>2 DEF Http!ReactorLock, Http!WorkerLock, Http!Lock, Http!Goto, Before
  <2>2. hat[t] \in Conn /\ own'[hat[t]] = t
    BY <1>0, <2>1
  <2>3. \A u \in Threads : u # t /\ hpc[u] \in Owning => own'[hat[u]] = own[hat[u]]
    BY <1>0, <2>1, <2>2 DEF Locked, InHand
  <2>4. \A c \in Conn : Alive(c)' <=> Alive(c)
    BY <2>1 DEF Alive
  <2>5. q \in HttpPlace /\ q # "unlock" /\ hpc[t] # "unlock" /\ q \notin Bare
    BY <2>1 DEF HttpPlace, Owning, Bare, Before
  <2> QED BY <1>1, <2>1, <2>2, <2>3, <2>4, <2>5, MovingOnKeepsPlaces
<1>3. ASSUME NEW q \in Owning \ {"unlock"}, hpc' = [hpc EXCEPT ![t] = q], own' = own,
             hpc[t] \in Owning \ {"unlock"}, \A c \in Conn : Alive(c)' <=> Alive(c)
      PROVE  PlacesInv'
  <2>1. hat[t] # None /\ own[hat[t]] = t /\ hpc[t] \notin Before /\ q \in HttpPlace /\ q \notin Bare
    BY <1>0, <1>3 DEF InHand, Locked, Owning, Before, HttpPlace, Bare
  <2>2. \A u \in Threads : u # t /\ hpc[u] \in Owning => own'[hat[u]] = own[hat[u]]
    BY <1>3
  <2> QED BY <1>1, <1>3, <2>1, <2>2, MovingOnKeepsPlaces
<1>4. CASE Http!GiveUp(t) /\ hpc[t] \in {"accepted", "read", "rearm"}
  <2>1. hpc' = [hpc EXCEPT ![t] = "drop"] /\ own' = own /\ state' = state
    BY <1>4 DEF Http!GiveUp, Http!Goto, Http!conns
  <2>2. \A c \in Conn : Alive(c)' <=> Alive(c)
    BY <2>1 DEF Alive
  <2> QED BY <1>3, <1>4, <2>1, <2>2 DEF Owning
<1>5. CASE Http!Grow(t)
  <2>1. own' = own /\ state' = state /\ hpc[t] = "read"
        /\ (hpc' = hpc \/ hpc' = [hpc EXCEPT ![t] = "uncharge"])
    BY <1>5 DEF Http!Grow, Http!Goto
  <2>2. \A c \in Conn : Alive(c)' <=> Alive(c)
    BY <2>1 DEF Alive
  <2>3. hpc' = hpc => PlacesInv'
    BY <1>1, <2>1, StandingKeepsPlaces
  <2>4. "uncharge" \in Owning \ {"unlock"} /\ hpc[t] \in Owning \ {"unlock"}
    BY <2>1 DEF Owning
  <2> QED BY <1>3, <2>1, <2>2, <2>3, <2>4
<1>6. CASE Http!Uncharge(t) \/ Http!HandleCloses(t)
  <2>1. hpc' = [hpc EXCEPT ![t] = "drop"] /\ own' = own /\ state' = state
        /\ hpc[t] \in {"uncharge", "handle"}
    BY <1>6 DEF Http!Uncharge, Http!HandleCloses, Http!Handle, Http!Goto, Http!conns
  <2>2. \A c \in Conn : Alive(c)' <=> Alive(c)
    BY <2>1 DEF Alive
  <2> QED BY <1>3, <2>1, <2>2 DEF Owning
<1>7. CASE Http!HandleKeeps(t)
  <2>1. PICK q \in {"handle", "rearm", "drop"} : hpc' = [hpc EXCEPT ![t] = q]
    BY <1>7 DEF Http!HandleKeeps, Http!AfterKeep, Http!Goto
  <2>2. own' = own /\ state' = [state EXCEPT ![hat[t]] = "reading"] /\ hpc[t] = "handle"
    BY <1>7 DEF Http!HandleKeeps, Http!Handle
  <2>3. hat[t] \in Conn /\ Alive(hat[t])
    BY <1>0, <2>2, HandTypes DEF InHand, Owning
  <2>4. \A c \in Conn : Alive(c)' <=> Alive(c)
    BY <1>0, <2>2, <2>3 DEF Alive
  <2> QED BY <1>3, <2>1, <2>2, <2>4 DEF Owning
<1> QED BY <1>2, <1>4, <1>5, <1>6, <1>7
LEMMA HttpInitial == Http!Init => HttpInv
<1> SUFFICES ASSUME Http!Init PROVE HttpInv
  OBVIOUS
<1>1. HttpTypes
  <2>1. hpc \in [Threads -> HttpPlace] /\ hat \in [Threads -> Conn \cup {None}]
    BY HttpConstants DEF Http!Init, HttpPlace, Bare
  <2>2. /\ state \in [Conn -> {"free", "reading", "dispatched"}] /\ cap \in [Conn -> Nat] /\ heap \in Int
        /\ \A c \in Conn : cap[c] >= InlineCap /\ (state[c] = "free" => cap[c] = InlineCap)
    BY HttpConstants DEF Http!Init
  <2>3. queue \in Seq(Conn)
    BY DEF Http!Init
  <2> QED BY <2>1, <2>2, <2>3, HttpConstants DEF Http!Init, HttpTypes, Http!TypeOK
<1>2. /\ \A t \in Threads : hat[t] = None /\ hpc[t] \in {"wait", "top"}
      /\ \A c \in Conn : state[c] = "free" /\ buf[c] = << >>
      /\ armed = {} /\ DOMAIN queue = {}
  BY HttpConstants DEF Http!Init
<1>3. InHand /\ Shelved /\ NoneLost /\ Locked
  BY <1>2, HttpConstants DEF InHand, Shelved, NoneLost, Locked, Alive, Bare, Owning
<1>4. Unheard
  BY <1>2 DEF Unheard, Http!Complete
<1>5. Http!HeapExact
  <2>1. Http!Live = {} /\ Http!Refused = {} /\ heap = 0
    BY <1>2 DEF Http!Live, Http!Refused, Http!Init, Threads
  <2>2. \A f : Http!Sum(f, {}) = 0
    BY HttpSum, SumEmpty
  <2> QED BY <2>1, <2>2 DEF Http!HeapExact
<1> QED BY <1>1, <1>3, <1>4, <1>5 DEF HttpInv, PlacesInv

LEMMA PeerKeepsPlaces ==
    ASSUME PlacesInv, NEW c \in Conn,
           (\E f \in Fragment : Http!Send(c, f)) \/ Http!PeerCloses(c) \/ Http!LimitPasses(c) \/ Http!Stop
    PROVE  PlacesInv'
<1>1. UNCHANGED <<state, own, armed, queue, hpc, hat>>
  BY DEF Http!Send, Http!PeerCloses, Http!LimitPasses, Http!Stop, Http!conns
<1>2. HttpTypes'
  BY PeerTypes DEF PlacesInv
<1> QED BY <1>1, <1>2, StandingKeepsPlaces

LEMMA UnlockKeepsPlaces ==
    ASSUME PlacesInv, NEW t \in Threads, Http!Unlock(t)
    PROVE  PlacesInv'
<1>0. /\ HttpTypes /\ InHand /\ Locked /\ None \notin Threads
      /\ own \in [Conn -> Threads \cup {None}] /\ hpc[t] \in {"unlock", "drop"}
  BY HttpConstants DEF PlacesInv, HttpTypes, Http!TypeOK, Http!Unlock
<1>1. HttpTypes' /\ own' = [own EXCEPT ![hat[t]] = None] /\ UNCHANGED <<state, armed, queue>>
  BY MovesTypes DEF Http!Unlock
<1>2. CASE hpc[t] = "unlock"
  <2>1. PICK q \in {"wait", "top"} : hpc' = [hpc EXCEPT ![t] = q] /\ hat' = [hat EXCEPT ![t] = None]
    BY <1>2 DEF Http!Unlock, Http!Goto
  <2> QED BY <1>1, <1>2, <2>1, UnlockingKeepsPlaces
<1>3. CASE hpc[t] = "drop"
  <2>1. hpc' = [hpc EXCEPT ![t] = "free"] /\ hat' = hat
    BY <1>3 DEF Http!Unlock, Http!Goto
  <2>2. hat[t] \in Conn /\ own[hat[t]] = t /\ hpc[t] \notin Before
    BY <1>0, <1>3, HandTypes DEF Locked, Owning, Before
  <2>3. \A u \in Threads : u # t /\ hpc[u] \in Owning => own'[hat[u]] = own[hat[u]]
    <3> SUFFICES ASSUME NEW u \in Threads, u # t, hpc[u] \in Owning PROVE own'[hat[u]] = own[hat[u]]
      OBVIOUS
    <3>1. own[hat[u]] = u /\ hat[u] # hat[t]
      BY <1>0, <2>2 DEF Locked
    <3>2. hat[u] \in Conn
      BY HandTypes
    <3> QED BY <1>0, <1>1, <3>1, <3>2
  <2>4. \A c \in Conn : Alive(c)' <=> Alive(c)
    BY <1>1 DEF Alive
  <2>5. "free" \in HttpPlace /\ "free" \notin Bare /\ "free" \notin Owning /\ hat[t] # None
    BY <2>2, HttpConstants DEF HttpPlace, Bare, Owning
  <2> QED BY <1>1, <1>3, <2>1, <2>2, <2>3, <2>4, <2>5, MovingOnKeepsPlaces
<1> QED BY <1>0, <1>2, <1>3

LEMMA ReactorKeepsPlaces ==
    ASSUME PlacesInv, NEW r \in Reactor,
           Http!ReactorStep(r) \/ \E c \in Conn : Http!EpollTake(r, c) \/ Http!AcceptLink(r, c)
    PROVE  PlacesInv'
<1>0. r \in Threads /\ HttpTypes
  BY DEF Threads, PlacesInv
<1>1. CASE Http!EpollTimeout(r) \/ Http!ReactorStops(r) \/ Http!SweepNow(r) \/ Http!SweepLock(r)
           \/ Http!SweepEnd(r) \/ Http!Idle(r)
  <2>1. HttpTypes'
    BY <1>0, <1>1, SweepTypes
  <2> QED BY <1>0, <1>1, <2>1, LookingKeepsPlaces
<1>2. ASSUME NEW c \in Conn, Http!SweepOne(r, c) PROVE PlacesInv'
  <2>1. HttpTypes'
    BY <1>0, <1>2, SweepTypes
  <2>2. UNCHANGED <<state, own, armed, queue, hpc, hat>>
    BY <1>2 DEF Http!SweepOne
  <2> QED BY <2>1, <2>2, StandingKeepsPlaces
<1>3. ASSUME NEW c \in Conn, Http!EpollTake(r, c) PROVE PlacesInv'
  <2>1. HttpTypes'
    BY <1>0, <1>3, SweepTypes
  <2>2. /\ hpc[r] \in Bare /\ "woken" \in Before /\ hpc' = [hpc EXCEPT ![r] = "woken"]
        /\ hat' = [hat EXCEPT ![r] = c] /\ UNCHANGED <<state, own>>
        /\ c \in armed /\ armed' = armed \ {c} /\ queue' = queue
    BY <1>3 DEF Http!EpollTake, Http!Ready, Http!Goto, Bare, Before
  <2> QED BY <1>0, <2>1, <2>2, TakingKeepsPlaces
<1>4. ASSUME NEW c \in Conn, Http!AcceptLink(r, c) PROVE PlacesInv'
  <2>1. HttpTypes'
    BY <1>0, <1>4, WorkTypes
  <2> QED BY <1>0, <1>4, <2>1, AcceptKeepsPlaces
<1>5. CASE Http!ReactorLock(r)
  <2>1. HttpTypes'
    BY <1>0, <1>5, MovesTypes
  <2> QED BY <1>0, <1>5, <2>1, WorkingKeepsPlaces
<1>6. CASE Http!Grow(r) \/ Http!Uncharge(r)
  <2>1. HttpTypes'
    BY <1>0, <1>6, WorkTypes
  <2> QED BY <1>0, <1>6, <2>1, WorkingKeepsPlaces
<1>7. CASE /\ Http!AcceptFails(r) \/ Http!TooLarge(r) \/ Http!ReadEof(r) \/ Http!ReadBad(r) \/ Http!ReadMore(r)
           /\ Http!GiveUp(r)
  <2>1. HttpTypes'
    BY <1>0, <1>7, MovesTypes
  <2>2. hpc[r] \in {"accepted", "read", "rearm"}
    BY <1>7 DEF Http!AcceptFails, Http!TooLarge, Http!ReadEof, Http!ReadBad, Http!ReadMore, Http!Drained
  <2> QED BY <1>0, <1>7, <2>1, <2>2, WorkingKeepsPlaces
<1>8. CASE (Http!AcceptArm(r) \/ Http!ReadMore(r)) /\ Http!Arm(r, "unlock")
  <2>1. HttpTypes'
    BY <1>0, <1>8, MovesTypes
  <2>2. hpc[r] \in Owning \ {"unlock"}
    BY <1>8 DEF Http!AcceptArm, Http!ReadMore, Http!Drained, Owning
  <2>3. /\ hpc' = [hpc EXCEPT ![r] = "unlock"] /\ UNCHANGED <<hat, own, state>>
        /\ armed' = armed \cup {hat[r]} /\ queue' = queue
    BY <1>8 DEF Http!Arm, Http!Goto
  <2>4. \A c \in Conn : Alive(c)' <=> Alive(c)
    BY <2>3 DEF Alive
  <2> QED BY <1>0, <2>1, <2>2, <2>3, <2>4, ReleasingKeepsPlaces
<1>9. CASE Http!Dispatch(r)
  <2>1. HttpTypes'
    BY <1>0, <1>9, MovesTypes
  <2>2. hpc[r] \in Owning \ {"unlock"}
    BY <1>9 DEF Http!Dispatch, Http!Drained, Owning
  <2>3. /\ hpc' = [hpc EXCEPT ![r] = "unlock"] /\ UNCHANGED <<hat, own>>
        /\ armed' = armed /\ queue' = Append(queue, hat[r])
        /\ state' = [state EXCEPT ![hat[r]] = "dispatched"]
    BY <1>9 DEF Http!Dispatch, Http!Goto
  <2>4. hat[r] \in Conn /\ Alive(hat[r])
    BY <1>0, <2>2, HandTypes, HttpConstants DEF PlacesInv, InHand
  <2>5. \A c \in Conn : Alive(c)' <=> Alive(c)
    BY <1>0, <2>3, <2>4 DEF Alive, HttpTypes, Http!TypeOK
  <2> QED BY <1>0, <2>1, <2>2, <2>3, <2>5, ReleasingKeepsPlaces
<1>10. CASE Http!Read(r)
  <2>1. HttpTypes'
    BY <1>0, <1>10, WorkTypes
  <2>2. UNCHANGED <<state, own, armed, queue, hpc, hat>>
    BY <1>10 DEF Http!Read
  <2> QED BY <2>1, <2>2, StandingKeepsPlaces
<1>11. CASE Http!Free(r)
  <2>1. HttpTypes'
    BY <1>0, <1>11, WorkTypes
  <2> QED BY <1>0, <1>11, <2>1, FreeKeepsPlaces
<1>12. CASE Http!Unlock(r)
  BY <1>0, <1>12, UnlockKeepsPlaces
<1>13. Http!AcceptFails(r) \/ Http!TooLarge(r) \/ Http!ReadEof(r) \/ Http!ReadBad(r) => Http!GiveUp(r)
  BY DEF Http!AcceptFails, Http!TooLarge, Http!ReadEof, Http!ReadBad
<1>14. Http!AcceptArm(r) => Http!Arm(r, "unlock")
  BY DEF Http!AcceptArm
<1>15. Http!ReadMore(r) => Http!Arm(r, "unlock") \/ Http!GiveUp(r)
  BY DEF Http!ReadMore
<1> QED
  BY <1>1, <1>2, <1>3, <1>4, <1>5, <1>6, <1>7, <1>8, <1>9, <1>10, <1>11, <1>12, <1>13, <1>14, <1>15
  DEF Http!ReactorStep

LEMMA WorkerKeepsPlaces ==
    ASSUME PlacesInv, NEW w \in HttpWorker, Http!WorkerStep(w)
    PROVE  PlacesInv'
<1>0. w \in Threads /\ HttpTypes
  BY DEF Threads, PlacesInv
<1>1. CASE Http!WorkerTop(w) \/ Http!PopNothing(w)
  <2>1. HttpTypes'
    BY <1>0, <1>1, MovesTypes
  <2> QED BY <1>0, <1>1, <2>1, LookingKeepsPlaces
<1>2. CASE Http!Pop(w)
  <2>1. HttpTypes'
    BY <1>0, <1>2, MovesTypes
  <2>2. PICK c \in Conn : c = Head(queue)
    <3>1. queue \in Seq(Conn) /\ queue # << >>
      BY <1>0, <1>2 DEF HttpTypes, Http!TypeOK, Http!Pop
    <3> QED BY <3>1
  <2>3. /\ hpc[w] \in Bare /\ "popped" \in Before /\ hpc' = [hpc EXCEPT ![w] = "popped"]
        /\ hat' = [hat EXCEPT ![w] = c] /\ UNCHANGED <<state, own>>
        /\ queue # << >> /\ queue' = Tail(queue) /\ armed' = armed
    BY <1>2, <2>2 DEF Http!Pop, Http!Goto, Http!conns, Bare, Before
  <2> QED BY <1>0, <2>1, <2>2, <2>3, TakingKeepsPlaces
<1>3. CASE Http!WorkerLock(w)
  <2>1. HttpTypes'
    BY <1>0, <1>3, MovesTypes
  <2> QED BY <1>0, <1>3, <2>1, WorkingKeepsPlaces
<1>4. CASE Http!HandleCloses(w) \/ Http!HandleKeeps(w)
  <2>1. HttpTypes'
    BY <1>0, <1>4, WorkTypes
  <2> QED BY <1>0, <1>4, <2>1, WorkingKeepsPlaces
<1>5. CASE Http!Rearm(w) /\ Http!GiveUp(w)
  <2>1. HttpTypes'
    BY <1>0, <1>5, MovesTypes
  <2>2. hpc[w] \in {"accepted", "read", "rearm"}
    BY <1>5 DEF Http!Rearm
  <2> QED BY <1>0, <1>5, <2>1, <2>2, WorkingKeepsPlaces
<1>6. CASE Http!Rearm(w) /\ Http!Arm(w, "unlock")
  <2>1. HttpTypes'
    BY <1>0, <1>6, MovesTypes
  <2>2. hpc[w] \in Owning \ {"unlock"}
    BY <1>6 DEF Http!Rearm, Owning
  <2>3. /\ hpc' = [hpc EXCEPT ![w] = "unlock"] /\ UNCHANGED <<hat, own, state>>
        /\ armed' = armed \cup {hat[w]} /\ queue' = queue
    BY <1>6 DEF Http!Arm, Http!Goto
  <2>4. \A c \in Conn : Alive(c)' <=> Alive(c)
    BY <2>3 DEF Alive
  <2> QED BY <1>0, <2>1, <2>2, <2>3, <2>4, ReleasingKeepsPlaces
<1>7. CASE Http!Free(w)
  <2>1. HttpTypes'
    BY <1>0, <1>7, WorkTypes
  <2> QED BY <1>0, <1>7, <2>1, FreeKeepsPlaces
<1>8. CASE Http!Unlock(w)
  BY <1>0, <1>8, UnlockKeepsPlaces
<1>9. Http!Rearm(w) => Http!Arm(w, "unlock") \/ Http!GiveUp(w)
  BY DEF Http!Rearm
<1> QED BY <1>1, <1>2, <1>3, <1>4, <1>5, <1>6, <1>7, <1>8, <1>9 DEF Http!WorkerStep
-----------------------------------------------------------------------------
(* heap_buffered                                                           *)

Bytes == [c \in Http!Live |-> Http!HeapOf(cap[c])]
Debts == [r \in Http!Refused |-> Http!GrowBy(hat[r])]
Held == Sum(Bytes, Http!Live)
Owed == Sum(Debts, Http!Refused)
TermsSound ==
    /\ IsFiniteSet(Http!Live) /\ \A c \in Http!Live : Bytes[c] \in Int
    /\ IsFiniteSet(Http!Refused) /\ \A r \in Http!Refused : Debts[r] \in Int
    /\ Held \in Int /\ Owed \in Int
    /\ \A r \in Http!Refused : r \in Threads /\ hat[r] \in Http!Live

LEMMA HeapTerms == PlacesInv => TermsSound
<1> SUFFICES ASSUME PlacesInv PROVE TermsSound
  OBVIOUS
<1>1. IsFiniteSet(Http!Live) /\ IsFiniteSet(Http!Refused)
  <2>1. Http!Live \subseteq Conn /\ Http!Refused \subseteq Reactor
    BY DEF Http!Live, Http!Refused
  <2> QED BY <2>1, HttpConstants, FS_Subset
<1>2. \A c \in Http!Live : Bytes[c] \in Int
  BY DEF Bytes, Http!Live, PlacesInv, HttpTypes, Http!HeapOf
<1>3. \A r \in Http!Refused : r \in Threads /\ hat[r] \in Http!Live
  <2> SUFFICES ASSUME NEW r \in Http!Refused PROVE r \in Threads /\ hat[r] \in Http!Live
    OBVIOUS
  <2>1. r \in Threads /\ hpc[r] \in Owning
    BY DEF Http!Refused, Threads, Owning
  <2>2. hat[r] \in Conn
    BY <2>1, HandTypes
  <2> QED BY <2>1, <2>2 DEF PlacesInv, InHand, Alive, Http!Live
<1>4. \A r \in Http!Refused : Debts[r] \in Int
  <2> SUFFICES ASSUME NEW r \in Http!Refused PROVE Http!GrowBy(hat[r]) \in Int
    BY DEF Debts
  <2>1. hat[r] \in Conn /\ cap[hat[r]] \in Nat
    BY <1>3 DEF Http!Live, PlacesInv, HttpTypes
  <2> QED BY <2>1, HttpConstants DEF Http!GrowBy, Http!NewCap, Http!HeapOf
<1>5. Held \in Int /\ Owed \in Int
  BY <1>1, <1>2, <1>4, SumInt DEF Held, Owed
<1> QED BY <1>1, <1>2, <1>3, <1>4, <1>5 DEF TermsSound

LEMMA HeapTermsNext == PlacesInv' => TermsSound'
BY HeapTerms, PTL

Balanced == heap = Held + Owed

LEMMA HeapIs == Http!HeapExact <=> heap = Held + Owed
BY HttpSum DEF Http!HeapExact, Bytes, Debts, Held, Owed

LEMMA HeapIsNext == Http!HeapExact' <=> heap' = Held' + Owed'
<1>1. Http!HeapExact <=> Balanced
  BY HeapIs DEF Balanced
<1>2. Http!HeapExact' <=> Balanced'
  BY <1>1, PTL
<1> QED BY <1>2 DEF Balanced

LEMMA HeldSame ==
    ASSUME \A c \in Conn : Alive(c)' <=> Alive(c), \A c \in Conn : Alive(c) => cap'[c] = cap[c]
    PROVE  Held' = Held
<1>1. Http!Live' = Http!Live
  BY DEF Http!Live, Alive
<1>2. Bytes' = Bytes
  BY <1>1 DEF Bytes, Http!HeapOf, Http!Live, Alive
<1> QED BY <1>1, <1>2 DEF Held

LEMMA OwedSame ==
    ASSUME Http!Refused' = Http!Refused,
           \A r \in Http!Refused : hat'[r] = hat[r] /\ cap'[hat[r]] = cap[hat[r]]
    PROVE  Owed' = Owed
<1>1. \A r \in Http!Refused : Http!GrowBy(hat[r])' = Http!GrowBy(hat[r])
  BY DEF Http!GrowBy, Http!NewCap, Http!HeapOf
<1>2. Debts' = Debts
  BY <1>1 DEF Debts
<1> QED BY <1>2 DEF Owed

\* No step but those below touches the sums.
LEMMA HeapUntouched ==
    ASSUME PlacesInv, Http!HeapExact, UNCHANGED <<heap, cap>>, \A c \in Conn : Alive(c)' <=> Alive(c),
           \A r \in Reactor : hpc'[r] = "uncharge" <=> hpc[r] = "uncharge",
           \A r \in Reactor : hpc[r] = "uncharge" => hat'[r] = hat[r]
    PROVE  Http!HeapExact'
<1>1. Http!Refused' = Http!Refused
  BY DEF Http!Refused
<1>2. Held' = Held
  BY HeldSame
<1>3. Owed' = Owed
  BY <1>1, OwedSame DEF Http!Refused
<1> QED BY <1>2, <1>3, HeapIs, HeapIsNext

LEMMA AcceptKeepsHeap ==
    ASSUME PlacesInv, PlacesInv', Http!HeapExact, NEW r \in Reactor, NEW c \in Conn, Http!AcceptLink(r, c)
    PROVE  Http!HeapExact'
<1>0. /\ heap' = heap /\ cap' = cap /\ ~Alive(c) /\ hpc' = [hpc EXCEPT ![r] = "accepted"]
      /\ hat' = [hat EXCEPT ![r] = c] /\ state' = [state EXCEPT ![c] = "reading"]
      /\ hpc[r] \in {"woken", "swept"} /\ HttpTypes /\ TermsSound /\ TermsSound'
  BY HeapTerms, HeapTermsNext DEF Http!AcceptLink, Http!Goto, Alive, Http!Live, PlacesInv
<1>1. Http!Live' = Http!Live \cup {c} /\ c \notin Http!Live
  BY <1>0 DEF Http!Live, Alive, HttpTypes, Http!TypeOK
<1>2. Http!Refused' = Http!Refused /\ \A q \in Http!Refused : hat'[q] = hat[q]
  <2>1. r \in Threads /\ hpc \in [Threads -> HttpPlace] /\ hat \in [Threads -> Conn \cup {None}]
    BY <1>0, HttpConstants DEF HttpTypes, Http!TypeOK, Threads
  <2> QED BY <1>0, <2>1 DEF Http!Refused, Threads
<1>3. Owed' = Owed
  BY <1>0, <1>2, OwedSame
<1>4. Held' = Held
  <2> PICK L, f, g : L = Http!Live /\ f = Bytes /\ g = Bytes'
    OBVIOUS
  <2>1. \A d \in L : f[d] \in Int /\ g[d] = f[d]
    BY <1>0, <1>1 DEF TermsSound, Bytes, Http!HeapOf
  <2>2. g[c] = 0
    <3>1. cap[c] = InlineCap /\ g[c] = Http!HeapOf(cap[c])'
      BY <1>0, <1>1 DEF HttpTypes, Alive, Bytes
    <3> QED BY <1>0, <3>1 DEF Http!HeapOf
  <2>3. IsFiniteSet(L) /\ c \notin L /\ Held' = Sum(g, L \cup {c}) /\ Held = Sum(f, L)
    BY <1>0, <1>1 DEF TermsSound, Held
  <2>4. Sum(f, L) = Sum(g, L) /\ Sum(g, L) \in Int
    BY <2>1, <2>3, SumSame, SumInt
  <2>5. Sum(g, L \cup {c}) = Sum(g, L) + g[c]
    BY <2>1, <2>2, <2>3, SumAdd
  <2> QED BY <2>2, <2>3, <2>4, <2>5
<1> QED BY <1>0, <1>3, <1>4, HeapIs, HeapIsNext

\* No reactor that is about to give memory back has the connection of another thread.
LEMMA DebtorsElsewhere ==
    ASSUME PlacesInv, NEW t \in Threads, hat[t] \in Conn, hpc[t] \notin Before,
           NEW q \in Http!Refused, q # t
    PROVE  hat[q] # hat[t]
<1>1. q \in Threads /\ hpc[q] = "uncharge"
  BY DEF Http!Refused, Threads
<1> QED BY <1>1, HttpConstants DEF PlacesInv, InHand, Before

LEMMA GrowKeepsHeap ==
    ASSUME PlacesInv, PlacesInv', Http!HeapExact, NEW r \in Reactor, Http!Grow(r)
    PROVE  Http!HeapExact'
<1>0. /\ heap' = heap + Http!GrowBy(hat[r]) /\ UNCHANGED <<hat, state>> /\ hpc[r] = "read"
      /\ HttpTypes /\ TermsSound /\ TermsSound' /\ r \in Threads
  BY HeapTerms, HeapTermsNext DEF Http!Grow, PlacesInv, Threads
<1>1. PICK c \in Conn : hat[r] = c
  BY <1>0, HandTypes DEF Owning
<1>2. /\ hpc \in [Threads -> HttpPlace] /\ cap \in [Conn -> Nat] /\ cap[c] >= InlineCap /\ cap[c] \in Nat
      /\ Alive(c) /\ Http!Live' = Http!Live /\ c \in Http!Live
  BY <1>0, <1>1, HttpConstants DEF PlacesInv, HttpTypes, InHand, Alive, Http!Live
<1>3. Http!NewCap(c) \in Nat /\ Http!NewCap(c) # InlineCap /\ Http!GrowBy(c) \in Int
      /\ Http!GrowBy(c) = Http!NewCap(c) - Http!HeapOf(cap[c])
  BY <1>2, HttpConstants DEF Http!NewCap, Http!GrowBy, Http!HeapOf
<1>4. CASE cap' = cap /\ hpc' = [hpc EXCEPT ![r] = "uncharge"]
  <2>1. Held' = Held
    BY <1>0, <1>4, HeldSame DEF Alive
  <2>2. Http!Refused' = Http!Refused \cup {r} /\ r \notin Http!Refused
    BY <1>0, <1>2, <1>4 DEF Http!Refused, Threads
  <2> PICK R, f, g : R = Http!Refused /\ f = Debts /\ g = Debts'
    OBVIOUS
  <2>3. \A q \in R : f[q] \in Int /\ g[q] = f[q]
    BY <1>0, <1>4, <2>2 DEF TermsSound, Debts, Http!GrowBy, Http!NewCap, Http!HeapOf
  <2>4. g[r] = Http!GrowBy(c)
    BY <1>0, <1>1, <1>4, <2>2 DEF Debts, Http!GrowBy, Http!NewCap, Http!HeapOf
  <2>5. IsFiniteSet(R) /\ r \notin R /\ Owed' = Sum(g, R \cup {r}) /\ Owed = Sum(f, R)
    BY <1>0, <2>2 DEF TermsSound, Owed
  <2>6. Sum(f, R) = Sum(g, R) /\ Sum(g, R) \in Int
    BY <2>3, <2>5, SumSame, SumInt
  <2>7. Sum(g, R \cup {r}) = Sum(g, R) + g[r]
    BY <1>3, <2>3, <2>4, <2>5, SumAdd
  <2>8. Owed' = Owed + Http!GrowBy(hat[r]) /\ Owed \in Int /\ Held \in Int
    BY <1>0, <1>1, <2>4, <2>5, <2>6, <2>7 DEF TermsSound
  <2> QED BY <1>0, <1>1, <1>3, <2>1, <2>8, HeapIs, HeapIsNext
<1>5. CASE cap' = [cap EXCEPT ![c] = Http!NewCap(c)] /\ hpc' = hpc
  <2>1. Http!Refused' = Http!Refused /\ \A q \in Http!Refused : hat'[q] = hat[q] /\ cap'[hat[q]] = cap[hat[q]]
    <3>1. \A q \in Http!Refused : q # r /\ hat[q] \in Conn
      BY <1>0 DEF TermsSound, Http!Refused, Http!Live
    <3>2. \A q \in Http!Refused : hat[q] # c
      BY <1>0, <1>1, <3>1, DebtorsElsewhere DEF Before
    <3> QED BY <1>0, <1>2, <1>5, <3>1, <3>2 DEF Http!Refused
  <2>2. Owed' = Owed
    BY <2>1, OwedSame
  <2> PICK L, f, g : L = Http!Live /\ f = Bytes /\ g = Bytes'
    OBVIOUS
  <2>3. \A d \in L : f[d] \in Int /\ g[d] \in Int /\ (d # c => g[d] = f[d])
    BY <1>0, <1>2, <1>5 DEF TermsSound, Bytes, Http!HeapOf, Http!Live
  <2>4. f[c] = Http!HeapOf(cap[c]) /\ g[c] = Http!NewCap(c)
    BY <1>2, <1>3, <1>5 DEF Bytes, Http!HeapOf
  <2>5. IsFiniteSet(L) /\ c \in L /\ Held' = Sum(g, L) /\ Held = Sum(f, L) /\ Held \in Int
    BY <1>0, <1>2 DEF TermsSound, Held
  <2>6. Sum(g, L) = Sum(f, L) - f[c] + g[c]
    BY <2>3, <2>5, SumUpdate
  <2>7. f[c] \in Int /\ g[c] \in Int /\ Owed \in Int
    BY <1>0, <2>3, <2>5 DEF TermsSound
  <2>8. heap' = Held + Owed + (Http!NewCap(c) - Http!HeapOf(cap[c]))
    BY <1>0, <1>1, <1>3, HeapIs
  <2>9. Held' = Held - f[c] + g[c]
    BY <2>5, <2>6
  <2> QED BY <2>2, <2>4, <2>5, <2>7, <2>8, <2>9, HeapIsNext
<1> QED BY <1>1, <1>4, <1>5 DEF Http!Grow, Http!Goto
LEMMA UnchargeKeepsHeap ==
    ASSUME PlacesInv, PlacesInv', Http!HeapExact, NEW r \in Reactor, Http!Uncharge(r)
    PROVE  Http!HeapExact'
<1>0. /\ heap' = heap - Http!GrowBy(hat[r]) /\ UNCHANGED <<hat, state, cap>> /\ hpc[r] = "uncharge"
      /\ hpc' = [hpc EXCEPT ![r] = "drop"] /\ HttpTypes /\ TermsSound /\ TermsSound' /\ r \in Threads
  BY HeapTerms, HeapTermsNext DEF Http!Uncharge, Http!Goto, Http!conns, PlacesInv, Threads
<1>1. Held' = Held
  BY <1>0, HeldSame DEF Alive
<1>2. Http!Refused' = Http!Refused \ {r} /\ r \in Http!Refused
  BY <1>0 DEF Http!Refused, Threads, HttpTypes
<1> PICK R, f, g : R = Http!Refused /\ f = Debts /\ g = Debts'
  OBVIOUS
<1>3. \A q \in R \ {r} : g[q] \in Int /\ g[q] = f[q]
  BY <1>0, <1>2 DEF TermsSound, Debts, Http!GrowBy, Http!NewCap, Http!HeapOf
<1>4. IsFiniteSet(R) /\ r \in R /\ Owed' = Sum(g, R \ {r}) /\ Owed = Sum(f, R)
      /\ f[r] = Http!GrowBy(hat[r]) /\ \A q \in R : f[q] \in Int
  BY <1>0, <1>2 DEF TermsSound, Owed, Debts
<1>5. Sum(f, R) = f[r] + Sum(f, R \ {r})
  BY <1>4, SumRemove
<1>6. IsFiniteSet(R \ {r}) /\ \A q \in R \ {r} : f[q] \in Int /\ f[q] = g[q]
  BY <1>3, <1>4, FS_Subset
<1>7. Sum(f, R \ {r}) = Sum(g, R \ {r}) /\ Sum(f, R \ {r}) \in Int
  BY <1>6, SumSame, SumInt
<1>8. Owed = f[r] + Owed' /\ Owed' \in Int /\ f[r] \in Int /\ Held \in Int /\ heap' = heap - f[r]
  BY <1>0, <1>4, <1>5, <1>7 DEF TermsSound
<1>9. heap = Held + Owed
  BY HeapIs
<1> QED BY <1>1, <1>8, <1>9, HeapIsNext

LEMMA FreeKeepsHeap ==
    ASSUME PlacesInv, PlacesInv', Http!HeapExact, NEW t \in Threads, Http!Free(t)
    PROVE  Http!HeapExact'
<1>0. HttpTypes /\ TermsSound /\ TermsSound' /\ hpc \in [Threads -> HttpPlace] /\ hpc[t] = "free"
      /\ hat \in [Threads -> Conn \cup {None}]
  BY HeapTerms, HeapTermsNext, HttpConstants DEF PlacesInv, HttpTypes, Http!TypeOK, Http!Free
<1>1. PICK c \in Conn : hat[t] = c
  BY <1>0, HandTypes
<1>2. PICK q \in {"wait", "top"} : hpc' = [hpc EXCEPT ![t] = q] /\ hat' = [hat EXCEPT ![t] = None]
  BY DEF Http!Free, Http!Goto
<1>3. /\ \A d \in Conn : state'[d] = IF d = c THEN "free" ELSE state[d]
      /\ \A d \in Conn : cap'[d] = IF d = c THEN InlineCap ELSE cap[d]
      /\ heap' = heap - Http!HeapOf(cap[c]) /\ Http!HeapOf(cap[c]) \in Int
  <2>1. {c} \in SUBSET Conn /\ Http!Freed({c})
    BY <1>1 DEF Http!Free
  <2>2. /\ \A d \in Conn : state'[d] = IF d \in {c} THEN "free" ELSE state[d]
        /\ \A d \in Conn : cap'[d] = IF d \in {c} THEN InlineCap ELSE cap[d]
        /\ heap' = heap - Sum([d \in {c} |-> Http!HeapOf(cap[d])], {c})
    BY <1>0, <2>1, FreedTypes
  <2> PICK h : h = [d \in {c} |-> Http!HeapOf(cap[d])]
    OBVIOUS
  <2>3. h[c] = Http!HeapOf(cap[c]) /\ h[c] \in Int
    BY <1>0, <2>1, HeapOfConns
  <2>4. IsFiniteSet({}) /\ c \notin {} /\ {} \cup {c} = {c} /\ \A x \in {} \cup {c} : h[x] \in Int
    BY <2>3, FS_EmptySet
  <2>5. Sum(h, {} \cup {c}) = Sum(h, {}) + h[c]
    BY <2>4, SumAdd
  <2>6. Sum(h, {c}) = h[c]
    BY <2>3, <2>4, <2>5, SumEmpty
  <2> QED BY <2>2, <2>3, <2>6
<1>4. Http!Live' = Http!Live \ {c} /\ c \in Http!Live
  <2>1. Alive(c)
    BY <1>0, <1>1, HttpConstants DEF PlacesInv, InHand
  <2> QED BY <1>3, <2>1 DEF Http!Live, Alive
<1>5. Owed' = Owed
  <2>1. Http!Refused' = Http!Refused
    <3>1. \A r \in Reactor : r \in Threads
      BY DEF Threads
    <3>2. \A r \in Reactor : hpc'[r] = "uncharge" <=> hpc[r] = "uncharge"
      BY <1>0, <1>2, <3>1
    <3> QED BY <3>2 DEF Http!Refused
  <2>2. \A r \in Http!Refused : r # t /\ hat[r] \in Conn
    BY <1>0 DEF TermsSound, Http!Refused, Http!Live
  <2>3. \A r \in Http!Refused : hat[r] # c
    BY <1>0, <1>1, <2>2, DebtorsElsewhere DEF Before
  <2>4. \A r \in Http!Refused : hat'[r] = hat[r] /\ cap'[hat[r]] = cap[hat[r]]
    BY <1>0, <1>2, <1>3, <2>2, <2>3 DEF TermsSound
  <2> QED BY <2>1, <2>4, OwedSame
<1> PICK L, f, g : L = Http!Live /\ f = Bytes /\ g = Bytes'
  OBVIOUS
<1>6. \A d \in L \ {c} : g[d] \in Int /\ g[d] = f[d]
  BY <1>0, <1>3, <1>4 DEF TermsSound, Bytes, Http!HeapOf, Http!Live
<1>7. IsFiniteSet(L) /\ c \in L /\ Held' = Sum(g, L \ {c}) /\ Held = Sum(f, L)
      /\ f[c] = Http!HeapOf(cap[c]) /\ \A d \in L : f[d] \in Int
  BY <1>0, <1>4 DEF TermsSound, Held, Bytes
<1>8. Sum(f, L) = f[c] + Sum(f, L \ {c})
  BY <1>7, SumRemove
<1>9. IsFiniteSet(L \ {c}) /\ \A d \in L \ {c} : f[d] \in Int /\ f[d] = g[d]
  BY <1>6, <1>7, FS_Subset
<1>10. Sum(f, L \ {c}) = Sum(g, L \ {c}) /\ Sum(f, L \ {c}) \in Int
  BY <1>9, SumSame, SumInt
<1>11. Held = f[c] + Held' /\ Held' \in Int /\ f[c] \in Int /\ Owed \in Int /\ heap' = heap - f[c]
  BY <1>0, <1>3, <1>7, <1>8, <1>10 DEF TermsSound
<1>12. heap = Held + Owed
  BY HeapIs
<1> QED BY <1>5, <1>11, <1>12, HeapIsNext

LEMMA JoinKeepsHeap ==
    ASSUME PlacesInv, PlacesInv', Http!HeapExact, Http!Join
    PROVE  Http!HeapExact'
<1>0. HttpTypes /\ TermsSound
  BY HeapTerms DEF PlacesInv
<1>1. Http!Live \in SUBSET Conn /\ Http!Freed(Http!Live)
  BY DEF Http!Live, Http!Join
<1>2. /\ \A c \in Conn : state'[c] = IF c \in Http!Live THEN "free" ELSE state[c]
      /\ heap' = heap - Sum([c \in Http!Live |-> Http!HeapOf(cap[c])], Http!Live)
  BY <1>0, <1>1, FreedTypes
<1>3. Http!Live' = {}
  BY <1>2 DEF Http!Live
<1>4. Http!Refused = {} /\ Http!Refused' = {}
  <2>1. \A r \in Reactor : hpc[r] = "done" /\ hpc' = hpc
    BY HttpConstants DEF Http!Join, Threads
  <2> QED BY <2>1 DEF Http!Refused
<1>5. Owed = 0 /\ Owed' = 0 /\ Held' = 0
  BY <1>3, <1>4, SumEmpty DEF Owed, Held
<1>6. heap' = heap - Held /\ Held \in Int
  BY <1>0, <1>2 DEF Held, Bytes, TermsSound
<1>7. heap = Held + Owed
  BY HeapIs
<1> QED BY <1>5, <1>6, <1>7, HeapIsNext-----------------------------------------------------------------------------
(* What a buffer that nobody looks at may hold, and the whole invariant      *)

Announcing == {"accepted", "unlock", "rearm"}

\* A thread moves on, and neither buffers nor their accounts change.
LEMMA QuietStep ==
    ASSUME HttpInv, NEW t \in Threads, NEW q \in HttpPlace \ {"uncharge"},
           hpc[t] \notin {"free", "uncharge"}, hpc' = [hpc EXCEPT ![t] = q],
           \A u \in Threads : u # t => hat'[u] = hat[u],
           UNCHANGED <<state, buf, cap, heap>>, \A c \in Conn : own'[c] = None => own[c] = None,
           q \in Announcing => \/ hpc[t] \in Announcing /\ hat'[t] = hat[t]
                               \/ ~Http!Complete(buf[hat'[t]])
    PROVE  Unheard' /\ Http!HeapExact'
<1>1. \A u \in Threads : hpc'[u] = IF u = t THEN q ELSE hpc[u]
  BY DEF HttpInv, PlacesInv, HttpTypes
<1>2. Unheard'
  BY <1>1 DEF HttpInv, Unheard, Announcing
<1>3. \A c \in Conn : Alive(c)' <=> Alive(c)
  BY DEF Alive
<1>4. /\ \A r \in Reactor : hpc'[r] = "uncharge" <=> hpc[r] = "uncharge"
      /\ \A r \in Reactor : hpc[r] = "uncharge" => hat'[r] = hat[r]
  <2>1. \A r \in Reactor : r \in Threads
    BY DEF Threads
  <2> QED BY <1>1, <2>1
<1>5. Http!HeapExact'
  BY <1>3, <1>4, HeapUntouched DEF HttpInv
<1> QED BY <1>2, <1>5

\* The threads stay where they are, with the buffers as they are.
LEMMA StillStep ==
    ASSUME HttpInv, UNCHANGED <<state, buf, cap, heap, own, hpc, hat>>
    PROVE  Unheard' /\ Http!HeapExact'
<1>1. Unheard'
  BY DEF HttpInv, Unheard
<1>2. \A c \in Conn : Alive(c)' <=> Alive(c)
  BY DEF Alive
<1>3. Http!HeapExact'
  BY <1>2, HeapUntouched DEF HttpInv
<1> QED BY <1>1, <1>3

\* No other thread looks into the buffer a thread is working on.
LEMMA OneReader ==
    ASSUME PlacesInv, NEW t \in Threads, hpc[t] \in {"read", "handle", "free"}
    PROVE  hat[t] \in Conn /\ \A u \in Threads : u # t => hat[u] # hat[t]
BY HandTypes, HttpConstants DEF PlacesInv, InHand, Owning, Before

\* A step of the owner that changes the buffer or the state of its connection
LEMMA OwnerStep ==
    ASSUME HttpInv, NEW t \in Threads, hpc[t] \in {"read", "handle"},
           NEW q \in HttpPlace \ {"uncharge"}, hpc' = [hpc EXCEPT ![t] = q],
           UNCHANGED <<hat, own, cap, heap>>,
           \A c \in Conn : c # hat[t] => state'[c] = state[c] /\ buf'[c] = buf[c],
           state'[hat[t]] \in {state[hat[t]], "reading", "dispatched"},
           q \in Announcing /\ state'[hat[t]] = "reading" => ~Http!Complete(buf'[hat[t]])
    PROVE  Unheard' /\ Http!HeapExact'
<1>1. \A u \in Threads : hpc'[u] = IF u = t THEN q ELSE hpc[u]
  BY DEF HttpInv, PlacesInv, HttpTypes
<1>2. PICK c \in Conn : hat[t] = c /\ \A u \in Threads : u # t => hat[u] # c
  BY OneReader DEF HttpInv
<1>3. Alive(c) /\ own[c] = t /\ t # None
  BY <1>2, HttpConstants DEF HttpInv, PlacesInv, InHand, Locked, Owning
<1>4. state'[c] # "free"
  BY <1>2, <1>3 DEF Alive
<1>5. Unheard'
  <2>1. \A d \in Conn : state'[d] = "free" => ~Http!Complete(buf'[d])
    BY <1>2, <1>4 DEF HttpInv, Unheard
  <2>2. \A d \in Conn : state'[d] = "reading" /\ own'[d] = None =>
           ~Http!Complete(buf'[d]) \/ \E u \in Threads : hat'[u] = d /\ hpc'[u] = "free"
    BY <1>1, <1>2, <1>3 DEF HttpInv, Unheard
  <2>3. ASSUME NEW u \in Threads, hpc'[u] \in Announcing, state'[hat'[u]] = "reading"
        PROVE  ~Http!Complete(buf'[hat'[u]])
    <3>1. CASE u = t
      BY <1>1, <1>2, <2>3, <3>1
    <3>2. CASE u # t
      <4>1. hpc[u] \in Announcing /\ hat[u] # c /\ hat'[u] = hat[u]
        BY <1>1, <1>2, <2>3, <3>2
      <4>2. hat[u] \in Conn
        BY <4>1, HandTypes DEF HttpInv, Owning, Announcing
      <4> QED BY <1>2, <2>3, <4>1, <4>2 DEF HttpInv, Unheard, Announcing
    <3> QED BY <3>1, <3>2
  <2> QED BY <2>1, <2>2, <2>3 DEF Unheard, Announcing
<1>6. \A d \in Conn : Alive(d)' <=> Alive(d)
  BY <1>2, <1>3, <1>4 DEF Alive
<1>7. \A r \in Reactor : hpc'[r] = "uncharge" <=> hpc[r] = "uncharge"
  <2>1. \A r \in Reactor : r \in Threads
    BY DEF Threads
  <2> QED BY <1>1, <2>1
<1>8. Http!HeapExact'
  BY <1>6, <1>7, HeapUntouched DEF HttpInv
<1> QED BY <1>5, <1>8
LEMMA AcceptIsSound ==
    ASSUME HttpInv, PlacesInv', NEW r \in Reactor, NEW c \in Conn, Http!AcceptLink(r, c)
    PROVE  Unheard' /\ Http!HeapExact'
<1>0. r \in Threads /\ None \notin Threads
  BY HttpConstants DEF Threads
<1>1. /\ hpc' = [hpc EXCEPT ![r] = "accepted"] /\ hat' = [hat EXCEPT ![r] = c] /\ buf' = buf
      /\ own' = [own EXCEPT ![c] = r] /\ state' = [state EXCEPT ![c] = "reading"] /\ ~Alive(c)
      /\ hpc[r] \in {"woken", "swept"}
  BY DEF Http!AcceptLink, Http!Goto, Http!Live, Alive
<1>2. /\ \A u \in Threads : hpc'[u] = IF u = r THEN "accepted" ELSE hpc[u]
      /\ \A u \in Threads : hat'[u] = IF u = r THEN c ELSE hat[u]
      /\ \A d \in Conn : own'[d] = IF d = c THEN r ELSE own[d]
      /\ \A d \in Conn : state'[d] = IF d = c THEN "reading" ELSE state[d]
  BY <1>1, HttpConstants DEF HttpInv, PlacesInv, HttpTypes, Http!TypeOK
<1>3. ~Http!Complete(buf[c])
  BY <1>1 DEF HttpInv, Unheard, Alive
<1>4. \A u \in Threads : hpc[u] \in Announcing => hat[u] \in Conn /\ hat[u] # c
  <2>1. \A u \in Threads : hpc[u] \in Announcing => hat[u] \in Conn /\ Alive(hat[u])
    BY HandTypes, HttpConstants DEF HttpInv, PlacesInv, InHand, Owning, Announcing
  <2> QED BY <1>1, <2>1
<1>5. Unheard'
  <2>1. \A d \in Conn : state'[d] = "free" => ~Http!Complete(buf'[d])
    BY <1>1, <1>2 DEF HttpInv, Unheard
  <2>2. \A d \in Conn : state'[d] = "reading" /\ own'[d] = None =>
           ~Http!Complete(buf'[d]) \/ \E u \in Threads : hat'[u] = d /\ hpc'[u] = "free"
    BY <1>0, <1>1, <1>2 DEF HttpInv, Unheard
  <2>3. \A u \in Threads : hpc'[u] \in Announcing /\ state'[hat'[u]] = "reading" =>
           ~Http!Complete(buf'[hat'[u]])
    BY <1>1, <1>2, <1>3, <1>4 DEF HttpInv, Unheard, Announcing
  <2> QED BY <2>1, <2>2, <2>3 DEF Unheard, Announcing
<1>6. Http!HeapExact'
  BY AcceptKeepsHeap DEF HttpInv
<1> QED BY <1>5, <1>6

LEMMA UnlockIsSound ==
    ASSUME HttpInv, NEW t \in Threads, Http!Unlock(t)
    PROVE  Unheard' /\ Http!HeapExact'
<1>0. /\ hpc[t] \in {"unlock", "drop"} /\ own' = [own EXCEPT ![hat[t]] = None]
      /\ UNCHANGED <<state, buf, cap, heap>>
      /\ hpc \in [Threads -> HttpPlace] /\ hat \in [Threads -> Conn \cup {None}]
      /\ own \in [Conn -> Threads \cup {None}]
  BY HttpConstants DEF Http!Unlock, HttpInv, PlacesInv, HttpTypes, Http!TypeOK
<1>1. PICK c \in Conn : hat[t] = c
  BY <1>0, HandTypes DEF HttpInv, Owning
<1>2. \A u \in Threads : u # t => hpc'[u] = hpc[u] /\ hat'[u] = hat[u]
  BY <1>0 DEF Http!Unlock, Http!Goto
<1>3. hpc'[t] \in {"free", "wait", "top"} /\ (hpc[t] = "drop" => hpc'[t] = "free" /\ hat'[t] = c)
  BY <1>0, <1>1 DEF Http!Unlock, Http!Goto
<1>4. \A d \in Conn : own'[d] = IF d = c THEN None ELSE own[d]
  BY <1>0, <1>1
<1>5. Unheard'
  <2>1. \A d \in Conn : state'[d] = "free" => ~Http!Complete(buf'[d])
    BY <1>0 DEF HttpInv, Unheard
  <2>2. ASSUME NEW d \in Conn, state[d] = "reading", own'[d] = None, Http!Complete(buf[d])
        PROVE  \E u \in Threads : hat'[u] = d /\ hpc'[u] = "free"
    <3>1. CASE d = c /\ hpc[t] = "unlock"
      BY <1>1, <2>2, <3>1 DEF HttpInv, Unheard
    <3>2. CASE d = c /\ hpc[t] = "drop"
      BY <1>3, <3>2
    <3>3. CASE d # c
      <4>1. PICK u \in Threads : hat[u] = d /\ hpc[u] = "free"
        BY <1>4, <2>2, <3>3 DEF HttpInv, Unheard
      <4> QED BY <1>0, <1>2, <4>1
    <3> QED BY <1>0, <3>1, <3>2, <3>3
  <2>3. \A u \in Threads : hpc'[u] \in Announcing /\ state'[hat'[u]] = "reading" =>
           ~Http!Complete(buf'[hat'[u]])
    BY <1>0, <1>2, <1>3 DEF HttpInv, Unheard, Announcing
  <2> QED BY <1>0, <2>1, <2>2, <2>3 DEF Unheard, Announcing
<1>6. /\ \A r \in Reactor : hpc'[r] = "uncharge" <=> hpc[r] = "uncharge"
      /\ \A r \in Reactor : hpc[r] = "uncharge" => hat'[r] = hat[r]
  <2>1. \A r \in Reactor : r \in Threads
    BY DEF Threads
  <2> QED BY <1>0, <1>2, <1>3, <2>1
<1>7. \A d \in Conn : Alive(d)' <=> Alive(d)
  BY <1>0 DEF Alive
<1>8. Http!HeapExact'
  BY <1>0, <1>6, <1>7, HeapUntouched DEF HttpInv
<1> QED BY <1>5, <1>8

LEMMA FreeIsSound ==
    ASSUME HttpInv, PlacesInv', NEW t \in Threads, Http!Free(t)
    PROVE  Unheard' /\ Http!HeapExact'
<1>0. hpc[t] = "free" /\ own' = own /\ HttpTypes
      /\ hpc \in [Threads -> HttpPlace] /\ hat \in [Threads -> Conn \cup {None}]
  BY HttpConstants DEF Http!Free, HttpInv, PlacesInv, HttpTypes, Http!TypeOK
<1>1. PICK c \in Conn : hat[t] = c /\ \A u \in Threads : u # t => hat[u] # c
  BY <1>0, OneReader DEF HttpInv
<1>2. /\ \A u \in Threads : u # t => hpc'[u] = hpc[u] /\ hat'[u] = hat[u]
      /\ hpc'[t] \in {"wait", "top"}
  BY <1>0 DEF Http!Free, Http!Goto
<1>3. /\ \A d \in Conn : state'[d] = IF d = c THEN "free" ELSE state[d]
      /\ \A d \in Conn : buf'[d] = IF d = c THEN << >> ELSE buf[d]
  <2>1. {c} \in SUBSET Conn /\ Http!Freed({c})
    BY <1>1 DEF Http!Free
  <2>2. /\ \A d \in Conn : state'[d] = IF d \in {c} THEN "free" ELSE state[d]
        /\ \A d \in Conn : buf'[d] = IF d \in {c} THEN << >> ELSE buf[d]
    BY <1>0, <2>1, FreedTypes
  <2> QED BY <2>2
<1>4. ~Http!Complete(<< >>)
  BY DEF Http!Complete
<1>5. Unheard'
  <2>1. \A d \in Conn : state'[d] = "free" => ~Http!Complete(buf'[d])
    BY <1>3, <1>4 DEF HttpInv, Unheard
  <2>2. ASSUME NEW d \in Conn, state'[d] = "reading", own'[d] = None, Http!Complete(buf'[d])
        PROVE  \E u \in Threads : hat'[u] = d /\ hpc'[u] = "free"
    <3>1. d # c /\ state[d] = "reading" /\ own[d] = None /\ Http!Complete(buf[d])
      BY <1>0, <1>3, <2>2
    <3>2. PICK u \in Threads : hat[u] = d /\ hpc[u] = "free"
      BY <3>1 DEF HttpInv, Unheard
    <3> QED BY <1>1, <1>2, <3>1, <3>2
  <2>3. ASSUME NEW u \in Threads, hpc'[u] \in Announcing, state'[hat'[u]] = "reading"
        PROVE  ~Http!Complete(buf'[hat'[u]])
    <3>1. u # t /\ hpc[u] \in Announcing /\ hat'[u] = hat[u] /\ hat[u] # c
      BY <1>1, <1>2, <2>3 DEF Announcing
    <3>2. hat[u] \in Conn
      BY <3>1, HandTypes DEF HttpInv, Owning, Announcing
    <3> QED BY <1>3, <2>3, <3>1, <3>2 DEF HttpInv, Unheard, Announcing
  <2> QED BY <2>1, <2>2, <2>3 DEF Unheard, Announcing
<1> QED BY <1>5, FreeKeepsHeap DEF HttpInv

LEMMA JoinIsSound ==
    ASSUME HttpInv, PlacesInv', Http!Join
    PROVE  Unheard' /\ Http!HeapExact'
<1>0. HttpTypes /\ Http!Live \in SUBSET Conn /\ Http!Freed(Http!Live)
  BY DEF Http!Live, Http!Join, HttpInv, PlacesInv
<1>1. /\ \A c \in Conn : state'[c] = IF c \in Http!Live THEN "free" ELSE state[c]
      /\ \A c \in Conn : buf'[c] = IF c \in Http!Live THEN << >> ELSE buf[c]
  BY <1>0, FreedTypes
<1>2. \A c \in Conn : state'[c] = "free" /\ ~Http!Complete(buf'[c])
  <2>1. ~Http!Complete(<< >>)
    BY DEF Http!Complete
  <2> QED BY <1>1, <2>1 DEF HttpInv, Unheard, Http!Live
<1>3. \A t \in Threads : hpc'[t] = "done"
  BY HttpConstants DEF Http!Join
<1>4. Unheard'
  BY <1>2, <1>3 DEF Unheard
<1> QED BY <1>4, JoinKeepsHeap DEF HttpInv
LEMMA ReactorIsSound ==
    ASSUME HttpInv, PlacesInv', NEW r \in Reactor,
           Http!ReactorStep(r) \/ \E c \in Conn : Http!EpollTake(r, c) \/ Http!AcceptLink(r, c)
    PROVE  Unheard' /\ Http!HeapExact'
<1>0. r \in Threads /\ hpc \in [Threads -> HttpPlace] /\ hat \in [Threads -> Conn \cup {None}]
      /\ own \in [Conn -> Threads \cup {None}] /\ None \notin Threads
      /\ state \in [Conn -> {"free", "reading", "dispatched"}]
  BY HttpConstants DEF Threads, HttpInv, PlacesInv, HttpTypes, Http!TypeOK
<1>1. CASE Http!EpollTimeout(r) \/ Http!ReactorStops(r) \/ Http!SweepNow(r) \/ Http!SweepLock(r)
           \/ Http!SweepEnd(r) \/ Http!Idle(r)
  <2>1. UNCHANGED <<hat, own, state, buf, cap, heap>>
    BY <1>1 DEF Http!EpollTimeout, Http!ReactorStops, Http!SweepNow, Http!SweepLock, Http!SweepEnd,
                Http!Idle, Http!conns
  <2>2. PICK q \in {"woken", "done", "sweep_lock", "sweep", "swept", "wait"} :
          /\ hpc' = [hpc EXCEPT ![r] = q]
          /\ hpc[r] \in {"wait", "woken", "swept", "sweep_lock", "sweep"}
    BY <1>1 DEF Http!EpollTimeout, Http!ReactorStops, Http!SweepNow, Http!SweepLock, Http!SweepEnd,
                Http!Idle, Http!Goto
  <2>3. q \in HttpPlace \ {"uncharge"} /\ q \notin Announcing /\ hpc[r] \notin {"free", "uncharge"}
    BY <2>2 DEF HttpPlace, Bare, Before, Announcing
  <2> QED BY <1>0, <2>1, <2>2, <2>3, QuietStep
<1>2. ASSUME NEW c \in Conn, Http!SweepOne(r, c) PROVE Unheard' /\ Http!HeapExact'
  BY <1>2, StillStep DEF Http!SweepOne
<1>3. ASSUME NEW c \in Conn, Http!EpollTake(r, c) PROVE Unheard' /\ Http!HeapExact'
  <2>1. /\ hpc[r] = "wait" /\ hpc' = [hpc EXCEPT ![r] = "woken"] /\ hat' = [hat EXCEPT ![r] = c]
        /\ UNCHANGED <<own, state, buf, cap, heap>>
    BY <1>3 DEF Http!EpollTake, Http!Goto
  <2>2. "woken" \in HttpPlace \ {"uncharge"} /\ "woken" \notin Announcing
    BY DEF HttpPlace, Before, Announcing
  <2>3. \A u \in Threads : u # r => hat'[u] = hat[u]
    BY <1>0, <2>1
  <2> QED BY <1>0, <2>1, <2>2, <2>3, QuietStep
<1>4. ASSUME NEW c \in Conn, Http!AcceptLink(r, c) PROVE Unheard' /\ Http!HeapExact'
  BY <1>4, AcceptIsSound
<1>5. CASE Http!ReactorLock(r)
  <2>1. /\ hpc[r] \in {"woken", "swept"} /\ hpc' = [hpc EXCEPT ![r] = "read"]
        /\ own' = [own EXCEPT ![hat[r]] = r] /\ UNCHANGED <<hat, state, buf, cap, heap>>
    BY <1>5 DEF Http!ReactorLock, Http!Lock, Http!Goto
  <2>2. "read" \in HttpPlace \ {"uncharge"} /\ "read" \notin Announcing
    BY DEF HttpPlace, Owning, Announcing
  <2>3. \A c \in Conn : own'[c] = None => own[c] = None
    BY <1>0, <2>1
  <2> QED BY <1>0, <2>1, <2>2, <2>3, QuietStep
<1>6. CASE Http!Grow(r) \/ Http!Uncharge(r)
  <2>1. UNCHANGED <<state, buf, own, hat>>
        /\ (hpc' = hpc \/ \E q \in {"uncharge", "drop"} : hpc' = [hpc EXCEPT ![r] = q])
        /\ hpc[r] \in {"read", "uncharge"}
    BY <1>6 DEF Http!Grow, Http!Uncharge, Http!Goto, Http!conns
  <2>2. /\ \A u \in Threads : hpc[u] = "free" => hpc'[u] = "free"
        /\ \A u \in Threads : hpc'[u] \in Announcing => hpc[u] \in Announcing
    BY <1>0, <2>1 DEF Announcing
  <2>3. Unheard'
    BY <2>1, <2>2 DEF HttpInv, Unheard, Announcing
  <2> QED BY <1>6, <2>3, GrowKeepsHeap, UnchargeKeepsHeap DEF HttpInv
<1>7. CASE Http!GiveUp(r) /\ hpc[r] \in {"accepted", "read"}
  <2>1. hpc' = [hpc EXCEPT ![r] = "drop"] /\ UNCHANGED <<own, hat, state, buf, cap, heap>>
    BY <1>7 DEF Http!GiveUp, Http!Goto, Http!conns
  <2>2. "drop" \in HttpPlace \ {"uncharge"} /\ "drop" \notin Announcing
    BY DEF HttpPlace, Owning, Announcing
  <2> QED BY <1>0, <1>7, <2>1, <2>2, QuietStep
<1>8. CASE (Http!AcceptArm(r) \/ Http!ReadMore(r)) /\ Http!Arm(r, "unlock")
  <2>1. hpc' = [hpc EXCEPT ![r] = "unlock"] /\ UNCHANGED <<own, hat, state, buf, cap, heap>>
    BY <1>8 DEF Http!Arm, Http!Goto
  <2>2. hpc[r] = "accepted" \/ (hpc[r] = "read" /\ ~Http!Complete(buf[hat[r]]))
    BY <1>8 DEF Http!AcceptArm, Http!ReadMore, Http!Drained
  <2>3. "unlock" \in HttpPlace \ {"uncharge"} /\ "accepted" \in Announcing
    BY DEF HttpPlace, Owning, Announcing
  <2> QED BY <1>0, <2>1, <2>2, <2>3, QuietStep
<1>9. CASE Http!Dispatch(r)
  <2>1. /\ hpc[r] = "read" /\ hpc' = [hpc EXCEPT ![r] = "unlock"] /\ UNCHANGED <<hat, own, cap, heap, buf>>
        /\ state' = [state EXCEPT ![hat[r]] = "dispatched"]
    BY <1>9 DEF Http!Dispatch, Http!Drained, Http!Goto
  <2>2. hat[r] \in Conn
    BY <1>0, <2>1, OneReader DEF HttpInv
  <2>3. "unlock" \in HttpPlace \ {"uncharge"}
    BY DEF HttpPlace, Owning
  <2>4. state'[hat[r]] = "dispatched" /\ \A c \in Conn : c # hat[r] => state'[c] = state[c]
    BY <1>0, <2>1, <2>2
  <2> QED BY <1>0, <2>1, <2>3, <2>4, OwnerStep
<1>10. CASE Http!Read(r)
  <2>1. /\ hpc[r] = "read" /\ hpc' = hpc /\ UNCHANGED <<hat, own, cap, heap, state>>
        /\ \E b : buf' = [buf EXCEPT ![hat[r]] = b]
    BY <1>10 DEF Http!Read
  <2>2. "read" \in HttpPlace \ {"uncharge"} /\ "read" \notin Announcing
    BY DEF HttpPlace, Owning, Announcing
  <2>3. hpc' = [hpc EXCEPT ![r] = "read"]
    BY <1>0, <2>1
  <2>4. \A c \in Conn : c # hat[r] => buf'[c] = buf[c]
    BY <2>1
  <2> QED BY <1>0, <2>1, <2>2, <2>3, <2>4, OwnerStep
<1>11. CASE Http!Free(r)
  BY <1>0, <1>11, FreeIsSound
<1>12. CASE Http!Unlock(r)
  BY <1>0, <1>12, UnlockIsSound
<1>13. Http!AcceptFails(r) \/ Http!TooLarge(r) \/ Http!ReadEof(r) \/ Http!ReadBad(r) =>
          Http!GiveUp(r) /\ hpc[r] \in {"accepted", "read"}
  BY DEF Http!AcceptFails, Http!TooLarge, Http!ReadEof, Http!ReadBad, Http!Drained
<1>14. Http!AcceptArm(r) => Http!Arm(r, "unlock")
  BY DEF Http!AcceptArm
<1>15. Http!ReadMore(r) => Http!Arm(r, "unlock") \/ (Http!GiveUp(r) /\ hpc[r] \in {"accepted", "read"})
  BY DEF Http!ReadMore, Http!Drained
<1> QED
  BY <1>1, <1>2, <1>3, <1>4, <1>5, <1>6, <1>7, <1>8, <1>9, <1>10, <1>11, <1>12, <1>13, <1>14, <1>15
  DEF Http!ReactorStep

LEMMA WorkerIsSound ==
    ASSUME HttpInv, PlacesInv', NEW w \in HttpWorker, Http!WorkerStep(w)
    PROVE  Unheard' /\ Http!HeapExact'
<1>0. w \in Threads /\ hpc \in [Threads -> HttpPlace] /\ hat \in [Threads -> Conn \cup {None}]
      /\ own \in [Conn -> Threads \cup {None}] /\ None \notin Threads
      /\ state \in [Conn -> {"free", "reading", "dispatched"}]
  BY HttpConstants DEF Threads, HttpInv, PlacesInv, HttpTypes, Http!TypeOK
<1>1. CASE Http!WorkerTop(w) \/ Http!PopNothing(w) \/ Http!Pop(w)
  <2>1. UNCHANGED <<own, state, buf, cap, heap>> /\ (hat' = hat \/ \E c : hat' = [hat EXCEPT ![w] = c])
    BY <1>1 DEF Http!WorkerTop, Http!PopNothing, Http!Pop, Http!conns
  <2>2. PICK q \in {"pop", "done", "popped"} : hpc' = [hpc EXCEPT ![w] = q] /\ hpc[w] \in {"top", "pop"}
    BY <1>1 DEF Http!WorkerTop, Http!PopNothing, Http!Pop, Http!Goto
  <2>3. q \in HttpPlace \ {"uncharge"} /\ q \notin Announcing
    BY DEF HttpPlace, Bare, Before, Announcing
  <2>4. \A u \in Threads : u # w => hat'[u] = hat[u]
    BY <1>0, <2>1
  <2> QED BY <1>0, <2>1, <2>2, <2>3, <2>4, QuietStep
<1>2. CASE Http!WorkerLock(w)
  <2>1. /\ hpc[w] = "popped" /\ hpc' = [hpc EXCEPT ![w] = "handle"]
        /\ own' = [own EXCEPT ![hat[w]] = w] /\ UNCHANGED <<hat, state, buf, cap, heap>>
    BY <1>2 DEF Http!WorkerLock, Http!Lock, Http!Goto
  <2>2. "handle" \in HttpPlace \ {"uncharge"} /\ "handle" \notin Announcing
    BY DEF HttpPlace, Owning, Announcing
  <2>3. \A c \in Conn : own'[c] = None => own[c] = None
    BY <1>0, <2>1
  <2> QED BY <1>0, <2>1, <2>2, <2>3, QuietStep
<1>3. CASE Http!HandleCloses(w)
  <2>1. /\ hpc[w] = "handle" /\ hpc' = [hpc EXCEPT ![w] = "drop"]
        /\ UNCHANGED <<hat, own, cap, heap, state>> /\ \E b : buf' = [buf EXCEPT ![hat[w]] = b]
    BY <1>3 DEF Http!HandleCloses, Http!Handle, Http!Goto
  <2>2. "drop" \in HttpPlace \ {"uncharge"} /\ "drop" \notin Announcing
    BY DEF HttpPlace, Owning, Announcing
  <2>3. \A c \in Conn : c # hat[w] => buf'[c] = buf[c]
    BY <2>1
  <2> QED BY <1>0, <2>1, <2>2, <2>3, OwnerStep
<1>4. CASE Http!HandleKeeps(w)
  <2>1. /\ hpc[w] = "handle" /\ UNCHANGED <<hat, own, cap, heap>>
        /\ state' = [state EXCEPT ![hat[w]] = "reading"] /\ \E b : buf' = [buf EXCEPT ![hat[w]] = b]
    BY <1>4 DEF Http!HandleKeeps, Http!Handle
  <2>2. PICK q \in {"handle", "rearm", "drop"} :
          hpc' = [hpc EXCEPT ![w] = q] /\ (q = "rearm" => ~Http!Complete(buf'[hat[w]]))
    BY <1>4 DEF Http!HandleKeeps, Http!AfterKeep, Http!Goto
  <2>3. q \in HttpPlace \ {"uncharge"} /\ (q \in Announcing => q = "rearm")
    BY DEF HttpPlace, Owning, Announcing
  <2>4. hat[w] \in Conn
    BY <1>0, <2>1, OneReader DEF HttpInv
  <2>5. /\ \A c \in Conn : c # hat[w] => state'[c] = state[c] /\ buf'[c] = buf[c]
        /\ state'[hat[w]] = "reading"
    BY <1>0, <2>1, <2>4
  <2> QED BY <1>0, <2>1, <2>2, <2>3, <2>5, OwnerStep
<1>5. CASE Http!Rearm(w)
  <2>1. PICK q \in {"unlock", "drop"} :
          /\ hpc[w] = "rearm" /\ hpc' = [hpc EXCEPT ![w] = q]
          /\ UNCHANGED <<own, hat, state, buf, cap, heap>>
    BY <1>5 DEF Http!Rearm, Http!Arm, Http!GiveUp, Http!Goto, Http!conns
  <2>2. q \in HttpPlace \ {"uncharge"} /\ "rearm" \in Announcing
    BY DEF HttpPlace, Owning, Announcing
  <2> QED BY <1>0, <2>1, <2>2, QuietStep
<1>6. CASE Http!Free(w)
  BY <1>0, <1>6, FreeIsSound
<1>7. CASE Http!Unlock(w)
  BY <1>0, <1>7, UnlockIsSound
<1> QED BY <1>1, <1>2, <1>3, <1>4, <1>5, <1>6, <1>7 DEF Http!WorkerStep

LEMMA HttpInvNext == HttpInv /\ [Http!Next]_(Http!vars) => HttpInv'
<1> SUFFICES ASSUME HttpInv, [Http!Next]_(Http!vars) PROVE HttpInv'
  OBVIOUS
<1>0. PlacesInv
  BY DEF HttpInv
<1>1. ASSUME NEW c \in Conn, (\E f \in Fragment : Http!Send(c, f)) \/ Http!PeerCloses(c) \/ Http!LimitPasses(c)
      PROVE  HttpInv'
  <2>1. UNCHANGED <<state, buf, cap, heap, own, hpc, hat>>
    BY <1>1 DEF Http!Send, Http!PeerCloses, Http!LimitPasses
  <2> QED BY <1>0, <1>1, <2>1, PeerKeepsPlaces, StillStep DEF HttpInv
<1>2. CASE Http!Stop \/ UNCHANGED Http!vars
  <2>1. UNCHANGED <<state, buf, cap, heap, own, hpc, hat, armed, queue, joined, eof, idle, all_lock, old, todo>>
        /\ (serving' = FALSE \/ serving' = serving)
    BY <1>2 DEF Http!Stop, Http!vars, Http!conns
  <2>2. HttpTypes'
    BY <1>0, <2>1 DEF PlacesInv, HttpTypes, Http!TypeOK
  <2> QED BY <1>0, <2>1, <2>2, StandingKeepsPlaces, StillStep DEF HttpInv
<1>3. ASSUME NEW r \in Reactor,
             Http!ReactorStep(r) \/ \E c \in Conn : Http!EpollTake(r, c) \/ Http!AcceptLink(r, c)
      PROVE  HttpInv'
  BY <1>0, <1>3, ReactorKeepsPlaces, ReactorIsSound DEF HttpInv
<1>4. ASSUME NEW w \in HttpWorker, Http!WorkerStep(w) PROVE HttpInv'
  BY <1>0, <1>4, WorkerKeepsPlaces, WorkerIsSound DEF HttpInv
<1>5. CASE Http!Join
  BY <1>0, <1>5, JoinKeepsPlaces, JoinIsSound DEF HttpInv
<1> QED BY <1>1, <1>2, <1>3, <1>4, <1>5 DEF Http!Next

LEMMA HttpCardinality == \A S : Http!Cardinality(S) = Cardinality(S)
BY DEF Http!Cardinality, Cardinality

\* The places of a connection, counted
LEMMA PlacesCounted == PlacesInv => Http!OnePlace
<1> SUFFICES ASSUME PlacesInv, NEW c \in Conn
             PROVE  (IF c \in armed THEN 1 ELSE 0) + Cardinality({t \in Threads : Http!Has(t, c)})
                      + Cardinality({i \in DOMAIN queue : queue[i] = c})
                    = IF c \in Http!Live THEN 1 ELSE 0
  BY HttpCardinality, HttpConstants DEF Http!OnePlace
<1> DEFINE T == {t \in Threads : Http!Has(t, c)}
           Q == {i \in DOMAIN queue : queue[i] = c}
<1>0. InHand /\ Shelved /\ NoneLost /\ (c \in Http!Live <=> Alive(c)) /\ c # None
  BY HttpConstants DEF PlacesInv, Http!Live, Alive
<1>1. \A t \in T : hat[t] = c /\ hpc[t] # "unlock"
  BY DEF Http!Has
<1>2. T = {} \/ \E t \in T : T = {t}
  <2>1. \A t, u \in T : t = u
    BY <1>0, <1>1 DEF InHand
  <2> QED BY <2>1
<1>3. Q = {} \/ \E i \in Q : Q = {i}
  <2>1. \A i, j \in Q : i = j
    BY <1>0 DEF Shelved
  <2> QED BY <2>1
<1>4. c \in armed => T = {} /\ Q = {} /\ Alive(c)
  BY <1>0, <1>1 DEF Shelved
<1>5. Q # {} => T = {} /\ Alive(c)
  BY <1>0, <1>1 DEF Shelved
<1>6. T # {} => Alive(c)
  BY <1>0, <1>1 DEF InHand
<1>7. Alive(c) => c \in armed \/ Q # {} \/ T # {}
  BY <1>0 DEF NoneLost, Http!Has
<1>8. Cardinality({}) = 0 /\ \A x : Cardinality({x}) = 1
  BY FS_EmptySet, FS_Singleton
<1> HIDE DEF T, Q
<1>9. Cardinality(T) = (IF T = {} THEN 0 ELSE 1) /\ Cardinality(Q) = (IF Q = {} THEN 0 ELSE 1)
  BY <1>2, <1>3, <1>8
<1>10. (IF c \in armed THEN 1 ELSE 0) + Cardinality(T) + Cardinality(Q)
       = IF c \in Http!Live THEN 1 ELSE 0
  BY <1>0, <1>4, <1>5, <1>6, <1>7, <1>9
<1> QED BY <1>10 DEF T, Q

\* A live connection is in exactly one place - armed, in a thread's hands or once
\* in the queue - and a freed one in none, and heap_buffered is what the buffers
\* hold plus what is about to be returned (ohttp.c 619-763), with any number of
\* reactors, workers and connections.
THEOREM ConnectionsAreSound == Http!Spec => []ConnectionsSound
<1>1. HttpInv => ConnectionsSound
  BY PlacesCounted DEF HttpInv, ConnectionsSound, PlacesInv, HttpTypes
<1> QED BY <1>1, HttpInitial, HttpInvNext, PTL DEF Http!Spec

\* The sweep's shutdown hits no connection whose request is complete, unless it
\* is given up (sweep_stalled, ohttp.c 722-763): a complete request of a
\* connection without an owner would be one of a connection in the reading state.
THEOREM SweepSparesAll == Http!Spec => SweepSparesRequests
<1> DEFINE Spared == \A r \in Reactor, c \in Conn :
             Http!Swept(r, c) =>
               ~Http!Complete(buf[c]) \/ \E t \in Http!HttpThread : hat[t] = c /\ hpc[t] = "free"
<1>1. HttpInv /\ [Http!Next]_(Http!vars) => [Spared]_(Http!vars)
  <2> SUFFICES ASSUME HttpInv, Http!Next, NEW r \in Reactor, NEW c \in Conn, Http!Swept(r, c)
               PROVE  ~Http!Complete(buf[c]) \/ \E t \in Http!HttpThread : hat[t] = c /\ hpc[t] = "free"
    OBVIOUS
  <2>0. todo' # todo /\ eof' # eof
    BY DEF Http!Swept
  <2>1. PICK q \in Reactor, d \in Conn : Http!SweepOne(q, d)
    <3>1. \A x \in Reactor : Http!ReactorStep(x) => \E d \in Conn : Http!SweepOne(x, d)
      BY <2>0 DEF Http!ReactorStep, Http!EpollTimeout, Http!ReactorStops, Http!SweepNow,
         Http!SweepLock, Http!SweepEnd, Http!AcceptArm, Http!AcceptFails, Http!Idle,
         Http!ReactorLock, Http!Grow, Http!Uncharge, Http!TooLarge, Http!Read, Http!ReadEof,
         Http!ReadBad, Http!ReadMore, Http!Dispatch, Http!Unlock, Http!Free, Http!Lock,
         Http!Arm, Http!GiveUp, Http!conns
    <3>2. \A w \in HttpWorker : ~Http!WorkerStep(w)
      BY <2>0 DEF Http!WorkerStep, Http!WorkerTop, Http!Pop, Http!PopNothing, Http!WorkerLock,
         Http!HandleCloses, Http!HandleKeeps, Http!Rearm, Http!Unlock, Http!Free, Http!Lock,
         Http!Arm, Http!GiveUp
    <3>3. \A d \in Conn : /\ \A f \in Fragment : ~Http!Send(d, f)
                          /\ ~Http!PeerCloses(d) /\ ~Http!LimitPasses(d)
                          /\ \A x \in Reactor : ~Http!EpollTake(x, d) /\ ~Http!AcceptLink(x, d)
      BY <2>0 DEF Http!Send, Http!PeerCloses, Http!LimitPasses, Http!EpollTake, Http!AcceptLink
    <3>4. ~Http!Stop /\ ~Http!Join
      BY <2>0 DEF Http!Stop, Http!Join
    <3> QED BY <3>1, <3>2, <3>3, <3>4 DEF Http!Next
  <2>2. q = r /\ c = d /\ own[c] = None /\ state[c] = "reading"
    BY <2>1 DEF Http!SweepOne, Http!Swept, HttpInv, PlacesInv, HttpTypes, Http!TypeOK
  <2> QED BY <2>2, HttpConstants DEF HttpInv, Unheard
<1> QED BY <1>1, HttpInitial, HttpInvNext, PTL DEF Http!Spec, SweepSparesRequests, Http!SweepSparesRequests-----------------------------------------------------------------------------
(* Rented capacity.  While an instance of a lane is past its lifetime the     *)
(* lane rents nothing and gives one instance back in every pass: each further *)
(* pass that an old instance sees is paid for by an instance the lane has     *)
(* lost, and the bound is that account.                                       *)

\* The longest time between two starts of a pass
Lapse == Poll + NLanes * WarmTime
Slack(l) == (NInstances - Cardinality(Scale!Rented(l))) * Lapse
\* The lane has been looked at in the current pass
Seen(l) == l < cur.lane \/ (l = cur.lane /\ ctl = "warm")
\* The time since the lane was last looked at, at most
Spent(l) == IF ctl = "wait" THEN NLanes * WarmTime + since
            ELSE IF Seen(l) THEN since ELSE Lapse + since
LaneInv(l) == \A i \in Scale!Rented(l) : insts[l][i].age <= InstanceTtl + Slack(l) + Spent(l)

Instance == [is : {"none", "warming", "ready"}, age : Nat, idle : Nat]
ScaleTypes ==
    /\ insts \in [Scale!SLane -> [Scale!SSlot -> Instance]]
    /\ cur \in [lane : Scale!SLane, slot : Scale!SSlot]
    /\ since \in Nat /\ ctl \in {"wait", "lane", "warm", "ended"}
    /\ \A l \in Scale!SLane, i \in Scale!SSlot : insts[l][i].is = "none" => insts[l][i].age = 0
PassInv ==
    /\ ctl = "wait" => since <= Poll /\ cur.lane = 1
    /\ ctl = "lane" => since <= (cur.lane - 1) * WarmTime
    /\ ctl = "warm" => since <= cur.lane * WarmTime /\ cur.slot \in Scale!Rented(cur.lane)
    /\ ctl = "ended" => \A l \in Scale!SLane : Scale!Rented(l) = {}
RentInv == ScaleTypes /\ PassInv /\ \A l \in Scale!SLane : LaneInv(l)

LEMMA Products ==
    ASSUME NEW a \in Nat, NEW b \in Nat, NEW c \in Nat, a <= b
    PROVE  a * c \in Nat /\ a * c <= b * c /\ (a + 1) * c = a * c + c
OBVIOUS

LEMMA ScaleConstants ==
    /\ NLanes \in Nat \ {0} /\ NInstances \in Nat \ {0} /\ InstanceTtl \in Nat
    /\ Poll \in Nat /\ WarmTime \in Nat /\ NLanes * WarmTime \in Nat /\ Lapse \in Nat
    /\ Scale!SLane = 1..NLanes /\ Scale!SSlot = 1..NInstances
    /\ IsFiniteSet(Scale!SSlot) /\ Cardinality(Scale!SSlot) = NInstances
<1>1. NLanes \in Nat \ {0} /\ NInstances \in Nat \ {0} /\ InstanceTtl \in Nat
      /\ Poll \in Nat /\ WarmTime \in Nat
  BY GatewayAssumption DEF Scale!ScaleAssumption
<1>2. NLanes * WarmTime \in Nat /\ Lapse \in Nat
  BY <1>1, Products DEF Lapse
<1>3. IsFiniteSet(1..NInstances) /\ Cardinality(1..NInstances) = NInstances
  BY <1>1, FS_Interval
<1> QED BY <1>1, <1>2, <1>3 DEF Scale!SLane, Scale!SSlot

LEMMA ScaleCardinality == \A S : Scale!Cardinality(S) = Cardinality(S)
BY DEF Scale!Cardinality, Cardinality

LEMMA RentedCounts ==
    ASSUME NEW l \in Scale!SLane
    PROVE  /\ IsFiniteSet(Scale!Rented(l)) /\ Cardinality(Scale!Rented(l)) \in 0..NInstances
           /\ Slack(l) \in Nat
<1>1. Scale!Rented(l) \subseteq Scale!SSlot
  BY DEF Scale!Rented
<1>2. IsFiniteSet(Scale!Rented(l)) /\ Cardinality(Scale!Rented(l)) \in Nat
      /\ Cardinality(Scale!Rented(l)) <= NInstances
  BY <1>1, ScaleConstants, FS_Subset, FS_CardinalityType
<1>3. NInstances - Cardinality(Scale!Rented(l)) \in Nat
  BY <1>2, ScaleConstants
<1>4. Slack(l) \in Nat
  BY <1>3, ScaleConstants, Products DEF Slack
<1> QED BY <1>2, <1>4, ScaleConstants

LEMMA RentedCountsNext ==
    ASSUME NEW l \in Scale!SLane
    PROVE  /\ IsFiniteSet(Scale!Rented(l)') /\ Cardinality(Scale!Rented(l)') \in 0..NInstances
           /\ Slack(l)' \in Nat
<1>1. Scale!Rented(l)' \subseteq Scale!SSlot
  BY DEF Scale!Rented
<1>2. IsFiniteSet(Scale!Rented(l)') /\ Cardinality(Scale!Rented(l)') \in Nat
      /\ Cardinality(Scale!Rented(l)') <= NInstances
  BY <1>1, ScaleConstants, FS_Subset, FS_CardinalityType
<1>3. NInstances - Cardinality(Scale!Rented(l)') \in Nat
  BY <1>2, ScaleConstants
<1>4. Slack(l)' \in Nat
  BY <1>3, ScaleConstants, Products DEF Slack
<1> QED BY <1>2, <1>4, ScaleConstants

LEMMA SpentTypes ==
    ASSUME ScaleTypes, NEW l \in Scale!SLane
    PROVE  Spent(l) \in Nat
<1>1. Spent(l) \in {NLanes * WarmTime + since, since, Lapse + since}
  BY DEF Spent
<1>2. since \in Nat
  BY DEF ScaleTypes
<1> QED BY <1>1, <1>2, ScaleConstants

LEMMA SpentTypesNext ==
    ASSUME ScaleTypes', NEW l \in Scale!SLane
    PROVE  Spent(l)' \in Nat
<1>1. Spent(l)' \in {NLanes * WarmTime + since', since', Lapse + since'}
  BY DEF Spent, Lapse
<1>2. since' \in Nat
  BY DEF ScaleTypes
<1> QED BY <1>1, <1>2, ScaleConstants

\* A lane that rents nothing new and is looked at no later than it may be
LEMMA LaneKept ==
    ASSUME RentInv, ScaleTypes', NEW l \in Scale!SLane, Scale!Rented(l)' \subseteq Scale!Rented(l),
           \A i \in Scale!Rented(l)' : insts'[l][i].age = insts[l][i].age,
           Spent(l)' >= Spent(l)
    PROVE  LaneInv(l)'
<1>1. Cardinality(Scale!Rented(l)') <= Cardinality(Scale!Rented(l))
  BY RentedCounts, FS_Subset
<1>2. Slack(l)' >= Slack(l)
  <2> DEFINE a == NInstances - Cardinality(Scale!Rented(l))
             b == NInstances - Cardinality(Scale!Rented(l)')
  <2>1. a \in Nat /\ b \in Nat /\ a <= b
    BY <1>1, RentedCounts, RentedCountsNext, ScaleConstants
  <2> HIDE DEF a, b
  <2>2. a * Lapse <= b * Lapse
    BY <2>1, ScaleConstants, Products
  <2>3. Slack(l) = a * Lapse /\ Slack(l)' = b * Lapse
    BY DEF Slack, a, b
  <2> QED BY <2>2, <2>3
<1> SUFFICES ASSUME NEW i \in Scale!Rented(l)'
             PROVE  insts'[l][i].age <= InstanceTtl + Slack(l)' + Spent(l)'
  BY ScaleConstants DEF LaneInv
<1>3. i \in Scale!Rented(l) /\ insts'[l][i].age = insts[l][i].age
  OBVIOUS
<1>4. insts[l][i].age <= InstanceTtl + Slack(l) + Spent(l)
  BY <1>3 DEF RentInv, LaneInv
<1>5. insts[l][i].age \in Nat
  BY <1>3 DEF RentInv, ScaleTypes, Instance, Scale!Rented
<1>6. Slack(l) \in Nat /\ Slack(l)' \in Nat /\ Spent(l) \in Nat /\ Spent(l)' \in Nat /\ InstanceTtl \in Nat
  BY ScaleConstants, RentedCounts, RentedCountsNext, SpentTypes, SpentTypesNext DEF RentInv
<1> QED BY <1>2, <1>3, <1>4, <1>5, <1>6

\* A lane in which no instance was past its lifetime when it was looked at
LEMMA LaneYoung ==
    ASSUME ScaleTypes', NEW l \in Scale!SLane, NEW s \in Nat, Spent(l)' >= s,
           \A i \in Scale!Rented(l)' : insts'[l][i].age - s <= InstanceTtl
    PROVE  LaneInv(l)'
<1> SUFFICES ASSUME NEW i \in Scale!Rented(l)'
             PROVE  insts'[l][i].age <= InstanceTtl + Slack(l)' + Spent(l)'
  BY ScaleConstants DEF LaneInv
<1>1. insts'[l][i].age \in Nat /\ insts'[l][i].age - s <= InstanceTtl
  BY DEF ScaleTypes, Instance, Scale!Rented
<1>2. Slack(l)' \in Nat /\ Spent(l)' \in Nat /\ InstanceTtl \in Nat
  BY ScaleConstants, RentedCountsNext, SpentTypesNext
<1> QED BY <1>1, <1>2
LEMMA RentInvInit == Scale!ScaleInit => RentInv
<1> SUFFICES ASSUME Scale!ScaleInit PROVE RentInv
  OBVIOUS
<1>1. ScaleTypes
  BY ScaleConstants DEF Scale!ScaleInit, Scale!NoInst, ScaleTypes, Instance
<1>2. \A l \in Scale!SLane : Scale!Rented(l) = {}
  BY DEF Scale!ScaleInit, Scale!NoInst, Scale!Rented
<1>3. PassInv
  BY ScaleConstants DEF PassInv, Scale!ScaleInit
<1> QED BY <1>1, <1>2, <1>3 DEF RentInv, LaneInv

\* What is released is rented, and an instance past its lifetime is never passed over.
LEMMA Candidates ==
    ASSUME ScaleTypes, NEW l \in Scale!SLane
    PROVE  /\ \A i \in Scale!release_candidate(l) : i \in Scale!Rented(l)
           /\ Scale!release_candidate(l) = {} /\ InstanceTtl > 0 =>
                \A i \in Scale!Rented(l) : insts[l][i].age - since <= InstanceTtl
<1> DEFINE old1 == {i \in Scale!Rented(l) : InstanceTtl > 0 /\ Scale!Aged(insts[l][i].age) >= InstanceTtl}
           idle1 == {i \in Scale!Rented(l) : IdleLimit > 0 /\ Scale!Aged(insts[l][i].idle) >= IdleLimit}
           longest == {i \in idle1 : \A k \in idle1 : insts[l][k].idle <= insts[l][i].idle}
<1>0. /\ Scale!release_candidate(l) = IF old1 # {} THEN {Scale!Min(old1)}
                                      ELSE IF idle1 # {} THEN {Scale!Min(longest)} ELSE {}
  BY DEF Scale!release_candidate
<1>1. \A S \in SUBSET Scale!Rented(l) : S # {} => Scale!Min(S) \in S
  <2> SUFFICES ASSUME NEW S \in SUBSET Scale!Rented(l), S # {} PROVE Scale!Min(S) \in S
    OBVIOUS
  <2>1. IsFiniteSet(S)
    BY RentedCounts, FS_Subset
  <2>2. \A x \in S : x \in Int
    BY ScaleConstants DEF Scale!Rented
  <2>3. \E x \in S : \A y \in S : x <= y
    BY <2>1, <2>2, LeastElement
  <2> QED BY <2>3 DEF Scale!Min
<1>2. idle1 # {} => longest # {}
  <2> SUFFICES ASSUME idle1 # {} PROVE longest # {}
    OBVIOUS
  <2> PICK N : N = {0 - insts[l][i].idle : i \in idle1}
    OBVIOUS
  <2>1. IsFiniteSet(idle1)
    BY RentedCounts, FS_Subset
  <2>2. \A i \in idle1 : insts[l][i].idle \in Nat
    BY DEF ScaleTypes, Instance, Scale!Rented
  <2>3. IsFiniteSet(N) /\ N # {} /\ \A x \in N : x \in Int
    <3> DEFINE f == [i \in idle1 |-> 0 - insts[l][i].idle]
    <3>1. f \in Surjection(idle1, N)
      BY DEF Surjection
    <3>2. IsFiniteSet(N)
      BY <2>1, <3>1, FS_Surjection
    <3> QED BY <2>2, <3>2
  <2>4. PICK x \in N : \A y \in N : x <= y
    BY <2>3, LeastElement
  <2>5. PICK i \in idle1 : x = 0 - insts[l][i].idle
    OBVIOUS
  <2>6. \A k \in idle1 : insts[l][k].idle <= insts[l][i].idle
    BY <2>2, <2>4, <2>5
  <2> QED BY <2>6
<1>3. old1 \subseteq Scale!Rented(l) /\ longest \subseteq Scale!Rented(l)
  OBVIOUS
<1>4. \A i \in Scale!release_candidate(l) : i \in Scale!Rented(l)
  <2> HIDE DEF old1, idle1, longest
  <2> QED BY <1>0, <1>1, <1>2, <1>3
<1>5. Scale!release_candidate(l) = {} => old1 = {}
  <2> HIDE DEF old1, idle1, longest
  <2> QED BY <1>0
<1>6. ASSUME old1 = {}, InstanceTtl > 0, NEW i \in Scale!Rented(l)
      PROVE  insts[l][i].age - since <= InstanceTtl
  <2>1. ~(Scale!Aged(insts[l][i].age) >= InstanceTtl)
    BY <1>6
  <2>2. insts[l][i].age \in Nat /\ since \in Nat
    BY <1>6 DEF ScaleTypes, Instance, Scale!Rented
  <2> QED BY <2>1, <2>2, ScaleConstants DEF Scale!Aged
<1> QED BY <1>4, <1>5, <1>6

\* The pass goes on to the next lane, or ends.
LEMMA NextLaneSpends ==
    ASSUME RentInv, Scale!NextLane, ctl \in {"lane", "warm"}
    PROVE  /\ cur' \in [lane : Scale!SLane, slot : Scale!SSlot] /\ since' \in Nat
           /\ ctl' \in {"wait", "lane"}
           /\ ctl' = "wait" => since' <= Poll /\ cur'.lane = 1
           /\ ctl' = "lane" => since' <= (cur'.lane - 1) * WarmTime
           /\ \A l \in Scale!SLane : l # cur.lane => Spent(l)' >= Spent(l)
           /\ \A l \in Scale!SLane : l = cur.lane => Spent(l)' >= since
<1> PICK n \in Scale!SLane, s \in Nat, c \in {"lane", "warm"} :
           n = cur.lane /\ s = since /\ c = ctl /\ cur \in [lane : Scale!SLane, slot : Scale!SSlot]
  BY DEF RentInv, ScaleTypes
<1>0. n \in 1..NLanes /\ n \in Nat /\ n - 1 \in Nat
  BY ScaleConstants
<1>1. s <= n * WarmTime
  <2>1. (n - 1) * WarmTime <= n * WarmTime /\ n * WarmTime \in Nat /\ (n - 1) * WarmTime \in Nat
    <3>1. n - 1 <= n
      BY <1>0
    <3> QED BY <1>0, <3>1, ScaleConstants, Products
  <2> QED BY <2>1 DEF RentInv, PassInv
<1>2. n * WarmTime <= NLanes * WarmTime /\ n * WarmTime \in Nat
  BY <1>0, ScaleConstants, Products
<1>3. CASE n < NLanes
  <2>1. ctl' = "lane" /\ cur' = [cur EXCEPT !.lane = n + 1] /\ since' = s
    BY <1>3 DEF Scale!NextLane
  <2>2. n + 1 \in Scale!SLane /\ cur'.lane = n + 1 /\ cur' \in [lane : Scale!SLane, slot : Scale!SSlot]
    BY <1>0, <1>3, <2>1, ScaleConstants
  <2>3. (n + 1) - 1 = n
    BY <1>0
  <2>4. \A l \in Scale!SLane : Spent(l)' = IF l < n + 1 THEN s ELSE Lapse + s
    BY <2>1, <2>2 DEF Spent, Seen, Lapse
  <2>5. \A l \in Scale!SLane : Spent(l) = IF l < n \/ (l = n /\ c = "warm") THEN s ELSE Lapse + s
    BY DEF Spent, Seen
  <2>6. \A l \in Scale!SLane : l # n => Spent(l)' = Spent(l) /\ Spent(l) \in Nat
    <3> SUFFICES ASSUME NEW l \in Scale!SLane, l # n PROVE Spent(l)' = Spent(l) /\ Spent(l) \in Nat
      OBVIOUS
    <3>1. l < n + 1 <=> l < n
      BY <1>0, ScaleConstants
    <3> QED BY <2>4, <2>5, <3>1, SpentTypes DEF RentInv
  <2>7. Spent(n)' = s
    <3>1. n < n + 1
      BY <1>0
    <3> QED BY <2>4, <3>1
  <2> QED BY <1>1, <2>1, <2>2, <2>3, <2>6, <2>7
<1>4. CASE ~(n < NLanes)
  <2>1. ctl' = "wait" /\ cur' = [lane |-> 1, slot |-> 1] /\ since' = 0 /\ n = NLanes
    BY <1>0, <1>4, ScaleConstants DEF Scale!NextLane
  <2>2. \A l \in Scale!SLane : Spent(l)' = NLanes * WarmTime + 0
    BY <2>1 DEF Spent
  <2>3. \A l \in Scale!SLane : l # n => Spent(l) = s
    BY <1>0, <2>1, ScaleConstants DEF Spent, Seen
  <2>4. s <= NLanes * WarmTime + 0
    BY <1>1, <1>2, ScaleConstants
  <2>5. cur' \in [lane : Scale!SLane, slot : Scale!SSlot] /\ cur'.lane = 1 /\ 0 <= Poll
    BY <2>1, ScaleConstants
  <2> QED BY <2>1, <2>2, <2>3, <2>4, <2>5
<1> QED BY <1>3, <1>4
\* A lane that gives one instance back when it is looked at
LEMMA LaneReleases ==
    ASSUME RentInv, ScaleTypes', NEW l \in Scale!SLane, NEW i \in Scale!Rented(l),
           Scale!Rented(l)' = Scale!Rented(l) \ {i}, NEW s \in Nat,
           \A k \in Scale!Rented(l)' : insts'[l][k].age = insts[l][k].age,
           Spent(l) = Lapse + s, Spent(l)' >= s
    PROVE  LaneInv(l)'
<1> PICK R, n : R = Scale!Rented(l) /\ n = Cardinality(R)
  OBVIOUS
<1>1. IsFiniteSet(R) /\ n \in 0..NInstances /\ i \in R /\ Slack(l) = (NInstances - n) * Lapse
  BY RentedCounts DEF Slack
<1>2. Cardinality(R \ {i}) = n - 1 /\ n >= 1
  <2>1. Cardinality(R \ {i}) = n - 1
    BY <1>1, FS_RemoveElement
  <2>2. Cardinality(R \ {i}) \in Nat
    BY <1>1, FS_RemoveElement, FS_CardinalityType
  <2> QED BY <1>1, <2>1, <2>2
<1>3. Slack(l)' = (NInstances - (n - 1)) * Lapse
  BY <1>2 DEF Slack, Lapse
<1>4. Slack(l)' = Slack(l) + Lapse
  <2> PICK a \in Nat : a = NInstances - n
    BY <1>1, ScaleConstants
  <2>1. NInstances - (n - 1) = a + 1
    BY <1>1, ScaleConstants
  <2>2. (a + 1) * Lapse = a * Lapse + Lapse
    BY ScaleConstants, Products
  <2> QED BY <1>1, <1>3, <2>1, <2>2
<1> SUFFICES ASSUME NEW k \in Scale!Rented(l)'
             PROVE  insts'[l][k].age <= InstanceTtl + Slack(l)' + Spent(l)'
  BY ScaleConstants DEF LaneInv
<1>5. insts[l][k].age <= InstanceTtl + Slack(l) + (Lapse + s) /\ insts'[l][k].age = insts[l][k].age
  BY DEF RentInv, LaneInv
<1>6. insts[l][k].age \in Nat
  BY DEF RentInv, ScaleTypes, Instance, Scale!Rented
<1>7. Slack(l) \in Nat /\ Spent(l)' \in Nat /\ InstanceTtl \in Nat /\ Lapse \in Nat
  BY ScaleConstants, RentedCounts, SpentTypesNext
<1> QED BY <1>4, <1>5, <1>6, <1>7

LEMMA ReleaseAt ==
    ASSUME ScaleTypes, NEW l \in Scale!SLane, NEW i \in Scale!SSlot, Scale!Release(l, i)
    PROVE  /\ insts' \in [Scale!SLane -> [Scale!SSlot -> Instance]]
           /\ \A m \in Scale!SLane, k \in Scale!SSlot :
                insts'[m][k] = IF m = l /\ k = i THEN Scale!NoInst ELSE insts[m][k]
           /\ \A m \in Scale!SLane, k \in Scale!SSlot : insts'[m][k].is = "none" => insts'[m][k].age = 0
           /\ Scale!Rented(l)' = Scale!Rented(l) \ {i}
           /\ \A m \in Scale!SLane : m # l => Scale!Rented(m)' = Scale!Rented(m)
<1>1. Scale!NoInst \in Instance /\ Scale!NoInst.is = "none" /\ Scale!NoInst.age = 0
  BY DEF Scale!NoInst, Instance
<1>2. insts \in [Scale!SLane -> [Scale!SSlot -> Instance]] /\ insts' = [insts EXCEPT ![l][i] = Scale!NoInst]
  BY DEF ScaleTypes, Scale!Release
<1> HIDE DEF Instance
<1>3. insts' \in [Scale!SLane -> [Scale!SSlot -> Instance]]
  BY <1>1, <1>2
<1>4. \A m \in Scale!SLane, k \in Scale!SSlot :
        insts'[m][k] = IF m = l /\ k = i THEN Scale!NoInst ELSE insts[m][k]
  BY <1>1, <1>2
<1>5. \A m \in Scale!SLane, k \in Scale!SSlot : insts'[m][k].is = "none" => insts'[m][k].age = 0
  BY <1>1, <1>4 DEF ScaleTypes
<1>6. Scale!Rented(l)' = Scale!Rented(l) \ {i}
  BY <1>1, <1>4 DEF Scale!Rented
<1>7. \A m \in Scale!SLane : m # l => Scale!Rented(m)' = Scale!Rented(m)
  BY <1>4 DEF Scale!Rented
<1> QED BY <1>3, <1>4, <1>5, <1>6, <1>7

LEMMA TickDownKeeps ==
    ASSUME RentInv, NEW i \in Scale!SSlot, Scale!TickDown(i)
    PROVE  RentInv'
<1>0. ScaleTypes /\ ctl = "lane" /\ Scale!NextLane /\ Scale!Release(cur.lane, i)
      /\ i \in Scale!release_candidate(cur.lane) /\ since \in Nat
  BY DEF RentInv, Scale!TickDown, ScaleTypes
<1>1. PICK l \in Scale!SLane : l = cur.lane
  BY <1>0 DEF ScaleTypes
<1>2. i \in Scale!Rented(l)
  BY <1>0, <1>1, Candidates
<1>3. /\ insts' \in [Scale!SLane -> [Scale!SSlot -> Instance]]
      /\ \A m \in Scale!SLane, k \in Scale!SSlot :
           insts'[m][k] = IF m = l /\ k = i THEN Scale!NoInst ELSE insts[m][k]
      /\ \A m \in Scale!SLane, k \in Scale!SSlot : insts'[m][k].is = "none" => insts'[m][k].age = 0
      /\ Scale!Rented(l)' = Scale!Rented(l) \ {i}
      /\ \A m \in Scale!SLane : m # l => Scale!Rented(m)' = Scale!Rented(m)
  BY <1>0, <1>1, ReleaseAt
<1>4. /\ cur' \in [lane : Scale!SLane, slot : Scale!SSlot] /\ since' \in Nat
      /\ ctl' \in {"wait", "lane"}
      /\ ctl' = "wait" => since' <= Poll /\ cur'.lane = 1
      /\ ctl' = "lane" => since' <= (cur'.lane - 1) * WarmTime
      /\ \A m \in Scale!SLane : m # l => Spent(m)' >= Spent(m)
      /\ Spent(l)' >= since
  BY <1>0, <1>1, NextLaneSpends
<1>5. ScaleTypes' /\ PassInv'
  BY <1>3, <1>4 DEF ScaleTypes, PassInv
<1>6. LaneInv(l)'
  <2>1. Spent(l) = Lapse + since
    BY <1>0, <1>1, ScaleConstants DEF Spent, Seen
  <2>2. \A k \in Scale!Rented(l)' : insts'[l][k].age = insts[l][k].age
    BY <1>3 DEF Scale!Rented
  <2> QED BY <1>0, <1>2, <1>3, <1>4, <1>5, <2>1, <2>2, LaneReleases
<1>7. ASSUME NEW m \in Scale!SLane, m # l PROVE LaneInv(m)'
  <2>1. \A k \in Scale!Rented(m)' : insts'[m][k].age = insts[m][k].age
    BY <1>3, <1>7 DEF Scale!Rented
  <2> QED BY <1>3, <1>4, <1>5, <1>7, <2>1, LaneKept
<1> QED BY <1>5, <1>6, <1>7 DEF RentInv

LEMMA WarmFailsKeeps ==
    ASSUME RentInv, Scale!WarmFails
    PROVE  RentInv'
<1>0. ScaleTypes /\ ctl = "warm" /\ Scale!NextLane /\ Scale!Release(cur.lane, cur.slot) /\ since \in Nat
  BY DEF RentInv, Scale!WarmFails, ScaleTypes
<1>1. PICK l \in Scale!SLane, i \in Scale!SSlot : l = cur.lane /\ i = cur.slot
  BY <1>0 DEF ScaleTypes
<1>3. /\ insts' \in [Scale!SLane -> [Scale!SSlot -> Instance]]
      /\ \A m \in Scale!SLane, k \in Scale!SSlot :
           insts'[m][k] = IF m = l /\ k = i THEN Scale!NoInst ELSE insts[m][k]
      /\ \A m \in Scale!SLane, k \in Scale!SSlot : insts'[m][k].is = "none" => insts'[m][k].age = 0
      /\ Scale!Rented(l)' = Scale!Rented(l) \ {i}
      /\ \A m \in Scale!SLane : m # l => Scale!Rented(m)' = Scale!Rented(m)
  BY <1>0, <1>1, ReleaseAt
<1>4. /\ cur' \in [lane : Scale!SLane, slot : Scale!SSlot] /\ since' \in Nat
      /\ ctl' \in {"wait", "lane"}
      /\ ctl' = "wait" => since' <= Poll /\ cur'.lane = 1
      /\ ctl' = "lane" => since' <= (cur'.lane - 1) * WarmTime
      /\ \A m \in Scale!SLane : m # l => Spent(m)' >= Spent(m)
      /\ Spent(l)' >= since
  BY <1>0, <1>1, NextLaneSpends
<1>5. ScaleTypes' /\ PassInv'
  BY <1>3, <1>4 DEF ScaleTypes, PassInv
<1>6. Spent(l) = since
  BY <1>0, <1>1 DEF Spent, Seen
<1>7. ASSUME NEW m \in Scale!SLane PROVE LaneInv(m)'
  <2>1. \A k \in Scale!Rented(m)' : insts'[m][k].age = insts[m][k].age
    BY <1>3, <1>7 DEF Scale!Rented
  <2>2. Scale!Rented(m)' \subseteq Scale!Rented(m) /\ Spent(m)' >= Spent(m)
    BY <1>3, <1>4, <1>6
  <2> QED BY <1>5, <1>7, <2>1, <2>2, LaneKept
<1> QED BY <1>5, <1>7 DEF RentInv

LEMMA WarmedKeeps ==
    ASSUME RentInv, Scale!Warmed
    PROVE  RentInv'
<1>0. ScaleTypes /\ ctl = "warm" /\ Scale!NextLane /\ since \in Nat
      /\ cur.slot \in Scale!Rented(cur.lane) /\ Scale!instance_ready(cur.lane, cur.slot)
  BY DEF RentInv, PassInv, Scale!Warmed, ScaleTypes
<1>1. PICK l \in Scale!SLane, i \in Scale!SSlot : l = cur.lane /\ i = cur.slot
  BY <1>0 DEF ScaleTypes
<1>2. insts \in [Scale!SLane -> [Scale!SSlot -> Instance]]
  BY <1>0 DEF ScaleTypes
<1>3. PICK x \in Instance : x = [insts[l][i] EXCEPT !.is = "ready", !.idle = since]
                           /\ x.age = insts[l][i].age /\ x.is = "ready"
  <2>1. insts[l][i] \in Instance
    BY <1>2
  <2>2. \A r \in Instance : /\ [r EXCEPT !.is = "ready", !.idle = since] \in Instance
                            /\ [r EXCEPT !.is = "ready", !.idle = since].age = r.age
                            /\ [r EXCEPT !.is = "ready", !.idle = since].is = "ready"
    BY <1>0 DEF Instance
  <2> QED BY <2>1, <2>2
<1>4. insts' = [insts EXCEPT ![l][i] = x]
  BY <1>0, <1>1, <1>3 DEF Scale!instance_ready
<1> HIDE DEF Instance
<1>5. /\ insts' \in [Scale!SLane -> [Scale!SSlot -> Instance]]
      /\ \A m \in Scale!SLane, k \in Scale!SSlot :
           insts'[m][k] = IF m = l /\ k = i THEN x ELSE insts[m][k]
  BY <1>2, <1>3, <1>4
<1>6. /\ cur' \in [lane : Scale!SLane, slot : Scale!SSlot] /\ since' \in Nat
      /\ ctl' \in {"wait", "lane"}
      /\ ctl' = "wait" => since' <= Poll /\ cur'.lane = 1
      /\ ctl' = "lane" => since' <= (cur'.lane - 1) * WarmTime
      /\ \A m \in Scale!SLane : m # l => Spent(m)' >= Spent(m)
      /\ Spent(l)' >= since
  BY <1>0, <1>1, NextLaneSpends
<1>7. ScaleTypes' /\ PassInv'
  <2>1. \A m \in Scale!SLane, k \in Scale!SSlot : insts'[m][k].is = "none" => insts'[m][k].age = 0
    <3>1. x.is # "none"
      BY <1>3
    <3>2. \A m \in Scale!SLane, k \in Scale!SSlot : insts[m][k].is = "none" => insts[m][k].age = 0
      BY <1>0 DEF ScaleTypes
    <3>3. \A m \in Scale!SLane, k \in Scale!SSlot : insts'[m][k] = x \/ insts'[m][k] = insts[m][k]
      BY <1>5
    <3> QED BY <3>1, <3>2, <3>3
  <2> QED BY <1>5, <1>6, <2>1 DEF ScaleTypes, PassInv
<1>8. Spent(l) = since
  BY <1>0, <1>1 DEF Spent, Seen
<1>9. ASSUME NEW m \in Scale!SLane PROVE LaneInv(m)'
  <2>1. \A k \in Scale!SSlot : insts'[m][k].age = insts[m][k].age
    BY <1>3, <1>5
  <2>2. Scale!Rented(m)' \subseteq Scale!Rented(m)
    BY <1>0, <1>1, <1>5 DEF Scale!Rented
  <2>3. Spent(m)' >= Spent(m)
    BY <1>6, <1>8
  <2>4. \A k \in Scale!Rented(m)' : k \in Scale!SSlot
    BY DEF Scale!Rented
  <2> QED BY <1>7, <1>9, <2>1, <2>2, <2>3, <2>4, LaneKept
<1> QED BY <1>7, <1>9 DEF RentInv
LEMMA TickHoldKeeps ==
    ASSUME RentInv, InstanceTtl > 0, NEW d, NEW f, NEW q, Scale!TickHold(d, f, q)
    PROVE  RentInv'
<1>0. ScaleTypes /\ ctl = "lane" /\ Scale!NextLane /\ insts' = insts /\ since \in Nat
      /\ Scale!release_candidate(cur.lane) = {}
  BY DEF RentInv, Scale!TickHold, ScaleTypes
<1>1. PICK l \in Scale!SLane : l = cur.lane
  BY <1>0 DEF ScaleTypes
<1>2. \A i \in Scale!Rented(l) : insts[l][i].age - since <= InstanceTtl
  BY <1>0, <1>1, Candidates
<1>3. \A m \in Scale!SLane : Scale!Rented(m)' = Scale!Rented(m)
  BY <1>0 DEF Scale!Rented
<1>4. /\ cur' \in [lane : Scale!SLane, slot : Scale!SSlot] /\ since' \in Nat
      /\ ctl' \in {"wait", "lane"}
      /\ ctl' = "wait" => since' <= Poll /\ cur'.lane = 1
      /\ ctl' = "lane" => since' <= (cur'.lane - 1) * WarmTime
      /\ \A m \in Scale!SLane : m # l => Spent(m)' >= Spent(m)
      /\ Spent(l)' >= since
  BY <1>0, <1>1, NextLaneSpends
<1>5. ScaleTypes' /\ PassInv'
  BY <1>0, <1>4 DEF ScaleTypes, PassInv
<1>6. LaneInv(l)'
  BY <1>0, <1>2, <1>3, <1>4, <1>5, LaneYoung
<1>7. ASSUME NEW m \in Scale!SLane, m # l PROVE LaneInv(m)'
  BY <1>0, <1>3, <1>4, <1>5, <1>7, LaneKept
<1> QED BY <1>5, <1>6, <1>7 DEF RentInv

LEMMA TickUpKeeps ==
    ASSUME RentInv, InstanceTtl > 0, NEW d, NEW f, NEW q, Scale!TickUp(d, f, q)
    PROVE  RentInv'
<1>0. ScaleTypes /\ ctl = "lane" /\ ctl' = "warm" /\ since' = since /\ since \in Nat
      /\ Scale!release_candidate(cur.lane) = {} /\ Scale!ShouldRent(cur.lane, d, f, q)
      /\ insts \in [Scale!SLane -> [Scale!SSlot -> Instance]]
      /\ cur \in [lane : Scale!SLane, slot : Scale!SSlot]
  BY DEF RentInv, Scale!TickUp, ScaleTypes
<1>1. PICK l \in Scale!SLane : l = cur.lane
  BY <1>0
<1>2. PICK i \in Scale!SSlot : i = Scale!Min(Scale!SSlot \ Scale!Rented(l)) /\ i \notin Scale!Rented(l)
  <2> PICK S : S = Scale!SSlot \ Scale!Rented(l)
    OBVIOUS
  <2>1. Cardinality(Scale!Rented(l)) < NInstances
    BY <1>0, <1>1, ScaleCardinality DEF Scale!ShouldRent
  <2>2. S # {}
    <3> SUFFICES ASSUME S = {} PROVE FALSE
      OBVIOUS
    <3>1. Scale!Rented(l) = Scale!SSlot
      BY DEF Scale!Rented
    <3> QED BY <2>1, <3>1, ScaleConstants
  <2>3. IsFiniteSet(S) /\ \A x \in S : x \in Int
    BY ScaleConstants, FS_Subset
  <2>4. \E x \in S : \A y \in S : x <= y
    BY <2>2, <2>3, LeastElement
  <2>5. Scale!Min(S) \in S
    BY <2>4 DEF Scale!Min
  <2> QED BY <2>5
<1>3. PICK x \in Instance : x = [is |-> "warming", age |-> since, idle |-> since]
                           /\ x.age = since /\ x.is = "warming"
  <2>1. since \in Nat
    BY <1>0
  <2>2. [is |-> "warming", age |-> since, idle |-> since] \in Instance
    BY <2>1 DEF Instance
  <2> QED BY <2>2
<1>4. insts' = [insts EXCEPT ![l][i] = x] /\ cur' = [cur EXCEPT !.slot = i]
  <2>1. /\ insts' = [insts EXCEPT ![cur.lane][i] = [is |-> "warming", age |-> since, idle |-> since]]
        /\ cur' = [cur EXCEPT !.slot = i]
    BY <1>1, <1>2 DEF Scale!TickUp, Scale!begin_instance
  <2> QED BY <1>1, <1>3, <2>1
<1> HIDE DEF Instance
<1>5. /\ insts' \in [Scale!SLane -> [Scale!SSlot -> Instance]]
      /\ \A m \in Scale!SLane, k \in Scale!SSlot :
           insts'[m][k] = IF m = l /\ k = i THEN x ELSE insts[m][k]
      /\ cur' \in [lane : Scale!SLane, slot : Scale!SSlot] /\ cur'.lane = l /\ cur'.slot = i
  BY <1>0, <1>1, <1>3, <1>4
<1>6. ScaleTypes'
  <2>1. x.is # "none"
    BY <1>3
  <2>2. \A m \in Scale!SLane, k \in Scale!SSlot : insts[m][k].is = "none" => insts[m][k].age = 0
    BY <1>0 DEF ScaleTypes
  <2>3. \A m \in Scale!SLane, k \in Scale!SSlot : insts'[m][k] = x \/ insts'[m][k] = insts[m][k]
    BY <1>5
  <2>4. \A m \in Scale!SLane, k \in Scale!SSlot : insts'[m][k].is = "none" => insts'[m][k].age = 0
    BY <2>1, <2>2, <2>3
  <2> QED BY <1>0, <1>5, <2>4 DEF ScaleTypes
<1>7. PassInv'
  <2>1. i \in Scale!Rented(l)'
    BY <1>3, <1>5 DEF Scale!Rented
  <2>2. since <= l * WarmTime
    <3>1. since <= (l - 1) * WarmTime
      BY <1>0, <1>1 DEF RentInv, PassInv
    <3>2. l - 1 \in Nat /\ l \in Nat /\ l - 1 <= l
      BY ScaleConstants
    <3>3. (l - 1) * WarmTime <= l * WarmTime /\ (l - 1) * WarmTime \in Nat /\ l * WarmTime \in Nat
      BY <3>2, ScaleConstants, Products
    <3> QED BY <1>0, <3>1, <3>3
  <2> QED BY <1>0, <1>5, <2>1, <2>2 DEF PassInv, Scale!Rented
<1>8. \A m \in Scale!SLane : Spent(m)' = IF m < l \/ m = l THEN since ELSE Lapse + since
  BY <1>0, <1>5 DEF Spent, Seen, Lapse
<1>9. \A m \in Scale!SLane : Spent(m) = IF m < l THEN since ELSE Lapse + since
  BY <1>0, <1>1 DEF Spent, Seen, Lapse
<1>10. LaneInv(l)'
  <2>1. \A k \in Scale!Rented(l) : insts[l][k].age - since <= InstanceTtl
    BY <1>0, <1>1, Candidates
  <2>2. \A k \in Scale!Rented(l)' : insts'[l][k].age - since <= InstanceTtl
    <3> SUFFICES ASSUME NEW k \in Scale!Rented(l)' PROVE insts'[l][k].age - since <= InstanceTtl
      OBVIOUS
    <3>1. k \in Scale!SSlot
      BY DEF Scale!Rented
    <3>2. CASE k = i
      BY <1>0, <1>3, <1>5, <3>1, <3>2, ScaleConstants
    <3>3. CASE k # i
      <4>1. insts'[l][k] = insts[l][k] /\ k \in Scale!Rented(l)
        BY <1>5, <3>1, <3>3 DEF Scale!Rented
      <4> QED BY <2>1, <4>1
    <3> QED BY <3>2, <3>3
  <2>3. Spent(l)' >= since
    BY <1>0, <1>8
  <2> QED BY <1>0, <1>6, <2>2, <2>3, LaneYoung
<1>11. ASSUME NEW m \in Scale!SLane, m # l PROVE LaneInv(m)'
  <2>1. \A k \in Scale!SSlot : insts'[m][k] = insts[m][k]
    BY <1>5, <1>11
  <2>2. Scale!Rented(m)' \subseteq Scale!Rented(m) /\ \A k \in Scale!Rented(m)' : k \in Scale!SSlot
    BY <2>1, <1>11 DEF Scale!Rented
  <2>3. Spent(m)' = Spent(m) /\ Spent(m) \in Nat
    BY <1>0, <1>8, <1>9, <1>11, SpentTypes
  <2> QED BY <1>6, <1>11, <2>1, <2>2, <2>3, LaneKept
<1> QED BY <1>6, <1>7, <1>10, <1>11 DEF RentInv

LEMMA UseKeeps ==
    ASSUME RentInv, NEW l \in Scale!SLane, NEW t, Scale!UseInstance(l, t)
    PROVE  RentInv'
<1>0. ScaleTypes /\ UNCHANGED <<ctl, cur, since>> /\ insts \in [Scale!SLane -> [Scale!SSlot -> Instance]]
  BY DEF RentInv, ScaleTypes, Scale!UseInstance
<1>1. PICK i : insts' = [insts EXCEPT ![l][i].idle = 0]
  BY DEF Scale!UseInstance
<1>2. \A r \in Instance : /\ [r EXCEPT !.idle = 0] \in Instance
                          /\ [r EXCEPT !.idle = 0].is = r.is /\ [r EXCEPT !.idle = 0].age = r.age
  BY DEF Instance
<1> HIDE DEF Instance
<1>3. \A m \in Scale!SLane, k \in Scale!SSlot :
        insts'[m][k] = IF m = l /\ k = i THEN [insts[m][k] EXCEPT !.idle = 0] ELSE insts[m][k]
  BY <1>0, <1>1
<1>4. \A m \in Scale!SLane, k \in Scale!SSlot :
        insts'[m][k] \in Instance /\ insts'[m][k].is = insts[m][k].is /\ insts'[m][k].age = insts[m][k].age
  <2>1. \A m \in Scale!SLane, k \in Scale!SSlot : insts[m][k] \in Instance
    BY <1>0
  <2> QED BY <1>2, <1>3, <2>1
<1>5. insts' \in [Scale!SLane -> [Scale!SSlot -> Instance]]
  <2>1. DOMAIN insts' = Scale!SLane /\ insts' = [m \in Scale!SLane |-> insts'[m]]
    BY <1>0, <1>1
  <2>2. \A m \in Scale!SLane : insts'[m] = [k \in Scale!SSlot |-> insts'[m][k]]
    BY <1>0, <1>1
  <2> QED BY <1>4, <2>1, <2>2
<1>6. ScaleTypes'
  BY <1>0, <1>4, <1>5 DEF ScaleTypes
<1>7. \A m \in Scale!SLane : Scale!Rented(m)' = Scale!Rented(m)
  BY <1>4 DEF Scale!Rented
<1>8. PassInv'
  BY <1>0, <1>7 DEF RentInv, PassInv, ScaleTypes
<1>9. ASSUME NEW m \in Scale!SLane PROVE LaneInv(m)'
  <2>1. Spent(m)' = Spent(m) /\ Spent(m) \in Nat
    BY <1>0, SpentTypes DEF Spent, Seen
  <2>2. \A k \in Scale!Rented(m)' : insts'[m][k].age = insts[m][k].age
    BY <1>4, <1>7 DEF Scale!Rented
  <2> QED BY <1>6, <1>7, <1>9, <2>1, <2>2, LaneKept
<1> QED BY <1>6, <1>8, <1>9 DEF RentInv
LEMMA TimeKeeps ==
    ASSUME RentInv, Scale!PassTime
    PROVE  RentInv'
<1>a. insts' = [l \in Scale!SLane |-> [i \in Scale!SSlot |->
               IF insts[l][i].is = "none" THEN Scale!NoInst
               ELSE [insts[l][i] EXCEPT !.age = @ + 1, !.idle = @ + 1]]]
  BY Zenon DEF Scale!PassTime
<1>b. UNCHANGED <<ctl, cur>> /\ since' = since + 1
  BY Zenon DEF Scale!PassTime
<1>c. ScaleTypes /\ PassInv
  BY Zenon DEF RentInv
<1>d. since \in Nat /\ insts \in [Scale!SLane -> [Scale!SSlot -> Instance]]
  BY <1>c, Zenon DEF ScaleTypes
<1>0. /\ ScaleTypes /\ PassInv /\ UNCHANGED <<ctl, cur>>
      /\ since' = since + 1 /\ since \in Nat /\ since' \in Nat
  BY <1>b, <1>c, <1>d
<1>1. \A r \in Instance : /\ [r EXCEPT !.age = @ + 1, !.idle = @ + 1] \in Instance
                          /\ [r EXCEPT !.age = @ + 1, !.idle = @ + 1].is = r.is
                          /\ [r EXCEPT !.age = @ + 1, !.idle = @ + 1].age = r.age + 1
  <2> SUFFICES ASSUME NEW r \in Instance
               PROVE  /\ [r EXCEPT !.age = @ + 1, !.idle = @ + 1] \in Instance
                      /\ [r EXCEPT !.age = @ + 1, !.idle = @ + 1].is = r.is
                      /\ [r EXCEPT !.age = @ + 1, !.idle = @ + 1].age = r.age + 1
    OBVIOUS
  <2> PICK a, d : a = r.age + 1 /\ d = r.idle + 1
    OBVIOUS
  <2>1. a \in Nat /\ d \in Nat
    BY DEF Instance
  <2>2. [r EXCEPT !.age = a, !.idle = d] \in Instance
        /\ [r EXCEPT !.age = a, !.idle = d].is = r.is
        /\ [r EXCEPT !.age = a, !.idle = d].age = a
    BY <2>1 DEF Instance
  <2>3. [r EXCEPT !.age = @ + 1, !.idle = @ + 1] = [r EXCEPT !.age = a, !.idle = d]
    BY DEF Instance
  <2> QED BY <2>2, <2>3
<1>2. Scale!NoInst \in Instance /\ Scale!NoInst.is = "none" /\ Scale!NoInst.age = 0
  BY DEF Instance, Scale!NoInst
<1> HIDE DEF Instance
<1>3. \A m \in Scale!SLane, k \in Scale!SSlot :
        /\ insts'[m][k] \in Instance /\ insts'[m][k].is = insts[m][k].is
        /\ insts'[m][k].age = IF insts[m][k].is = "none" THEN 0 ELSE insts[m][k].age + 1
  <2> SUFFICES ASSUME NEW m \in Scale!SLane, NEW k \in Scale!SSlot
               PROVE  /\ insts'[m][k] \in Instance /\ insts'[m][k].is = insts[m][k].is
                      /\ insts'[m][k].age = IF insts[m][k].is = "none" THEN 0 ELSE insts[m][k].age + 1
    OBVIOUS
  <2>1. insts[m][k] \in Instance
    BY <1>d
  <2>2. insts'[m][k] = IF insts[m][k].is = "none" THEN Scale!NoInst
                       ELSE [insts[m][k] EXCEPT !.age = @ + 1, !.idle = @ + 1]
    BY <1>a
  <2> QED BY <1>1, <1>2, <2>1, <2>2
<1>4. insts' \in [Scale!SLane -> [Scale!SSlot -> Instance]]
  <2>1. insts' = [m \in Scale!SLane |-> insts'[m]]
        /\ \A m \in Scale!SLane : insts'[m] = [k \in Scale!SSlot |-> insts'[m][k]]
    BY <1>a
  <2> QED BY <1>3, <2>1
<1>5. ScaleTypes'
  BY <1>0, <1>3, <1>4 DEF ScaleTypes
<1>6. \A m \in Scale!SLane : Scale!Rented(m)' = Scale!Rented(m)
  BY <1>3 DEF Scale!Rented
<1>7. PassInv'
  <2>1. CASE ctl = "wait" /\ since < Poll
    <3>1. since' <= Poll /\ cur.lane = 1
      BY <1>0, <2>1, ScaleConstants DEF PassInv
    <3>2. ctl' = "wait" /\ cur' = cur
      BY <1>0, <2>1
    <3> QED BY <3>1, <3>2 DEF PassInv
  <2>2. CASE ctl = "warm" /\ since < cur.lane * WarmTime
    <3>1. PICK n \in Scale!SLane : n = cur.lane
      BY <1>0 DEF ScaleTypes
    <3>2. n * WarmTime \in Nat
      <4>1. n \in Nat /\ n <= n
        BY ScaleConstants
      <4> QED BY <4>1, ScaleConstants, Products
    <3>3. since + 1 <= n * WarmTime
      <4> PICK w \in Nat : w = n * WarmTime
        BY <3>2
      <4>1. since < w
        BY <2>2, <3>1
      <4>2. since + 1 <= w
        BY <1>0, <4>1
      <4> QED BY <4>2
    <3>4. cur.slot \in Scale!Rented(n)'
      BY <1>0, <1>6, <2>2, <3>1 DEF PassInv
    <3>5. ctl' = "warm" /\ cur' = cur /\ since' <= cur.lane * WarmTime
      BY <1>0, <2>2, <3>1, <3>3
    <3>6. cur'.slot \in Scale!Rented(cur.lane)'
      BY <1>0, <3>1, <3>4 DEF Scale!Rented
    <3> QED BY <3>5, <3>6 DEF PassInv, Scale!Rented
  <2> QED BY <2>1, <2>2 DEF Scale!PassTime
<1>8. ASSUME NEW m \in Scale!SLane PROVE LaneInv(m)'
  <2>1. Spent(m)' = Spent(m) + 1
    <3>1. NLanes * WarmTime \in Nat /\ Lapse \in Nat
      BY ScaleConstants
    <3> PICK w \in Nat, p \in Nat : w = NLanes * WarmTime /\ p = Lapse
      BY <3>1
    <3>2. Spent(m) = IF ctl = "wait" THEN w + since ELSE IF Seen(m) THEN since ELSE p + since
      BY DEF Spent
    <3>3. Spent(m)' = IF ctl = "wait" THEN w + since' ELSE IF Seen(m) THEN since' ELSE p + since'
      BY <1>0 DEF Spent, Seen, Lapse
    <3>4. CASE ctl = "wait"
      <4>1. Spent(m) = w + since /\ Spent(m)' = w + since'
        BY <3>2, <3>3, <3>4
      <4> QED BY <1>0, <4>1
    <3>5. CASE ctl # "wait" /\ Seen(m)
      BY <1>0, <3>2, <3>3, <3>5
    <3>6. CASE ctl # "wait" /\ ~Seen(m)
      <4>1. Spent(m) = p + since /\ Spent(m)' = p + since'
        BY <3>2, <3>3, <3>6
      <4> QED BY <1>0, <4>1
    <3> QED BY <3>4, <3>5, <3>6
  <2>2. Slack(m)' = Slack(m)
    BY <1>6, <1>8 DEF Slack
  <2>3. Slack(m) \in Nat /\ Spent(m) \in Nat /\ InstanceTtl \in Nat
    BY <1>0, <1>8, ScaleConstants, RentedCounts, SpentTypes
  <2> SUFFICES ASSUME NEW i \in Scale!Rented(m)
               PROVE  insts'[m][i].age <= InstanceTtl + Slack(m) + (Spent(m) + 1)
    BY <1>6, <1>8, <2>1, <2>2 DEF LaneInv
  <2>4. insts[m][i].age <= InstanceTtl + Slack(m) + Spent(m)
    BY <1>8 DEF RentInv, LaneInv
  <2>5. insts'[m][i].age = insts[m][i].age + 1 /\ insts[m][i].age \in Nat
    <3>1. i \in Scale!SSlot /\ insts[m][i].is # "none"
      BY DEF Scale!Rented
    <3>2. insts[m][i] \in Instance
      BY <1>d, <1>8, <3>1
    <3> QED BY <1>3, <1>8, <3>1, <3>2 DEF Instance
  <2> QED BY <2>3, <2>4, <2>5
<1> QED BY <1>5, <1>7, <1>8 DEF RentInv

LEMMA RentInvNext ==
    ASSUME InstanceTtl > 0, RentInv, [Scale!ScaleNext]_(Scale!scaleVars)
    PROVE  RentInv'
<1>0. ScaleTypes /\ PassInv
  BY DEF RentInv
<1>1. ASSUME UNCHANGED <<insts, ctl, cur, since>> PROVE RentInv'
  <2>1. \A m \in Scale!SLane : Scale!Rented(m)' = Scale!Rented(m)
    BY <1>1 DEF Scale!Rented
  <2>2. ScaleTypes'
    BY <1>0, <1>1 DEF ScaleTypes
  <2>3. PassInv'
    BY <1>0, <1>1 DEF PassInv, Scale!Rented
  <2>4. ASSUME NEW m \in Scale!SLane PROVE LaneInv(m)'
    <3>1. Spent(m)' = Spent(m) /\ Spent(m) \in Nat
      BY <1>0, <1>1, SpentTypes DEF Spent, Seen
    <3> QED BY <1>1, <2>1, <2>2, <3>1, LaneKept
  <2> QED BY <2>2, <2>3, <2>4 DEF RentInv
<1>2. CASE Scale!LongWait \/ Scale!StopCapacity \/ UNCHANGED Scale!scaleVars
  BY <1>1, <1>2 DEF Scale!LongWait, Scale!StopCapacity, Scale!scaleVars
<1>3. CASE Scale!TickStart
  <2>1. /\ insts' = insts /\ cur' = cur /\ ctl = "wait" /\ ctl' = "lane" /\ since = Poll /\ since' = 0
        /\ cur.lane = 1
    BY <1>0, <1>3 DEF Scale!TickStart, PassInv
  <2>2. \A m \in Scale!SLane : Scale!Rented(m)' = Scale!Rented(m)
    BY <2>1 DEF Scale!Rented
  <2>3. ScaleTypes'
    BY <1>0, <2>1 DEF ScaleTypes
  <2>4. PassInv'
    BY <2>1, ScaleConstants DEF PassInv
  <2>5. ASSUME NEW m \in Scale!SLane PROVE LaneInv(m)'
    <3>1. ~(m < 1)
      BY ScaleConstants
    <3>2. Spent(m)' = Lapse + 0
      BY <2>1, <3>1 DEF Spent, Seen, Lapse
    <3>3. Spent(m) = NLanes * WarmTime + Poll
      BY <2>1 DEF Spent
    <3>4. Spent(m)' >= Spent(m)
      BY <3>2, <3>3, ScaleConstants DEF Lapse
    <3> QED BY <2>1, <2>2, <2>3, <3>4, LaneKept
  <2> QED BY <2>3, <2>4, <2>5 DEF RentInv
<1>4. CASE Scale!EndCapacity
  <2>1. ctl' = "ended" /\ UNCHANGED <<cur, since>>
        /\ insts' = [l \in Scale!SLane |-> [i \in Scale!SSlot |-> Scale!NoInst]]
    BY <1>4 DEF Scale!EndCapacity
  <2>2. \A m \in Scale!SLane : Scale!Rented(m)' = {}
    BY <2>1 DEF Scale!Rented, Scale!NoInst
  <2>3. ScaleTypes'
    BY <1>0, <2>1 DEF ScaleTypes, Scale!NoInst, Instance
  <2>4. PassInv'
    BY <2>1, <2>2 DEF PassInv
  <2> QED BY <2>2, <2>3, <2>4 DEF RentInv, LaneInv
<1>5. CASE Scale!Warmed
  BY <1>5, WarmedKeeps
<1>6. CASE Scale!WarmFails
  BY <1>6, WarmFailsKeeps
<1>7. CASE Scale!PassTime
  BY <1>7, TimeKeeps
<1>8. ASSUME NEW i \in Scale!SSlot, Scale!TickDown(i) PROVE RentInv'
  BY <1>8, TickDownKeeps
<1>9. ASSUME NEW d, NEW f, NEW q, Scale!TickUp(d, f, q) \/ Scale!TickHold(d, f, q) PROVE RentInv'
  BY <1>9, TickUpKeeps, TickHoldKeeps
<1>10. ASSUME NEW l \in Scale!SLane, NEW t, Scale!UseInstance(l, t) PROVE RentInv'
  BY <1>10, UseKeeps
<1> QED BY <1>2, <1>3, <1>4, <1>5, <1>6, <1>7, <1>8, <1>9, <1>10 DEF Scale!ScaleNext

\* The bound that the account of the passes gives
LEMMA RentInvBounds == RentInv => RentBounded
<1> SUFFICES ASSUME RentInv, NEW l \in Scale!SLane, NEW i \in Scale!SSlot
             PROVE  insts[l][i].age <= InstanceTtl + NInstances * Lapse + (NLanes - 1) * WarmTime
  BY DEF RentBounded, Scale!RentBounded, Lapse
<1>0. ScaleTypes /\ PassInv /\ LaneInv(l) /\ insts[l][i].age \in Nat
  BY DEF RentInv, ScaleTypes, Instance
<1> PICK a, y, z : a = insts[l][i].age /\ y = NInstances * Lapse /\ z = (NLanes - 1) * WarmTime
  OBVIOUS
<1>1. y \in Nat /\ z \in Nat /\ InstanceTtl \in Nat /\ a \in Nat
  <2>1. NLanes - 1 \in Nat /\ NInstances \in Nat
    BY ScaleConstants
  <2>2. NInstances * Lapse \in Nat /\ (NLanes - 1) * WarmTime \in Nat
    BY <2>1, ScaleConstants, Products
  <2> QED BY <1>0, <2>2, ScaleConstants
<1>2. CASE i \notin Scale!Rented(l)
  BY <1>0, <1>1, <1>2 DEF Scale!Rented, ScaleTypes
<1>3. CASE i \in Scale!Rented(l)
  <2>1. a <= InstanceTtl + Slack(l) + Spent(l)
    BY <1>0, <1>3 DEF LaneInv
  <2>2. Slack(l) + Lapse <= y /\ Slack(l) \in Nat
    <3> PICK R, n : R = Scale!Rented(l) /\ n = Cardinality(R)
      OBVIOUS
    <3>1. IsFiniteSet(R) /\ n \in 0..NInstances /\ Slack(l) = (NInstances - n) * Lapse /\ R # {}
      BY <1>3, RentedCounts DEF Slack
    <3>2. n # 0
      BY <3>1, FS_EmptySet
    <3> PICK b \in Nat : b = NInstances - n
      BY <3>1, ScaleConstants
    <3>3. b + 1 \in Nat /\ b + 1 <= NInstances
      BY <3>1, <3>2, ScaleConstants
    <3>4. (b + 1) * Lapse <= NInstances * Lapse
      BY <3>3, ScaleConstants, Products
    <3>5. (b + 1) * Lapse = b * Lapse + Lapse /\ b * Lapse \in Nat
      <4>1. b <= b
        OBVIOUS
      <4> QED BY <4>1, ScaleConstants, Products
    <3> QED BY <3>1, <3>4, <3>5
  <2>3. Lapse \in Nat /\ Spent(l) \in Nat
    BY <1>0, ScaleConstants, SpentTypes
  <2>4. Spent(l) <= Lapse + z
    <3>1. CASE ctl = "wait"
      <4>1. Spent(l) = NLanes * WarmTime + since /\ since <= Poll /\ since \in Nat
        BY <1>0, <3>1 DEF Spent, PassInv, ScaleTypes
      <4> PICK w \in Nat, p \in Nat : w = NLanes * WarmTime /\ p = Poll
        BY ScaleConstants
      <4>2. Spent(l) = w + since /\ since <= p /\ Lapse = p + w
        BY <4>1 DEF Lapse
      <4> QED BY <1>1, <4>1, <4>2
    <3>2. CASE ctl = "ended"
      BY <1>0, <1>3, <3>2 DEF PassInv
    <3>3. CASE ctl \in {"lane", "warm"}
      <4> PICK n \in Scale!SLane, s \in Nat : n = cur.lane /\ s = since
        BY <1>0 DEF ScaleTypes
      <4>0. n \in Nat /\ n - 1 \in Nat /\ n <= NLanes /\ n - 1 <= NLanes - 1 /\ NLanes - 1 \in Nat
        BY ScaleConstants
      <4>1. (n - 1) * WarmTime <= z /\ (n - 1) * WarmTime \in Nat
            /\ n * WarmTime <= NLanes * WarmTime /\ n * WarmTime \in Nat
        BY <4>0, ScaleConstants, Products
      <4>2. CASE Seen(l)
        <5>1. Spent(l) = s /\ s <= NLanes * WarmTime
          <6>1. Spent(l) = s
            BY <3>3, <4>2 DEF Spent
          <6>2. s <= n * WarmTime
            <7>1. (n - 1) * WarmTime <= n * WarmTime
              <8>1. n - 1 <= n
                BY <4>0
              <8> QED BY <4>0, <8>1, ScaleConstants, Products
            <7> QED BY <1>0, <3>3, <4>1, <7>1 DEF PassInv
          <6> QED BY <4>1, <6>1, <6>2, ScaleConstants
        <5> QED BY <1>1, <2>3, <5>1, ScaleConstants DEF Lapse
      <4>3. CASE ~Seen(l)
        <5>1. Spent(l) = Lapse + s
          BY <3>3, <4>3 DEF Spent
        <5>2. s <= z
          <6>1. CASE ctl = "lane"
            BY <1>0, <1>1, <4>1, <6>1 DEF PassInv
          <6>2. CASE ctl = "warm"
            <7>1. n < l
              BY <4>3, <6>2, ScaleConstants DEF Seen
            <7>2. n <= NLanes - 1
              BY <7>1, ScaleConstants
            <7>3. n * WarmTime <= z
              BY <4>0, <7>2, ScaleConstants, Products
            <7> QED BY <1>0, <1>1, <4>1, <6>2, <7>3 DEF PassInv
          <6> QED BY <3>3, <6>1, <6>2
        <5> QED BY <1>1, <2>3, <5>1, <5>2
      <4> QED BY <4>2, <4>3
    <3> QED BY <1>0, <3>1, <3>2, <3>3 DEF ScaleTypes
  <2> QED BY <1>1, <2>1, <2>2, <2>3, <2>4
<1> QED BY <1>2, <1>3

\* No rented instance is billed for ever, whatever traffic keeps it in use: the
\* bound for every number of lanes and instances, every lifetime and every delay
\* of the control plane (oscale_release_candidate and ocapacity_tick).
THEOREM RentAlwaysBounded == Scale!ScaleSpec => []RentBounded
<1>1. CASE InstanceTtl > 0
  <2>1. RentInv /\ [Scale!ScaleNext]_(Scale!scaleVars) => RentInv'
    BY <1>1, RentInvNext
  <2> QED BY <2>1, RentInvInit, RentInvBounds, PTL DEF Scale!ScaleSpec
<1>2. CASE ~(InstanceTtl > 0)
  <2>1. RentBounded
    BY <1>2 DEF RentBounded, Scale!RentBounded
  <2> QED BY <2>1, PTL
<1> QED BY <1>1, <1>2
-----------------------------------------------------------------------------
(* The routes that share the device                                        *)

Does == {"reply", "relay", "hop", "chat", "completion", "summary", "embedding"}
Decision == [does : Does, need : Nat, background : BOOLEAN, swap : BOOLEAN]
Handlers == {"chat", "completion", "summary", "embedding"}
\* What route may decide for a request of Query: only a relay to the
\* compatibility layer may ask for more than the slots, a handler of an embedded
\* model asks for at least one permit, and a relay that takes the models off the
\* device asks for all of them at the background tier
DecisionOk(j) ==
    /\ j \in Decision
    /\ j.does = "hop" => j.need = CompatPermits /\ ~j.background
    /\ j.does # "hop" => j.need <= Slots
    /\ j.does \in Handlers => j.need > 0
    /\ j.swap => j.does = "relay" /\ j.need = Slots /\ j.background

LEMMA RouteConstants ==
    /\ Slots \in Nat \ {0} /\ CompatPermits \in Nat /\ IsFiniteSet(Worker)
    /\ \A l \in Lanes : Need[l] \in 1..Slots
    /\ Need["threed"] = Slots /\ Need["training"] = Slots
<1>1. Slots \in Nat \ {0} /\ CompatPermits \in Nat /\ IsFiniteSet(Worker)
  BY GatewayAssumption DEF Route!RouteAssumption, Route!IsFiniteSet, IsFiniteSet
<1>2. \A l \in Lanes : Need[l] = IF l \in {"threed", "training"} THEN Slots ELSE 1
  BY DEF Need
<1>3. "threed" \in Lanes /\ "training" \in Lanes
  BY DEF Lanes
<1>4. 1 \in 1..Slots /\ Slots \in 1..Slots
  BY <1>1
<1> QED BY <1>1, <1>2, <1>3, <1>4

LEMMA TiersOfQueries == \A q \in Query : q.tier # "background"
BY DEF Query, Paid

\* The ways a request is decided
LEMMA ReplyOk == DecisionOk(Route!Reply)
BY RouteConstants DEF DecisionOk, Decision, Does, Handlers, Route!Reply

LEMMA RelayOk ==
    ASSUME NEW q \in Query, NEW target, NEW need \in 0..Slots, NEW pinned \in BOOLEAN,
           pinned /\ target \in Route!Swaps => need = Slots
    PROVE  DecisionOk(Route!Relay(q, target, need, pinned))
<1>1. q.tier # "background"
  BY TiersOfQueries
<1> PICK s \in BOOLEAN : s <=> pinned /\ target \in Route!Swaps
  OBVIOUS
<1>2. CASE target \in Configured
  <2>1. Route!Relay(q, target, need, pinned)
          = [does |-> "relay", need |-> need, background |-> pinned, swap |-> s]
    BY <1>1, <1>2 DEF Route!Relay
  <2>2. need \in Nat /\ need <= Slots /\ (s => need = Slots /\ pinned)
    BY RouteConstants
  <2> QED BY <2>1, <2>2 DEF DecisionOk, Decision, Does, Handlers
<1>3. CASE target \notin Configured
  BY <1>3, ReplyOk DEF Route!Relay
<1> QED BY <1>2, <1>3

LEMMA EmbeddedOk ==
    ASSUME NEW q \in Query, NEW handler \in Handlers, NEW n \in 1..Slots
    PROVE  DecisionOk(Route!Embedded(q, handler, n))
BY RouteConstants DEF DecisionOk, Decision, Does, Handlers, Route!Embedded

LEMMA GuardedOk ==
    ASSUME NEW q, NEW methods, NEW auth, NEW j, DecisionOk(j)
    PROVE  DecisionOk(Route!Guarded(q, methods, auth, j))
BY ReplyOk DEF Route!Guarded

\* A row of the tables of workers
RowOk(r) == r.need \in 0..Slots /\ r.pinned \in BOOLEAN
            /\ (r.pinned /\ r.target \in Route!Swaps => r.need = Slots)
LEMMA RowIs ==
    ASSUME NEW m, NEW auth, NEW target, NEW need \in 0..Slots, NEW pinned \in BOOLEAN,
           pinned /\ target \in Route!Swaps => need = Slots
    PROVE  RowOk(Route!Row(m, auth, target, need, pinned))
BY DEF RowOk, Route!Row

LEMMA TabledOk ==
    ASSUME NEW q \in Query, NEW rows, RowOk(rows[q.path])
    PROVE  DecisionOk(Route!Tabled(q, rows))
<1> PICK r : r = rows[q.path] /\ RowOk(r)
  OBVIOUS
<1>1. DecisionOk(Route!Relay(q, r.target, r.need, r.pinned))
  BY RelayOk DEF RowOk
<1> QED BY <1>1, GuardedOk DEF Route!Tabled

LEMMA Needs ==
    /\ \A l \in Lanes : Need[l] \in 0..Slots
    /\ 0 \in 0..Slots /\ 1 \in 0..Slots
BY RouteConstants

LEMMA TablesOk ==
    /\ \A p \in DOMAIN Route!MediaRows : RowOk(Route!MediaRows[p])
    /\ \A p \in DOMAIN Route!WorkerRows : RowOk(Route!WorkerRows[p])
    /\ \A p \in DOMAIN Route!ServiceRows : RowOk(Route!ServiceRows[p])
<1>1. \A m, auth, target : \A l \in Lanes :
        RowOk(Route!Row(m, auth, target, Need[l], FALSE))
  BY Needs, RowIs
<1>2. \A m, auth, target : \A n \in {0, 1} : RowOk(Route!Row(m, auth, target, n, FALSE))
  BY Needs, RowIs
<1>3. \A m, auth : \A target \in {"art", "birefnet", "animation", "liveportrait"} :
        \A l \in Lanes : RowOk(Route!Row(m, auth, target, Need[l], TRUE))
                         /\ RowOk(Route!Row(m, auth, target, 1, TRUE))
  <2>1. \A target \in {"art", "birefnet", "animation", "liveportrait"} : target \notin Route!Swaps
    BY DEF Route!Swaps
  <2> QED BY <2>1, Needs, RowIs
<1>4. \A m, auth, target : \A l \in {"threed", "training"} :
        RowOk(Route!Row(m, auth, target, Need[l], TRUE))
  <2>1. \A l \in {"threed", "training"} : Need[l] = Slots /\ Slots \in 0..Slots
    BY RouteConstants
  <2> QED BY <2>1, RowIs
<1>5. ASSUME NEW p \in DOMAIN Route!MediaRows PROVE RowOk(Route!MediaRows[p])
  <2>1. p \in {"captions", "loras", "style", "backgrounds", "cutout_jobs",
               "foreground_jobs", "video_jobs"}
    BY <1>5 DEF Route!MediaRows
  <2>2. /\ RowOk(Route!MediaRows["captions"])
        /\ RowOk(Route!MediaRows["loras"])
        /\ RowOk(Route!MediaRows["style"])
        /\ RowOk(Route!MediaRows["backgrounds"])
        /\ RowOk(Route!MediaRows["cutout_jobs"])
        /\ RowOk(Route!MediaRows["foreground_jobs"])
        /\ RowOk(Route!MediaRows["video_jobs"])
    BY <1>1, <1>2, <1>3, <1>4 DEF Route!MediaRows, Lanes
  <2> QED BY <2>1, <2>2
<1>6. ASSUME NEW p \in DOMAIN Route!WorkerRows PROVE RowOk(Route!WorkerRows[p])
  <2>1. p \in {"cutouts", "hair_layers", "depth", "animations", "expressions", "motion",
               "3d", "3d_assets"}
    BY <1>6 DEF Route!WorkerRows
  <2>2. /\ RowOk(Route!WorkerRows["cutouts"])
        /\ RowOk(Route!WorkerRows["hair_layers"])
        /\ RowOk(Route!WorkerRows["depth"])
        /\ RowOk(Route!WorkerRows["animations"])
        /\ RowOk(Route!WorkerRows["expressions"])
        /\ RowOk(Route!WorkerRows["motion"])
        /\ RowOk(Route!WorkerRows["3d"])
        /\ RowOk(Route!WorkerRows["3d_assets"])
    BY <1>1, <1>2, <1>3, <1>4 DEF Route!WorkerRows, Lanes
  <2> QED BY <2>1, <2>2
<1>7. ASSUME NEW p \in DOMAIN Route!ServiceRows PROVE RowOk(Route!ServiceRows[p])
  <2>1. p \in {"music", "speech", "speech_catalog", "transcriptions", "training_status",
               "training_run", "multimodal", "image_worker", "synthesize", "transcribe",
               "forecast", "bulk", "files", "backend"}
    BY <1>7 DEF Route!ServiceRows
  <2>2. /\ RowOk(Route!ServiceRows["music"])
        /\ RowOk(Route!ServiceRows["speech"])
        /\ RowOk(Route!ServiceRows["speech_catalog"])
        /\ RowOk(Route!ServiceRows["transcriptions"])
        /\ RowOk(Route!ServiceRows["training_status"])
        /\ RowOk(Route!ServiceRows["training_run"])
        /\ RowOk(Route!ServiceRows["multimodal"])
        /\ RowOk(Route!ServiceRows["image_worker"])
        /\ RowOk(Route!ServiceRows["synthesize"])
        /\ RowOk(Route!ServiceRows["transcribe"])
        /\ RowOk(Route!ServiceRows["forecast"])
        /\ RowOk(Route!ServiceRows["bulk"])
        /\ RowOk(Route!ServiceRows["files"])
        /\ RowOk(Route!ServiceRows["backend"])
    BY <1>1, <1>2, <1>3, <1>4 DEF Route!ServiceRows, Lanes
  <2> QED BY <2>1, <2>2
<1> QED BY <1>5, <1>6, <1>7
\* The text routes
LEMMA ChatOk == \A q \in Query : DecisionOk(Route!Chat(q))
<1> SUFFICES ASSUME NEW q \in Query PROVE DecisionOk(Route!Chat(q))
  OBVIOUS
<1>0. "llm" \in Lanes /\ "multimodal" \in Lanes
  BY DEF Lanes
<1>1. \A target : DecisionOk(Route!Relay(q, target, Need["multimodal"], FALSE))
  BY <1>0, Needs, RelayOk
<1>2. \A target : DecisionOk(Route!Relay(q, target, Need["llm"], FALSE))
  BY <1>0, Needs, RelayOk
<1>3. DecisionOk(Route!Embedded(q, "chat", Need["llm"]))
  BY <1>0, RouteConstants, EmbeddedOk DEF Handlers
<1>4. ASSUME "aux" \in Configured
      PROVE  DecisionOk([Route!Relay(q, "aux", CompatPermits, FALSE) EXCEPT !.does = "hop"])
  <2>1. q.tier # "background"
    BY TiersOfQueries
  <2> PICK r : r = Route!Relay(q, "aux", CompatPermits, FALSE)
    OBVIOUS
  <2>2. r \in Decision /\ r.need = CompatPermits /\ r.background = FALSE /\ r.swap = FALSE
    BY <1>4, <2>1, RouteConstants DEF Route!Relay, Route!Swaps, Decision, Does
  <2>3. \A s \in Decision :
          /\ [s EXCEPT !.does = "hop"] \in Decision /\ [s EXCEPT !.does = "hop"].does = "hop"
          /\ [s EXCEPT !.does = "hop"].need = s.need
          /\ [s EXCEPT !.does = "hop"].background = s.background
          /\ [s EXCEPT !.does = "hop"].swap = s.swap
    BY DEF Decision, Does
  <2>4. DecisionOk([r EXCEPT !.does = "hop"])
    <3> PICK h : h = [r EXCEPT !.does = "hop"]
      OBVIOUS
    <3>1. h \in Decision /\ h.does = "hop" /\ h.need = CompatPermits /\ ~h.background /\ ~h.swap
      BY <2>2, <2>3
    <3>2. DecisionOk(h)
      BY <3>1 DEF DecisionOk, Handlers
    <3> QED BY <3>2
  <2> QED BY <2>4
<1> QED BY <1>1, <1>2, <1>3, <1>4 DEF Route!Chat

LEMMA OtherTextOk ==
    \A q \in Query : /\ DecisionOk(Route!Completion(q))
                     /\ DecisionOk(Route!Summary(q)) /\ DecisionOk(Route!Embedding(q))
<1> SUFFICES ASSUME NEW q \in Query
             PROVE  /\ DecisionOk(Route!Completion(q))
                    /\ DecisionOk(Route!Summary(q)) /\ DecisionOk(Route!Embedding(q))
  OBVIOUS
<1>0. "llm" \in Lanes /\ "aux" \in Lanes /\ "embedding" \in Lanes
  BY DEF Lanes
<1>1. \A target : \A l \in Lanes : DecisionOk(Route!Relay(q, target, Need[l], FALSE))
  BY Needs, RelayOk
<1>2. \A h \in Handlers : \A l \in Lanes : DecisionOk(Route!Embedded(q, h, Need[l]))
  BY RouteConstants, EmbeddedOk
<1>3. "completion" \in Handlers /\ "summary" \in Handlers /\ "embedding" \in Handlers
  BY DEF Handlers
<1> QED BY <1>0, <1>1, <1>2, <1>3 DEF Route!Completion, Route!Summary, Route!Embedding

\* The image and the video routes and the list of models
LEMMA ImagesOk ==
    ASSUME NEW q \in Query, q.path \in {"generations", "img2img", "edits", "segmentations"}
    PROVE  DecisionOk(Route!Images(q))
<1>0. "image" \in Lanes
  BY DEF Lanes
<1>1. \A target : DecisionOk(Route!Relay(q, target, Need["image"], FALSE))
                  /\ DecisionOk(Route!Relay(q, target, 1, FALSE))
  BY <1>0, Needs, RelayOk
<1>2. DecisionOk(Route!Sibling(q))
  <2>1. Need["image"] \in Nat /\ Need["image"] <= Slots
    BY <1>0, RouteConstants
  <2> QED BY <2>1, TiersOfQueries DEF Route!Sibling, DecisionOk, Decision, Does, Handlers
<1>3. Route!Diffusion(q) = Route!Sibling(q)
  BY DEF Route!Diffusion
<1>4. CASE q.path = "generations"
  BY <1>1, <1>2, <1>3, <1>4 DEF Route!Images
<1>5. CASE q.path = "img2img"
  BY <1>1, <1>2, <1>3, <1>5 DEF Route!Images
<1>6. CASE q.path = "edits"
  BY <1>1, <1>2, <1>3, <1>6 DEF Route!Images
<1>7. CASE q.path = "segmentations"
  BY <1>1, <1>2, <1>3, <1>7 DEF Route!Images
<1> QED BY <1>4, <1>5, <1>6, <1>7

LEMMA VideoAndModelsOk == \A q \in Query : DecisionOk(Route!Video(q)) /\ DecisionOk(Route!Models(q))
<1> SUFFICES ASSUME NEW q \in Query PROVE DecisionOk(Route!Video(q)) /\ DecisionOk(Route!Models(q))
  OBVIOUS
<1>0. "h3" \in Lanes /\ "image" \in Lanes /\ "aux" \in Lanes
  BY DEF Lanes
<1>1. \A target : \A l \in Lanes : DecisionOk(Route!Relay(q, target, Need[l], FALSE))
  BY Needs, RelayOk
<1>2. DecisionOk(Route!Relay(q, "image", Need["image"], TRUE))
  <2>1. "image" \notin Route!Swaps
    BY DEF Route!Swaps
  <2> QED BY <1>0, <2>1, Needs, RelayOk
<1> QED BY <1>0, <1>1, <1>2, ReplyOk DEF Route!Video, Route!Models

LEMMA RouteOk == \A q \in Query : DecisionOk(Route!route(q))
<1> SUFFICES ASSUME NEW q \in Query PROVE DecisionOk(Route!route(q))
  OBVIOUS
<1> DEFINE text == {"chat", "completions", "autocomplete", "summarization", "embeddings"}
           image == {"generations", "img2img", "edits", "segmentations"}
           media == {"captions", "loras", "style", "backgrounds", "cutout_jobs",
                     "foreground_jobs", "video_jobs"}
           work == {"cutouts", "hair_layers", "depth", "animations", "expressions", "motion",
                    "3d", "3d_assets"}
           service == {"music", "speech", "speech_catalog", "transcriptions",
                       "training_status", "training_run", "multimodal", "image_worker",
                       "synthesize", "transcribe", "forecast", "bulk", "files", "backend"}
<1>1. /\ DOMAIN Route!MediaRows = media
      /\ DOMAIN Route!WorkerRows = work
      /\ DOMAIN Route!ServiceRows = service
  BY Zenon DEF Route!MediaRows, Route!WorkerRows, Route!ServiceRows
<1>2. CASE q.path \in text
  <2>1. \A j : DecisionOk(j) => DecisionOk(Route!Guarded(q, {"POST"}, "user", j))
    BY GuardedOk
  <2>2. Route!route(q) = Route!TextRoute(q)
    BY <1>1, <1>2 DEF Route!route
  <2>3. CASE q.path = "chat"
    BY <2>1, <2>2, <2>3, ChatOk DEF Route!TextRoute
  <2>4. CASE q.path \in {"completions", "autocomplete"}
    BY <2>1, <2>2, <2>4, OtherTextOk DEF Route!TextRoute
  <2>5. CASE q.path = "summarization"
    BY <2>1, <2>2, <2>5, OtherTextOk DEF Route!TextRoute
  <2>6. CASE q.path = "embeddings"
    BY <2>1, <2>2, <2>6, OtherTextOk DEF Route!TextRoute
  <2> QED BY <1>2, <2>3, <2>4, <2>5, <2>6
<1>3. CASE q.path \in image
  <2>1. Route!route(q) = Route!ImageRoute(q)
    BY <1>1, <1>3 DEF Route!route
  <2> QED BY <1>3, <2>1, ImagesOk, GuardedOk DEF Route!ImageRoute
<1>4. CASE q.path = "models"
  <2>1. Route!route(q) = Route!Guarded(q, {"GET"}, "none", Route!Models(q))
    BY <1>1, <1>4 DEF Route!route
  <2> QED BY <2>1, VideoAndModelsOk, GuardedOk
<1>5. CASE q.path = "video"
  <2>1. Route!route(q) = Route!Guarded(q, {"POST"}, "user", Route!Video(q))
    BY <1>1, <1>5 DEF Route!route
  <2> QED BY <2>1, VideoAndModelsOk, GuardedOk
<1>6. CASE q.path \in media
  <2>1. Route!route(q) = Route!Tabled(q, Route!MediaRows)
    BY <1>1, <1>6 DEF Route!route
  <2> QED BY <1>1, <1>6, <2>1, TablesOk, TabledOk
<1>7. CASE q.path \in work
  <2>1. Route!route(q) = Route!Tabled(q, Route!WorkerRows)
    BY <1>1, <1>7 DEF Route!route
  <2> QED BY <1>1, <1>7, <2>1, TablesOk, TabledOk
<1>8. CASE q.path \in service
  <2>1. Route!route(q) = Route!Tabled(q, Route!ServiceRows)
    BY <1>1, <1>8 DEF Route!route
  <2> QED BY <1>1, <1>8, <2>1, TablesOk, TabledOk
<1>9. CASE q.path \notin text \cup image \cup media \cup work \cup service \cup {"models", "video"}
  <2>1. Route!route(q) = Route!Reply
    BY <1>1, <1>9 DEF Route!route
  <2> QED BY <2>1, ReplyOk
<1> QED BY <1>2, <1>3, <1>4, <1>5, <1>6, <1>7, <1>8, <1>9
\* The scheduler seen from its callers: one that holds all the permits is the
\* only one that holds any
RoutePlace == {"idle", "queued", "answer", "unload", "relay", "reload", "release", "hop"} \cup Handlers
Outside == {"idle", "queued", "answer"}
RouteTypes ==
    /\ permits \in [Worker -> 0..Slots]
    /\ at \in [Worker -> RoutePlace]
    /\ loaded \subseteq Route!Model /\ lost \subseteq Route!Model
    /\ job \in [Worker -> Decision] /\ \A w \in Worker : DecisionOk(job[w])
Exclusion == \A u, w \in Worker : u # w /\ permits[u] = Slots => permits[w] = 0
\* What a worker holds, by where it is
RouteHolds(w) ==
    /\ at[w] \in Outside => permits[w] = 0
    /\ at[w] \notin Outside => permits[w] = job[w].need
    /\ at[w] = "queued" => job[w].need > 0 /\ job[w].does # "reply"
    /\ at[w] \in Handlers \cup {"hop"} => at[w] = job[w].does
    /\ at[w] \in {"unload", "reload"} => job[w].swap
\* The embedded models are off the device, or on their way back
Away(w) == at[w] \in {"relay", "reload"} /\ job[w].swap
RouteInv ==
    /\ RouteTypes /\ Exclusion
    /\ \A w \in Worker : RouteHolds(w)
    /\ (\A w \in Worker : ~Away(w)) => loaded \cup lost = Route!Model

LEMMA OutIs ==
    ASSUME permits \in [Worker -> 0..Slots]
    PROVE  /\ IsFiniteSet(Route!Adm!Out) /\ Cardinality(Route!Adm!Out) \in Nat
           /\ \A u \in Worker : permits[u] = Slots => Cardinality(Route!Adm!Out) >= Slots
           /\ (\E u \in Worker : permits[u] > 0) <=> Route!Adm!Out # {}
<1>1. IsFiniteSet(1..Slots) /\ Cardinality(1..Slots) = Slots
  BY RouteConstants, FS_Interval
<1>2. IsFiniteSet(Worker \X (1..Slots))
  BY <1>1, RouteConstants, FS_Product
<1>3. Route!Adm!Out \subseteq Worker \X (1..Slots)
  BY DEF Route!Adm!Out
<1>4. IsFiniteSet(Route!Adm!Out) /\ Cardinality(Route!Adm!Out) \in Nat
  BY <1>2, <1>3, FS_Subset, FS_CardinalityType
<1>5. ASSUME NEW u \in Worker, permits[u] = Slots PROVE Cardinality(Route!Adm!Out) >= Slots
  <2>1. {u} \X (1..Slots) \subseteq Route!Adm!Out
    BY <1>5, RouteConstants DEF Route!Adm!Out
  <2>2. IsFiniteSet({u}) /\ Cardinality({u}) = 1
    BY FS_Singleton
  <2> PICK U, S : U = {u} /\ S = 1..Slots
    OBVIOUS
  <2>a. Cardinality(U \X S) = Cardinality(U) * Cardinality(S)
    BY <1>1, <2>2, FS_Product
  <2>3. Cardinality({u} \X (1..Slots)) = Slots
    BY <1>1, <2>2, <2>a, RouteConstants
  <2>4. Cardinality({u} \X (1..Slots)) <= Cardinality(Route!Adm!Out)
    BY <1>4, <2>1, FS_Subset
  <2> QED BY <1>4, <2>3, <2>4, RouteConstants
<1>6. ASSUME NEW u \in Worker, permits[u] > 0 PROVE <<u, 1>> \in Route!Adm!Out
  BY <1>6, RouteConstants DEF Route!Adm!Out
<1>7. ASSUME NEW o \in Route!Adm!Out PROVE \E u \in Worker : permits[u] > 0
  BY <1>7, RouteConstants DEF Route!Adm!Out
<1> QED BY <1>4, <1>5, <1>6, <1>7

\* A grant keeps the exclusion
LEMMA GrantKeeps ==
    ASSUME permits \in [Worker -> 0..Slots], Exclusion,
           NEW w \in Worker, permits[w] = 0, NEW n \in Nat \ {0}, NEW e \in BOOLEAN,
           e => n <= Slots, Route!Adm!Fits(n, e), Route!Adm!Give(w, n, e)
    PROVE  permits' \in [Worker -> 0..Slots] /\ Exclusion'
           /\ permits' = [permits EXCEPT ![w] = n]
<1>0. Slots \in Nat \ {0}
  BY RouteConstants
<1>1. permits' = [permits EXCEPT ![w] = n]
  BY DEF Route!Adm!Give
<1>2. CASE e
  <2>1. \A c \in Worker : permits[c] = 0
    BY <1>2 DEF Route!Adm!Fits
  <2>2. permits' \in [Worker -> 0..Slots]
    BY <1>0, <1>1, <1>2
  <2>3. Exclusion'
    BY <1>0, <1>1, <2>1 DEF Exclusion
  <2> QED BY <1>1, <2>2, <2>3
<1>3. CASE ~e
  <2> PICK c : c = Cardinality(Route!Adm!Out)
    OBVIOUS
  <2>1. c \in Nat /\ c + n <= Slots
    BY <1>3, OutIs DEF Route!Adm!Fits, Route!Cardinality, Route!Adm!Cardinality, Cardinality
  <2>2. \A u \in Worker : permits[u] # Slots
    BY <1>0, <2>1, OutIs
  <2>3. n <= Slots /\ (n = Slots => c = 0)
    BY <1>0, <2>1
  <2>4. c = 0 => \A u \in Worker : permits[u] = 0
    <3>1. ASSUME c = 0 PROVE Route!Adm!Out = {}
      BY <3>1, OutIs, FS_EmptySet
    <3> QED BY <3>1, OutIs, <1>0
  <2>5. permits' \in [Worker -> 0..Slots]
    BY <1>0, <1>1, <2>3
  <2>6. Exclusion'
    BY <1>0, <1>1, <2>2, <2>3, <2>4 DEF Exclusion
  <2> QED BY <1>1, <2>5, <2>6
<1> QED BY <1>2, <1>3

LEMMA RouteInvInit == Route!RouteInit => RouteInv
<1> SUFFICES ASSUME Route!RouteInit PROVE RouteInv
  OBVIOUS
<1>1. RouteTypes
  <2>1. Route!Reply \in Decision /\ DecisionOk(Route!Reply) /\ 0 \in 0..Slots /\ "idle" \in RoutePlace
    BY ReplyOk, RouteConstants DEF DecisionOk, RoutePlace
  <2> HIDE DEF Decision
  <2> QED BY <2>1 DEF Route!RouteInit, Route!Adm!AdmissionInit, RouteTypes
<1>2. Exclusion
  BY RouteConstants DEF Route!RouteInit, Route!Adm!AdmissionInit, Exclusion
<1>3. \A w \in Worker : RouteHolds(w)
  BY DEF Route!RouteInit, Route!Adm!AdmissionInit, RouteHolds, Outside, Handlers
<1>4. loaded \cup lost = Route!Model
  BY DEF Route!RouteInit
<1> QED BY <1>1, <1>2, <1>3, <1>4 DEF RouteInv
\* A worker that has taken a request up, and was admitted or not
LEMMA Settles ==
    ASSUME RouteInv, NEW w \in Worker, at[w] \in {"idle", "queued"}, NEW j, DecisionOk(j),
           NEW place, at' = [at EXCEPT ![w] = place],
           job' = [job EXCEPT ![w] = j], UNCHANGED <<loaded, lost>>,
           permits' \in [Worker -> 0..Slots], Exclusion',
           \/ place = "answer" /\ permits' = permits
           \/ place = "queued" /\ j.need > 0 /\ j.does # "reply" /\ permits' = permits
           \/ place = Route!Admitted(j) /\ j.does # "reply" /\ permits' = [permits EXCEPT ![w] = j.need]
    PROVE  RouteInv'
<1>0. permits[w] = 0 /\ RouteTypes
  BY DEF RouteInv, RouteHolds, Outside
<1>1. place \in RoutePlace
  BY DEF Route!Admitted, RoutePlace, Handlers, DecisionOk, Decision, Does
<1>2. /\ at' \in [Worker -> RoutePlace] /\ job' \in [Worker -> Decision]
      /\ \A v \in Worker : DecisionOk(job'[v])
  <2>1. j \in Decision
    BY DEF DecisionOk
  <2> HIDE DEF Decision
  <2> QED BY <1>0, <1>1, <2>1 DEF RouteTypes
<1>3. RouteTypes'
  BY <1>0, <1>2 DEF RouteTypes, DecisionOk
<1>4. ASSUME NEW v \in Worker PROVE RouteHolds(v)'
  <2>1. CASE v # w
    <3>1. at'[v] = at[v] /\ job'[v] = job[v] /\ permits'[v] = permits[v]
      BY <1>0, <1>4, <2>1 DEF RouteTypes
    <3> QED BY <1>4, <3>1 DEF RouteInv, RouteHolds
  <2>2. CASE v = w
    <3>1. at'[w] = place /\ job'[w] = j
      BY <1>0 DEF RouteTypes
    <3>2. CASE place \in {"answer", "queued"}
      <4>1. permits'[w] = 0 /\ (place = "queued" => j.need > 0 /\ j.does # "reply")
        BY <1>0, <3>2 DEF Route!Admitted, RouteTypes, DecisionOk, Decision, Does
      <4> QED BY <2>2, <3>1, <3>2, <4>1 DEF RouteHolds, Outside, Handlers
    <3>3. CASE place \notin {"answer", "queued"}
      <4>1. permits'[w] = j.need /\ place = Route!Admitted(j) /\ j.does # "reply"
        BY <1>0, <3>3 DEF RouteTypes
      <4>2. place \notin Outside /\ (place \in Handlers \cup {"hop"} => place = j.does)
            /\ (place \in {"unload", "reload"} => j.swap)
        BY <4>1 DEF Route!Admitted, Outside, Handlers, DecisionOk, Decision, Does
      <4> QED BY <2>2, <3>1, <3>3, <4>1, <4>2 DEF RouteHolds, Outside
    <3> QED BY <3>2, <3>3
  <2> QED BY <2>1, <2>2
<1>5. ASSUME \A v \in Worker : ~Away(v)' PROVE loaded' \cup lost' = Route!Model
  <2>1. ASSUME NEW v \in Worker PROVE ~Away(v)
    <3>1. CASE v # w
      <4>1. at'[v] = at[v] /\ job'[v] = job[v]
        BY <1>0, <2>1, <3>1 DEF RouteTypes
      <4> QED BY <1>5, <2>1, <4>1 DEF Away
    <3>2. CASE v = w
      BY <3>2 DEF Away
    <3> QED BY <3>1, <3>2
  <2> QED BY <2>1 DEF RouteInv
<1> QED BY <1>3, <1>4, <1>5 DEF RouteInv

\* A worker that moves on with the permits it has, or gives them back
LEMMA Moves ==
    ASSUME RouteInv, NEW w \in Worker, NEW place \in RoutePlace, at' = [at EXCEPT ![w] = place],
           job' = job, loaded' \subseteq Route!Model, lost' \subseteq Route!Model,
           \/ permits' = permits /\ (place \in Outside <=> at[w] \in Outside)
           \/ permits' = [permits EXCEPT ![w] = 0] /\ place = "answer",
           place \notin Handlers \cup {"hop", "queued", "unload"},
           place = "reload" => job[w].swap,
           \/ loaded' \cup lost' = Route!Model
           \/ place = "relay" /\ job[w].swap
           \/ UNCHANGED <<loaded, lost>> /\ (Away(w) => place = "reload")
    PROVE  RouteInv'
<1>0. RouteTypes /\ Exclusion /\ RouteHolds(w)
  BY DEF RouteInv
<1>1. permits' \in [Worker -> 0..Slots] /\ \A v \in Worker : permits'[v] = permits[v] \/ permits'[v] = 0
  BY <1>0, RouteConstants DEF RouteTypes
<1>2. RouteTypes'
  BY <1>0, <1>1 DEF RouteTypes, DecisionOk
<1>3. Exclusion'
  BY <1>0, <1>1, RouteConstants DEF Exclusion
<1>4. ASSUME NEW v \in Worker PROVE RouteHolds(v)'
  <2>1. CASE v # w
    <3>1. at'[v] = at[v] /\ permits'[v] = permits[v]
      BY <1>0, <1>4, <2>1 DEF RouteTypes
    <3> QED BY <1>4, <3>1 DEF RouteInv, RouteHolds
  <2>2. CASE v = w
    <3>1. at'[w] = place /\ (place \in Outside => permits'[w] = 0)
          /\ (place \notin Outside => permits'[w] = job[w].need)
      BY <1>0 DEF RouteTypes, RouteHolds, Outside
    <3> QED BY <2>2, <3>1 DEF RouteHolds, Outside
  <2> QED BY <2>1, <2>2
<1>5. ASSUME \A v \in Worker : ~Away(v)' PROVE loaded' \cup lost' = Route!Model
  <2>0. at'[w] = place
    BY <1>0 DEF RouteTypes
  <2>1. CASE UNCHANGED <<loaded, lost>> /\ (Away(w) => place = "reload")
    <3>1. ASSUME NEW v \in Worker PROVE ~Away(v)
      <4>1. CASE v # w
        <5>1. at'[v] = at[v]
          BY <1>0, <3>1, <4>1 DEF RouteTypes
        <5> QED BY <1>5, <3>1, <5>1 DEF Away
      <4>2. CASE v = w
        BY <1>5, <2>0, <2>1, <4>2 DEF Away
      <4> QED BY <4>1, <4>2
    <3> QED BY <2>1, <3>1 DEF RouteInv
  <2>2. CASE place = "relay" /\ job[w].swap
    BY <1>5, <2>0, <2>2 DEF Away
  <2> QED BY <2>1, <2>2
<1> QED BY <1>2, <1>3, <1>4, <1>5 DEF RouteInv

LEMMA TakeKeeps ==
    ASSUME RouteInv, NEW w \in Worker, NEW q \in Query, at[w] = "idle", Route!Take(w, q),
           UNCHANGED <<loaded, lost>>
    PROVE  RouteInv'
<1>0. RouteTypes /\ Exclusion /\ permits[w] = 0
  BY DEF RouteInv, RouteHolds, Outside
<1> PICK j : j = Route!route(q) /\ DecisionOk(j)
  BY RouteOk
<1>1. job' = [job EXCEPT ![w] = j]
  BY DEF Route!Take
<1>2. ASSUME permits' = permits PROVE permits' \in [Worker -> 0..Slots] /\ Exclusion'
  BY <1>0, <1>2 DEF RouteTypes, Exclusion
<1>3. CASE Route!GoTo(w, "answer") /\ UNCHANGED Route!sched
  BY <1>0, <1>1, <1>2, <1>3, Settles DEF Route!GoTo, Route!sched
<1>4. CASE ~Route!Refused(j) /\ j.need = 0 /\ Route!GoTo(w, Route!Admitted(j)) /\ UNCHANGED Route!sched
  <2>1. permits' = [permits EXCEPT ![w] = j.need]
    BY <1>0, <1>4 DEF RouteTypes, Route!sched
  <2> QED BY <1>0, <1>1, <1>2, <1>4, <2>1, Settles DEF Route!GoTo, Route!sched, Route!Refused
<1>5. CASE ~Route!Refused(j) /\ j.need # 0 /\ Route!Adm!TryGrant(w, j.need, j.background)
           /\ Route!GoTo(w, Route!Admitted(j))
  <2>1. j.need \in Nat \ {0} /\ j.background \in BOOLEAN /\ (j.background => j.need <= Slots)
    BY <1>5 DEF DecisionOk, Decision
  <2>2. permits' \in [Worker -> 0..Slots] /\ Exclusion' /\ permits' = [permits EXCEPT ![w] = j.need]
    BY <1>0, <1>5, <2>1, GrantKeeps DEF Route!Adm!TryGrant, RouteTypes
  <2> QED BY <1>1, <1>5, <2>2, Settles DEF Route!GoTo, Route!Refused
<1>6. CASE ~Route!Refused(j) /\ j.need # 0 /\ Route!Adm!Enqueue(w, j.need, j.background) /\ Route!GoTo(w, "queued")
  <2>1. j.need > 0
    BY <1>6 DEF DecisionOk, Decision
  <2> QED BY <1>0, <1>1, <1>2, <1>6, <2>1, Settles
          DEF Route!GoTo, Route!Adm!Enqueue, Route!Refused
<1> QED BY <1>3, <1>4, <1>5, <1>6 DEF Route!Take
LEMMA RouteInvNext == RouteInv /\ [Route!RouteNext]_(Route!routeVars) => RouteInv'
<1> SUFFICES ASSUME RouteInv, [Route!RouteNext]_(Route!routeVars) PROVE RouteInv'
  OBVIOUS
<1>0. RouteTypes /\ Exclusion /\ \A w \in Worker : RouteHolds(w) /\ DecisionOk(job[w])
  BY DEF RouteInv, RouteTypes
<1>1. CASE UNCHANGED Route!routeVars
  <2>1. UNCHANGED <<permits, at, job, loaded, lost>>
    BY <1>1 DEF Route!routeVars, Route!sched
  <2>2. RouteTypes' /\ Exclusion' /\ \A w \in Worker : RouteHolds(w)'
    BY <1>0, <2>1 DEF RouteTypes, Exclusion, RouteHolds, DecisionOk
  <2> QED BY <2>1, <2>2 DEF RouteInv, Away
<1>2. ASSUME NEW w \in Worker, NEW q \in Query, Route!Arrive(w, q) PROVE RouteInv'
  BY <1>2, TakeKeeps DEF Route!Arrive
<1>3. ASSUME NEW w \in Worker, NEW v \in Worker, NEW q \in Query, Route!ArriveInner(w, v, q)
      PROVE  RouteInv'
  BY <1>3, TakeKeeps DEF Route!ArriveInner
<1>4. ASSUME NEW w \in Worker, Route!Admit(w) PROVE RouteInv'
  <2> PICK j : j = job[w]
    OBVIOUS
  <2>1. at[w] = "queued" /\ permits[w] = 0 /\ j.need > 0 /\ DecisionOk(j) /\ job' = [job EXCEPT ![w] = j]
    BY <1>0, <1>4 DEF Route!Admit, RouteHolds, Outside, RouteTypes
  <2>2. j.need \in Nat \ {0} /\ j.background \in BOOLEAN /\ (j.background => j.need <= Slots)
    BY <2>1 DEF DecisionOk, Decision
  <2>3. permits' \in [Worker -> 0..Slots] /\ Exclusion' /\ permits' = [permits EXCEPT ![w] = j.need]
    BY <1>0, <1>4, <2>1, <2>2, GrantKeeps DEF Route!Admit, Route!Adm!Grant, RouteTypes
  <2>4. j.does # "reply"
    BY <1>0, <1>4, <2>1 DEF Route!Admit, RouteHolds
  <2> QED BY <1>4, <2>1, <2>3, <2>4, Settles DEF Route!Admit, Route!GoTo
<1>5. ASSUME NEW w \in Worker, Route!GiveUp(w) PROVE RouteInv'
  <2>1. "answer" \in RoutePlace
    BY DEF RoutePlace
  <2> QED BY <1>5, <2>1, Moves
          DEF Route!GiveUp, Route!GoTo, Route!Adm!Expire, Outside, Handlers, RouteInv, RouteTypes, Away
<1>6. ASSUME NEW w \in Worker, Route!unload_embedded_models_for_background(w) PROVE RouteInv'
  <2>1. "relay" \in RoutePlace /\ job[w].swap
    BY <1>0, <1>6 DEF RoutePlace, RouteHolds, Route!unload_embedded_models_for_background
  <2> QED BY <1>6, <2>1, Moves
          DEF Route!unload_embedded_models_for_background, Route!GoTo, Route!sched, Outside,
              Handlers, RouteInv, RouteTypes
<1>7. ASSUME NEW w \in Worker, Route!Relayed(w) PROVE RouteInv'
  <2>1. "reload" \in RoutePlace /\ "release" \in RoutePlace
    BY DEF RoutePlace
  <2>2. CASE job[w].swap
    BY <1>7, <2>1, <2>2, Moves
       DEF Route!Relayed, Route!GoTo, Route!sched, Outside, Handlers, RouteInv, RouteTypes
  <2>3. CASE ~job[w].swap
    BY <1>7, <2>1, <2>3, Moves
       DEF Route!Relayed, Route!GoTo, Route!sched, Outside, Handlers, RouteInv, RouteTypes, Away
  <2> QED BY <2>2, <2>3
<1>8. ASSUME NEW w \in Worker, Route!reload_embedded_models_after_background(w) PROVE RouteInv'
  <2>1. "release" \in RoutePlace
    BY DEF RoutePlace
  <2>2. loaded' \subseteq Route!Model /\ lost' \subseteq Route!Model /\ loaded' \cup lost' = Route!Model
    BY <1>0, <1>8 DEF Route!reload_embedded_models_after_background, RouteTypes
  <2> QED BY <1>8, <2>1, <2>2, Moves
          DEF Route!reload_embedded_models_after_background, Route!GoTo, Route!sched, Outside, Handlers
<1>9. ASSUME NEW w \in Worker, NEW h \in Handlers \cup {"hop"}, at[w] = h,
             Route!GoTo(w, "release"), UNCHANGED <<permits, job, loaded, lost>>
      PROVE  RouteInv'
  <2>1. "release" \in RoutePlace
    BY DEF RoutePlace
  <2> QED BY <1>9, <2>1, Moves DEF Route!GoTo, Outside, Handlers, RouteInv, RouteTypes, Away
<1>10. ASSUME NEW w \in Worker,
              \/ Route!handle_chat(w) \/ Route!handle_completion(w)
              \/ Route!handle_summarization(w) \/ Route!handle_embedding(w) \/ Route!Hopped(w)
       PROVE  RouteInv'
  BY <1>9, <1>10 DEF Route!handle_chat, Route!handle_completion, Route!handle_summarization,
     Route!handle_embedding, Route!Generated, Route!Hopped, Route!sched, Handlers
<1>11. ASSUME NEW w \in Worker, Route!GiveBack(w) PROVE RouteInv'
  <2>1. "answer" \in RoutePlace
    BY DEF RoutePlace
  <2>2. permits[w] = job[w].need /\ job[w].need \in Nat
    BY <1>0, <1>11 DEF Route!GiveBack, RouteHolds, Outside, DecisionOk, Decision
  <2>3. permits' = [permits EXCEPT ![w] = 0]
    BY <1>0, <1>11, <2>2 DEF Route!GiveBack, Route!Adm!Return, Route!sched, RouteTypes
  <2> QED BY <1>11, <2>1, <2>3, Moves
          DEF Route!GiveBack, Route!GoTo, Outside, Handlers, RouteInv, RouteTypes, Away
<1>12. ASSUME NEW w \in Worker, Route!Answer(w) PROVE RouteInv'
  <2>1. at[w] = "answer" /\ at' = [at EXCEPT ![w] = "idle"] /\ job' = [job EXCEPT ![w] = Route!Reply]
        /\ UNCHANGED <<permits, loaded, lost>>
    BY <1>12 DEF Route!Answer, Route!GoTo, Route!sched
  <2>2. RouteTypes'
    BY <1>0, <2>1, ReplyOk DEF RouteTypes, DecisionOk, RoutePlace
  <2>3. Exclusion'
    BY <1>0, <2>1 DEF Exclusion
  <2>4. ASSUME NEW v \in Worker PROVE RouteHolds(v)' /\ (Away(v) => Away(v)')
    <3>1. CASE v # w
      <4>1. at'[v] = at[v] /\ job'[v] = job[v] /\ permits'[v] = permits[v]
        BY <1>0, <2>1, <2>4, <3>1 DEF RouteTypes
      <4> QED BY <1>0, <2>4, <4>1 DEF RouteHolds, Away
    <3>2. CASE v = w
      BY <1>0, <2>1, <3>2 DEF RouteHolds, Away, RouteTypes, Outside, Handlers
    <3> QED BY <3>1, <3>2
  <2> QED BY <2>1, <2>2, <2>3, <2>4 DEF RouteInv
<1> QED BY <1>1, <1>2, <1>3, <1>4, <1>5, <1>6, <1>7, <1>8, <1>10, <1>11, <1>12 DEF Route!RouteNext

\* An admitted request finds the embedded model it uses, unless its last load
\* failed: a relay that takes the models off the device holds all the permits
\* until they are back, so that nobody else is admitted meanwhile
\* (handle_proxy_as_tier and its release order in main.c).
THEOREM ModelsAreFound == Route!RouteSpec => []AdmittedFindsModel
<1>1. RouteInv => AdmittedFindsModel
  <2> SUFFICES ASSUME RouteInv, NEW w \in Worker, at[w] \in DOMAIN Route!Uses
               PROVE  Route!Uses[at[w]] \in loaded \cup lost
    BY DEF AdmittedFindsModel, Route!AdmittedFindsModel
  <2>1. at[w] \in Handlers /\ Route!Uses[at[w]] \in Route!Model
    BY DEF Route!Uses, Handlers, Route!Model
  <2>2. permits[w] > 0
    BY <2>1 DEF RouteInv, RouteHolds, RouteTypes, Handlers, Outside, DecisionOk
  <2>3. ASSUME NEW u \in Worker, Away(u) PROVE FALSE
    <3>1. u # w /\ permits[u] = Slots
      BY <2>1, <2>3 DEF Away, Handlers, RouteInv, RouteHolds, RouteTypes, Outside, DecisionOk
    <3> QED BY <2>2, <3>1 DEF RouteInv, Exclusion
  <2> QED BY <2>1, <2>3 DEF RouteInv
<1> QED BY <1>1, RouteInvInit, RouteInvNext, PTL DEF Route!RouteSpec

\* When the relay to the compatibility layer holds no permits, as main.c (3941)
\* advises, a request that this gateway relayed to itself never waits for permits
\* that only such relays could give back
THEOREM HopsNeverDeadlock == CompatPermits = 0 => (Route!RouteSpec => []HopNeverWaitsForHops)
<1> SUFFICES ASSUME CompatPermits = 0 PROVE Route!RouteSpec => []HopNeverWaitsForHops
  OBVIOUS
<1>1. RouteInv => HopNeverWaitsForHops
  <2> SUFFICES ASSUME RouteInv, NEW w \in Worker, at[w] = "queued",
                      ~Route!Adm!Fits(job[w].need, job[w].background)
               PROVE  \E u \in Worker : permits[u] > 0 /\ at[u] # "hop"
    BY DEF HopNeverWaitsForHops, Route!HopNeverWaitsForHops
  <2>0. permits \in [Worker -> 0..Slots]
    BY DEF RouteInv, RouteTypes
  <2> PICK n, e : n = job[w].need /\ e = job[w].background
    OBVIOUS
  <2>1. n \in Nat /\ n <= Slots /\ e \in BOOLEAN
    BY RouteConstants DEF RouteInv, RouteTypes, DecisionOk, Decision
  <2>2. \E u \in Worker : permits[u] > 0
    <3>1. CASE e
      BY <2>0, <3>1, RouteConstants DEF Route!Adm!Fits
    <3>2. CASE ~e
      <4>1. ~(Cardinality(Route!Adm!Out) + n <= Slots)
        BY <3>2 DEF Route!Adm!Fits, Route!Adm!Cardinality, Cardinality
      <4>2. Cardinality(Route!Adm!Out) # 0
        BY <2>1, <4>1, RouteConstants
      <4>3. Route!Adm!Out # {}
        BY <4>2, FS_EmptySet
      <4> QED BY <2>0, <4>3, OutIs
    <3> QED BY <2>1, <3>1, <3>2
  <2>3. \A u \in Worker : permits[u] > 0 => at[u] # "hop"
    BY DEF RouteInv, RouteHolds, RouteTypes, Handlers, Outside, DecisionOk
  <2> QED BY <2>2, <2>3
<1> QED BY <1>1, RouteInvInit, RouteInvNext, PTL DEF Route!RouteSpec
-----------------------------------------------------------------------------
(* The access log.  Positions in the ring are counted without end; the      *)
(* cursors are their remainders.                                            *)

LEMMA ModRange ==
    ASSUME NEW a \in Int, NEW n \in Nat \ {0}
    PROVE  a % n \in 0 .. n - 1 /\ a = n * (a \div n) + (a % n) /\ (a \div n) \in Int
OBVIOUS

LEMMA ModUnique ==
    ASSUME NEW n \in Nat \ {0}, NEW q \in Int, NEW r \in 0 .. n - 1
    PROVE  (n * q + r) % n = r
<1> PICK a \in Int : a = n * q + r
  OBVIOUS
<1> PICK p \in Int, s \in 0 .. n - 1 : p = a \div n /\ s = a % n /\ a = n * p + s
  BY ModRange
<1>1. n * (q - p) = s - r
  OBVIOUS
<1>2. CASE q - p >= 1
  <2>1. n * (q - p) >= n
    BY <1>2
  <2> QED BY <1>1, <2>1
<1>3. CASE q - p <= -1
  <2>1. n * (q - p) <= -n
    BY <1>3
  <2> QED BY <1>1, <2>1
<1>4. CASE q = p
  BY <1>1, <1>4
<1> QED BY <1>2, <1>3, <1>4

\* Positions less than n apart have different remainders
LEMMA ModClose ==
    ASSUME NEW a \in Int, NEW b \in Int, NEW n \in Nat \ {0}, a <= b, b - a < n, a % n = b % n
    PROVE  a = b
<1> PICK p \in Int, r \in 0 .. n - 1 : a = n * p + r /\ r = a % n
  BY ModRange
<1> PICK q \in Int : b = n * q + r
  BY ModRange
<1>1. b - a = n * (q - p)
  OBVIOUS
<1>2. CASE q - p >= 1
  <2>1. n * (q - p) >= n
    BY <1>2
  <2> QED BY <1>1, <2>1
<1>3. CASE q - p <= -1
  <2>1. n * (q - p) <= -n
    BY <1>3
  <2> QED BY <1>1, <2>1
<1>4. CASE q = p
  BY <1>1, <1>4
<1> QED BY <1>2, <1>3, <1>4

\* A cursor is moved on as its position is
LEMMA ModAdd ==
    ASSUME NEW a \in Int, NEW m \in Int, NEW n \in Nat \ {0}
    PROVE  ((a % n) + m) % n = (a + m) % n
<1> PICK p \in Int, r \in 0 .. n - 1 : a = n * p + r /\ r = a % n
  BY ModRange
<1> PICK b \in Int : b = r + m
  OBVIOUS
<1> PICK q \in Int, s \in 0 .. n - 1 : b = n * q + s /\ s = b % n
  BY ModRange
<1>1. a + m = n * (p + q) + s
  <2> PICK x \in Int, y \in Int : x = n * p /\ y = n * q
    OBVIOUS
  <2>1. n * (p + q) = x + y
    OBVIOUS
  <2>2. a = x + r /\ r + m = y + s
    OBVIOUS
  <2>3. a + m = (x + y) + s
    BY <2>2
  <2> QED BY <2>1, <2>3
<1>2. p + q \in Int
  OBVIOUS
<1>3. (n * (p + q) + s) % n = s
  BY <1>2, ModUnique
<1> QED BY <1>1, <1>3

LEMMA ModLap ==
    ASSUME NEW a \in Int, NEW n \in Nat \ {0}
    PROVE  (a + n) % n = a % n
<1> PICK p \in Int, r \in 0 .. n - 1 : a = n * p + r /\ r = a % n
  BY ModRange
<1>1. a + n = n * (p + 1) + r /\ p + 1 \in Int
  OBVIOUS
<1> QED BY <1>1, ModUnique

\* The slot of a cursor is the slot of its position
LEMMA ModMod ==
    ASSUME NEW a \in Int, NEW w \in Nat \ {0}, NEW n \in Nat \ {0}, w % n = 0
    PROVE  (a % w) % n = a % n
<1> PICK p \in Int, r \in 0 .. w - 1 : a = w * p + r /\ r = a % w
  BY ModRange
<1> PICK d \in Int : w = n * d
  <2> PICK d \in Int : d = w \div n /\ w = n * d + (w % n)
    <3>1. w \in Int
      OBVIOUS
    <3> QED BY <3>1, ModRange
  <2>1. n * d \in Int
    OBVIOUS
  <2>2. w = n * d
    BY <2>1
  <2> QED BY <2>2
<1> PICK q \in Int, s \in 0 .. n - 1 : r = n * q + s /\ s = r % n
  <2>1. r \in Int
    OBVIOUS
  <2> QED BY <2>1, ModRange
<1> PICK x \in Int : x = d * p
  OBVIOUS
<1>1. a = n * (x + q) + s
  <2>1. w * p = n * x
    <3>1. \A u, v, z \in Int : (u * v) * z = u * (v * z)
      OBVIOUS
    <3>2. n \in Int
      OBVIOUS
    <3> QED BY <3>1, <3>2
  <2> PICK e \in Int, g \in Int : e = n * x /\ g = n * q
    OBVIOUS
  <2>2. n * (x + q) = e + g
    OBVIOUS
  <2>3. a = e + r /\ r = g + s
    BY <2>1
  <2>4. a = (e + g) + s
    <3>1. \A u, v, z \in Int : u + (v + z) = (u + v) + z
      OBVIOUS
    <3>2. s \in Int
      OBVIOUS
    <3>3. a = e + (g + s)
      BY <2>3, Zenon
    <3>4. e + (g + s) = (e + g) + s
      BY <3>1, <3>2
    <3> QED BY <3>3, <3>4, Zenon
  <2> QED BY <2>2, <2>4
<1>2. x + q \in Int
  OBVIOUS
<1>3. (n * (x + q) + s) % n = s
  BY <1>2, ModUnique
<1> QED BY <1>1, <1>3

\* The lines that have left the ring
Popped == emitted + Len(batch) + (IF dpc = "add" THEN 1 ELSE 0)
Writing == {"fill", "publish"}
Pending == {p \in Producer : ppc[p] \in {"look", "cas"}}

RingSlot == 0 .. RingSlots - 1
Cursor == 0 .. Wrap - 1
\* The slot and the cursor of a position
SlotOf(k) == k % RingSlots
CursorOf(k) == k % Wrap
LogTypes ==
    /\ seq \in [RingSlot -> Cursor] /\ line \in [RingSlot -> Nat]
    /\ reserved \in Nat /\ emitted \in Nat /\ batch \in Seq(Nat) /\ dline \in Nat
    /\ requests \in 0 .. MaxRequests
    /\ ppc \in [Producer -> {"idle", "look", "cas"} \cup Writing]
    /\ ppos \in [Producer -> Cursor] /\ pline \in [Producer -> Nat]
    /\ log_fd \in BOOLEAN
    /\ ring_head = CursorOf(reserved) /\ ring_tail = CursorOf(Popped)
\* The ring covers the positions from Popped on; the slot of a position is free for
\* it, or has its line
RingInv ==
    /\ Popped <= reserved /\ reserved <= Popped + RingSlots
    /\ \A k \in Popped .. Popped + RingSlots - 1 :
         \/ seq[SlotOf(k)] = CursorOf(k)
         \/ /\ k < reserved /\ seq[SlotOf(k)] = CursorOf(k + 1)
            /\ line[SlotOf(k)] = k + 1
\* A producer between its reservation and its publication has a position of its own
WriterInv ==
    \A p \in Producer : ppc[p] \in Writing =>
      /\ pline[p] - 1 \in Popped .. reserved - 1
      /\ ppos[p] = CursorOf(pline[p] - 1)
      /\ seq[SlotOf(pline[p] - 1)] = CursorOf(pline[p] - 1)
      /\ ppc[p] = "publish" => line[SlotOf(pline[p] - 1)] = pline[p]
      /\ \A q \in Producer : p # q /\ ppc[q] \in Writing => pline[q] # pline[p]
\* A producer that has not reserved yet saw a head of this run; if nobody reserved
\* since and it found the slot free, there is room
ReserveInv ==
    \E start \in 0 .. reserved :
      /\ reserved + Cardinality(Pending) <= start + requests
      /\ \A p \in Pending : \E h \in start .. reserved :
           /\ ppos[p] = CursorOf(h)
           /\ ppc[p] = "cas" /\ h = reserved => reserved < Popped + RingSlots
\* The lines that were popped are in the batch in their order, without a gap
DrainInv ==
    /\ dpc = "release" => /\ Popped < reserved /\ dline = Popped + 1
                          /\ seq[SlotOf(Popped)] = CursorOf(Popped + 1)
    /\ dpc = "add" => dline = Popped
    /\ \A i \in DOMAIN batch : batch[i] = emitted + i
FileNo == 0 .. Keep - 1
FilesOk(f, e) ==
    /\ f \in [FileNo -> Seq(Nat)]
    /\ \A i \in FileNo : Len(f[i]) <= FileCap /\ Log!Increasing(f[i])
                         /\ \A n \in DOMAIN f[i] : f[i][n] <= e
    /\ \A i, j \in FileNo : i < j => Log!Before(f[j], f[i])
FlushInv ==
    fneed \in Nat /\ fpos = CursorOf(fneed) /\ (fpc = "flushed" => emitted >= fpos)
LogInv ==
    /\ LogTypes /\ RingInv /\ WriterInv /\ ReserveInv /\ DrainInv
    /\ FilesOk(files, emitted) /\ FlushInv

LEMMA LogConstants ==
    /\ RingSlots \in Nat \ {0} /\ RingSlots > 1 /\ Wrap \in Nat \ {0} /\ Wrap % RingSlots = 0
    /\ Wrap > 2 * RingSlots /\ Starts \subseteq Nat /\ MaxRequests \in Nat
    /\ IsFiniteSet(Producer) /\ FileCap \in Nat /\ BatchCap \in 1 .. FileCap
    /\ Keep \in Nat \ {0}
<1>1. /\ RingSlots \in Nat /\ RingSlots > 1 /\ Wrap \in Nat /\ Wrap % RingSlots = 0
      /\ Wrap > 2 * RingSlots /\ Starts \subseteq Nat /\ MaxRequests \in Nat
  BY GatewayAssumption, Zenon DEF Log!RingAssumption
<1>2. IsFiniteSet(Producer)
  BY GatewayAssumption DEF Log!RingAssumption, Log!IsFiniteSet, IsFiniteSet
<1>3. FileCap \in Nat /\ BatchCap \in 1 .. FileCap /\ Keep \in Nat \ {0}
  BY GatewayAssumption, Zenon DEF Log!FileAssumption
<1>4. RingSlots # 0 /\ Wrap # 0
  BY <1>1
<1> QED BY <1>1, <1>2, <1>3, <1>4

\* Cursors and slots follow the positions
LEMMA CursorIs ==
    ASSUME NEW k \in Nat
    PROVE  /\ SlotOf(k) \in RingSlot /\ CursorOf(k) \in Cursor
           /\ Log!Slot(CursorOf(k)) = SlotOf(k)
           /\ (CursorOf(k) + 1) % Wrap = CursorOf(k + 1)
           /\ (CursorOf(k) + RingSlots) % Wrap = CursorOf(k + RingSlots)
           /\ SlotOf(k + RingSlots) = SlotOf(k)
<1>0. k \in Int /\ RingSlots \in Int /\ 1 \in Int /\ RingSlots \in Nat \ {0} /\ Wrap \in Nat \ {0}
      /\ Wrap % RingSlots = 0
  BY LogConstants
<1>1. SlotOf(k) \in RingSlot /\ CursorOf(k) \in Cursor
  BY <1>0, ModRange DEF SlotOf, CursorOf, RingSlot, Cursor
<1>2. Log!Slot(CursorOf(k)) = SlotOf(k)
  BY <1>0, ModMod DEF SlotOf, CursorOf, Log!Slot
<1>3. (CursorOf(k) + 1) % Wrap = CursorOf(k + 1)
  BY <1>0, ModAdd DEF CursorOf
<1>4. (CursorOf(k) + RingSlots) % Wrap = CursorOf(k + RingSlots)
  BY <1>0, ModAdd DEF CursorOf
<1>5. SlotOf(k + RingSlots) = SlotOf(k)
  BY <1>0, ModLap DEF SlotOf
<1> QED BY <1>1, <1>2, <1>3, <1>4, <1>5

\* The positions in the ring have slots of their own, those within a lap of the
\* counters cursors of their own
LEMMA SlotsApart ==
    ASSUME NEW a \in Nat, NEW b \in Nat, a < b
    PROVE  /\ b < a + RingSlots => SlotOf(a) # SlotOf(b)
           /\ b < a + Wrap => CursorOf(a) # CursorOf(b)
<1>0. a \in Int /\ b \in Int /\ a <= b /\ a # b /\ RingSlots \in Nat \ {0} /\ Wrap \in Nat \ {0}
  BY LogConstants
<1>1. ASSUME b < a + RingSlots, SlotOf(a) = SlotOf(b) PROVE FALSE
  <2>1. b - a < RingSlots
    BY <1>0, <1>1
  <2> QED BY <1>0, <1>1, <2>1, ModClose DEF SlotOf
<1>2. ASSUME b < a + Wrap, CursorOf(a) = CursorOf(b) PROVE FALSE
  <2>1. b - a < Wrap
    BY <1>0, <1>2
  <2> QED BY <1>0, <1>2, <2>1, ModClose DEF CursorOf
<1> QED BY <1>1, <1>2

LEMMA DiffIs ==
    ASSUME NEW a \in Cursor, NEW b \in Cursor, Log!Diff(a, b) = 0
    PROVE  a = b
<1>0. Wrap \in Nat \ {0} /\ a \in Int /\ b \in Int /\ a < Wrap /\ b < Wrap /\ a >= 0 /\ b >= 0
  BY LogConstants DEF Cursor
<1> PICK d \in 0 .. Wrap - 1 : d = (a - b) % Wrap
  <2>1. a - b \in Int
    BY <1>0
  <2> QED BY <1>0, <2>1, ModRange
<1>1. d = 0
  <2>1. Log!Diff(a, b) = IF d < Wrap \div 2 THEN d ELSE d - Wrap
    BY DEF Log!Diff
  <2>2. d # Wrap
    BY <1>0
  <2> QED BY <1>0, <2>1, <2>2
<1>2. 0 % Wrap = 0
  <2>1. Wrap * 0 + 0 = 0
    BY <1>0
  <2> QED BY <1>0, <2>1, ModUnique
<1>3. CASE a >= b
  <2>1. 0 \in Int /\ a - b \in Int /\ 0 <= a - b /\ (a - b) - 0 < Wrap
    BY <1>0, <1>3
  <2>2. 0 = a - b
    BY <1>0, <1>1, <1>2, <2>1, ModClose
  <2> QED BY <1>0, <2>2
<1>4. CASE a < b
  <2>1. 0 \in Int /\ a - b \in Int /\ a - b <= 0 /\ 0 - (a - b) < Wrap
    BY <1>0, <1>4
  <2>2. a - b = 0
    BY <1>0, <1>1, <1>2, <2>1, ModClose
  <2> QED BY <1>0, <2>2
<1> QED BY <1>0, <1>3, <1>4

LEMMA PoppedNat == LogTypes => Popped \in Nat /\ Len(batch) \in Nat
BY DEF LogTypes, Popped

\* The producers and the ring do not notice what the drain does with its lines
LEMMA RingSame ==
    ASSUME RingInv, WriterInv, ReserveInv, Popped' = Popped,
           UNCHANGED <<seq, line, reserved, ppc, ppos, pline, requests>>
    PROVE  RingInv' /\ WriterInv' /\ ReserveInv'
<1>1. RingInv'
  BY DEF RingInv, SlotOf, CursorOf
<1>2. WriterInv'
  BY DEF WriterInv, SlotOf, CursorOf
<1>3. ReserveInv'
  <2>1. Pending' = Pending
    BY DEF Pending
  <2> QED BY <2>1 DEF ReserveInv, CursorOf
<1> QED BY <1>1, <1>2, <1>3

\* A producer's step that touches neither the slots nor what is reserved
LEMMA PendingSteps ==
    ASSUME LogTypes, RingInv, WriterInv, Popped' = Popped,
           UNCHANGED <<seq, line, reserved, pline>>, NEW p \in Producer, NEW place,
           ppc[p] \notin Writing, place \notin Writing, ppc' = [ppc EXCEPT ![p] = place],
           \A q \in Producer : q # p => ppos'[q] = ppos[q]
    PROVE  RingInv' /\ WriterInv'
<1>1. RingInv'
  BY DEF RingInv, SlotOf, CursorOf
<1>2. \A q \in Producer : ppc'[q] \in Writing => q # p /\ ppc'[q] = ppc[q]
  BY DEF LogTypes
<1>3. WriterInv'
  <2> SUFFICES ASSUME NEW q \in Producer, ppc'[q] \in Writing
               PROVE  /\ pline[q] - 1 \in Popped .. reserved - 1
                      /\ ppos[q] = CursorOf(pline[q] - 1)
                      /\ seq[SlotOf(pline[q] - 1)] = CursorOf(pline[q] - 1)
                      /\ ppc[q] = "publish" => line[SlotOf(pline[q] - 1)] = pline[q]
                      /\ \A r \in Producer : q # r /\ ppc'[r] \in Writing => pline[r] # pline[q]
    BY <1>2 DEF WriterInv, SlotOf, CursorOf
  <2> QED BY <1>2 DEF WriterInv
<1> QED BY <1>1, <1>3

LEMMA PendingCounts ==
    ASSUME LogTypes
    PROVE  /\ IsFiniteSet(Pending) /\ Cardinality(Pending) \in Nat
           /\ \A p \in Pending : Cardinality(Pending \ {p}) = Cardinality(Pending) - 1
           /\ \A p \in Producer \ Pending : Cardinality(Pending \cup {p}) = Cardinality(Pending) + 1
<1>1. IsFiniteSet(Pending)
  BY LogConstants, FS_Subset DEF Pending
<1> QED BY <1>1, FS_CardinalityType, FS_AddElement, FS_RemoveElement

LEMMA RequestKeeps ==
    ASSUME LogTypes, RingInv, WriterInv, ReserveInv, NEW p \in Producer, Log!LogRequest(p),
           Popped' = Popped
    PROVE  RingInv' /\ WriterInv' /\ ReserveInv'
<1>0. /\ ppc[p] = "idle" /\ ppc' = [ppc EXCEPT ![p] = "look"] /\ requests' = requests + 1
      /\ ppos' = [ppos EXCEPT ![p] = CursorOf(reserved)]
      /\ UNCHANGED <<seq, line, reserved, pline>>
  BY DEF Log!LogRequest, LogTypes, Log!ring
<1>1. RingInv' /\ WriterInv'
  <2>1. ppc[p] \notin Writing /\ "look" \notin Writing
    BY <1>0 DEF Writing
  <2>2. \A q \in Producer : q # p => ppos'[q] = ppos[q]
    BY <1>0 DEF LogTypes
  <2> QED BY <1>0, <2>1, <2>2, PendingSteps
<1>2. Pending' = Pending \cup {p} /\ p \notin Pending
  BY <1>0, Zenon DEF Pending, LogTypes
<1>3. Cardinality(Pending') = Cardinality(Pending) + 1 /\ Cardinality(Pending) \in Nat
  <2>1. p \in Producer \ Pending
    BY <1>2
  <2>2. Cardinality(Pending \cup {p}) = Cardinality(Pending) + 1 /\ Cardinality(Pending) \in Nat
    BY <2>1, PendingCounts
  <2> QED BY <1>2, <2>2, Zenon
<1> PICK start \in 0 .. reserved :
      /\ reserved + Cardinality(Pending) <= start + requests
      /\ \A q \in Pending : \E h \in start .. reserved :
           /\ ppos[q] = CursorOf(h)
           /\ ppc[q] = "cas" /\ h = reserved => reserved < Popped + RingSlots
  BY DEF ReserveInv
<1>4. reserved + Cardinality(Pending') <= start + requests'
  BY <1>0, <1>3 DEF LogTypes
<1>5. ASSUME NEW q \in Pending'
      PROVE  \E h \in start .. reserved :
               /\ ppos'[q] = CursorOf(h)
               /\ ppc'[q] = "cas" /\ h = reserved => reserved < Popped + RingSlots
  <2>1. CASE q = p
    <3>1. ppos'[p] = CursorOf(reserved) /\ ppc'[p] = "look" /\ reserved \in start .. reserved
      BY <1>0 DEF LogTypes
    <3> QED BY <2>1, <3>1
  <2>2. CASE q # p
    <3>1. q \in Pending /\ ppos'[q] = ppos[q] /\ ppc'[q] = ppc[q]
      BY <1>0, <1>2, <1>5, <2>2 DEF LogTypes, Pending
    <3> QED BY <3>1
  <2> QED BY <2>1, <2>2
<1>6. ReserveInv'
  BY <1>0, <1>4, <1>5 DEF ReserveInv, CursorOf
<1> QED BY <1>1, <1>6

LEMMA LookKeeps ==
    ASSUME LogTypes, RingInv, WriterInv, ReserveInv, NEW p \in Producer, Log!LogLook(p),
           Popped' = Popped
    PROVE  RingInv' /\ WriterInv' /\ ReserveInv'
<1> PICK place : place = ppc'[p]
  OBVIOUS
<1>0. /\ ppc[p] = "look" /\ UNCHANGED <<seq, line, reserved, pline, requests>>
      /\ \/ /\ seq[Log!Slot(ppos[p])] = ppos[p] /\ ppc' = [ppc EXCEPT ![p] = "cas"] /\ ppos' = ppos
         \/ ppc' = [ppc EXCEPT ![p] = "idle"] /\ ppos' = ppos
         \/ ppc' = ppc /\ ppos' = [ppos EXCEPT ![p] = CursorOf(reserved)]
  <2>1. ppc[p] = "look" /\ UNCHANGED <<seq, line, reserved, pline, requests>>
    BY DEF Log!LogLook, Log!ring
  <2> PICK d : d = Log!Diff(seq[Log!Slot(ppos[p])], ppos[p])
    OBVIOUS
  <2>2. CASE d = 0 /\ ppc' = [ppc EXCEPT ![p] = "cas"] /\ UNCHANGED <<ppos, dropped>>
    <3> PICK h \in Nat : ppos[p] = CursorOf(h)
      BY <2>1 DEF ReserveInv, Pending
    <3>1. seq[Log!Slot(ppos[p])] \in Cursor /\ ppos[p] \in Cursor
      BY CursorIs DEF LogTypes
    <3>2. seq[Log!Slot(ppos[p])] = ppos[p]
      BY <2>2, <3>1, DiffIs
    <3> QED BY <2>1, <2>2, <3>2
  <2>3. CASE ppc' = [ppc EXCEPT ![p] = "idle"] /\ UNCHANGED ppos
    BY <2>1, <2>3
  <2>4. CASE ppos' = [ppos EXCEPT ![p] = ring_head] /\ UNCHANGED <<ppc, dropped>>
    BY <2>1, <2>4 DEF LogTypes
  <2> QED BY <2>2, <2>3, <2>4 DEF Log!LogLook
<1>1. ppc' = [ppc EXCEPT ![p] = place] /\ place \in {"idle", "look", "cas"}
  BY <1>0 DEF LogTypes
<1>2. \A q \in Producer : q # p => ppos'[q] = ppos[q] /\ ppc'[q] = ppc[q]
  BY <1>0 DEF LogTypes
<1>3. RingInv' /\ WriterInv'
  <2>1. ppc[p] \notin Writing /\ place \notin Writing
    BY <1>0, <1>1 DEF Writing
  <2> QED BY <1>0, <1>1, <1>2, <2>1, PendingSteps
<1>4. p \in Pending /\ Pending' \in {Pending, Pending \ {p}}
  <2>1. p \in Pending
    BY <1>0 DEF Pending
  <2>2. CASE place = "idle"
    <3>1. Pending' = Pending \ {p}
      BY <1>1, <1>2, <2>2 DEF Pending, LogTypes
    <3> QED BY <2>1, <3>1
  <2>3. CASE place # "idle"
    <3>1. ppc'[p] \in {"look", "cas"}
      BY <1>1, <2>3 DEF LogTypes
    <3>2. Pending' = Pending
      BY <1>2, <2>1, <3>1 DEF Pending
    <3> QED BY <2>1, <3>2
  <2> QED BY <2>2, <2>3
<1>5. Cardinality(Pending') \in Nat /\ Cardinality(Pending') <= Cardinality(Pending)
      /\ Cardinality(Pending) \in Nat
  <2>1. Cardinality(Pending) \in Nat /\ Cardinality(Pending \ {p}) = Cardinality(Pending) - 1
        /\ IsFiniteSet(Pending \ {p}) /\ Cardinality(Pending \ {p}) \in Nat
    BY <1>4, PendingCounts, FS_Subset, FS_CardinalityType
  <2>2. CASE Pending' = Pending
    BY <2>1, <2>2
  <2>3. CASE Pending' = Pending \ {p}
    BY <2>1, <2>3
  <2> QED BY <1>4, <2>2, <2>3
<1> PICK start \in 0 .. reserved :
      /\ reserved + Cardinality(Pending) <= start + requests
      /\ \A q \in Pending : \E h \in start .. reserved :
           /\ ppos[q] = CursorOf(h)
           /\ ppc[q] = "cas" /\ h = reserved => reserved < Popped + RingSlots
  BY DEF ReserveInv
<1>6. reserved + Cardinality(Pending') <= start + requests
  BY <1>5 DEF LogTypes
<1>7. ASSUME NEW q \in Pending'
      PROVE  \E h \in start .. reserved :
               /\ ppos'[q] = CursorOf(h)
               /\ ppc'[q] = "cas" /\ h = reserved => reserved < Popped + RingSlots
  <2>1. CASE q # p
    <3>1. q \in Pending /\ ppos'[q] = ppos[q] /\ ppc'[q] = ppc[q]
      BY <1>2, <1>4, <1>7, <2>1 DEF Pending
    <3> QED BY <3>1
  <2>2. CASE q = p /\ ppos' = [ppos EXCEPT ![p] = CursorOf(reserved)] /\ ppc' = ppc
    <3>1. ppos'[p] = CursorOf(reserved) /\ ppc'[p] = "look" /\ reserved \in start .. reserved
      BY <1>0, <2>2 DEF LogTypes
    <3> QED BY <2>2, <3>1
  <2>3. CASE q = p /\ ppos' = ppos /\ seq[Log!Slot(ppos[p])] = ppos[p]
    <3> PICK h \in start .. reserved : ppos[p] = CursorOf(h)
      BY <1>4
    <3>0. h \in Nat /\ seq[SlotOf(h)] = CursorOf(h)
      <4>1. h \in Nat
        BY DEF LogTypes
      <4> QED BY <2>3, <4>1, CursorIs
    <3>1. ASSUME h = reserved PROVE reserved < Popped + RingSlots
      <4> SUFFICES ASSUME h = Popped + RingSlots PROVE FALSE
        BY <3>0, <3>1, PoppedNat, LogConstants DEF RingInv
      <4>0. Popped \in Nat /\ RingSlots \in Nat /\ RingSlots > 1 /\ Popped + 1 \in Nat /\ Wrap \in Nat
            /\ Wrap > RingSlots
        BY PoppedNat, LogConstants
      <4>1. SlotOf(h) = SlotOf(Popped)
        BY <4>0, CursorIs
      <4>2. seq[SlotOf(Popped)] = CursorOf(Popped) \/ seq[SlotOf(Popped)] = CursorOf(Popped + 1)
        BY <4>0 DEF RingInv
      <4>3. CursorOf(h) # CursorOf(Popped)
        BY <3>0, <4>0, SlotsApart
      <4>4. CursorOf(h) # CursorOf(Popped + 1)
        BY <3>0, <4>0, SlotsApart
      <4> QED BY <3>0, <4>1, <4>2, <4>3, <4>4
    <3> QED BY <2>3, <3>1
  <2>4. CASE q = p /\ ppc' = [ppc EXCEPT ![p] = "idle"]
    BY <1>7, <2>4 DEF Pending, LogTypes
  <2> QED BY <1>0, <2>1, <2>2, <2>3, <2>4
<1>8. ReserveInv'
  BY <1>0, <1>6, <1>7 DEF ReserveInv, CursorOf
<1> QED BY <1>3, <1>8

\* The head moves: the producer has the position to itself
LEMMA CasKeeps ==
    ASSUME MaxRequests < Wrap, LogTypes, RingInv, WriterInv, ReserveInv,
           NEW p \in Producer, Log!LogCas(p), Popped' = Popped
    PROVE  RingInv' /\ WriterInv' /\ ReserveInv'
<1>0. ppc[p] = "cas" /\ p \in Pending /\ UNCHANGED <<seq, line, requests>> /\ reserved \in Nat
      /\ requests \in 0 .. MaxRequests
  BY DEF Log!LogCas, LogTypes, Pending
<1>c. /\ Popped \in Nat /\ RingSlots \in Nat /\ RingSlots > 1 /\ Wrap \in Nat /\ MaxRequests \in Nat
      /\ IsFiniteSet(Pending) /\ Cardinality(Pending) \in Nat
      /\ Cardinality(Pending \ {p}) = Cardinality(Pending) - 1
  BY <1>0, PoppedNat, LogConstants, PendingCounts
<1> PICK start \in 0 .. reserved :
      /\ reserved + Cardinality(Pending) <= start + requests
      /\ \A q \in Pending : \E h \in start .. reserved :
           /\ ppos[q] = CursorOf(h)
           /\ ppc[q] = "cas" /\ h = reserved => reserved < Popped + RingSlots
  BY DEF ReserveInv
<1>1. CASE ring_head = ppos[p]
  <2>0. /\ reserved' = reserved + 1 /\ pline' = [pline EXCEPT ![p] = reserved + 1] /\ ppos' = ppos
        /\ ppc' = [ppc EXCEPT ![p] = "fill"]
    BY <1>1 DEF Log!LogCas
  <2>1. ppos[p] = CursorOf(reserved) /\ reserved < Popped + RingSlots
    <3> PICK h \in start .. reserved :
          /\ ppos[p] = CursorOf(h)
          /\ ppc[p] = "cas" /\ h = reserved => reserved < Popped + RingSlots
      BY <1>0
    <3>1. CursorOf(h) = CursorOf(reserved)
      BY <1>1 DEF LogTypes
    <3>2. h \in Nat /\ reserved < h + Wrap
      BY <1>0, <1>c
    <3>3. h = reserved
      BY <1>0, <3>1, <3>2, SlotsApart
    <3> QED BY <1>0, <3>3
  <2>2. \A q \in Producer : q # p => pline'[q] = pline[q] /\ ppc'[q] = ppc[q]
    BY <2>0 DEF LogTypes
  <2>3. pline'[p] = reserved + 1 /\ ppc'[p] = "fill"
    BY <2>0 DEF LogTypes
  <2>4. RingInv'
    <3> SUFFICES /\ Popped <= reserved' /\ reserved' <= Popped + RingSlots
                 /\ \A k \in Popped .. Popped + RingSlots - 1 :
                      \/ seq[SlotOf(k)] = CursorOf(k)
                      \/ /\ k < reserved' /\ seq[SlotOf(k)] = CursorOf(k + 1)
                         /\ line[SlotOf(k)] = k + 1
      BY <1>0 DEF RingInv, SlotOf, CursorOf
    <3>1. Popped <= reserved' /\ reserved' <= Popped + RingSlots
      BY <1>0, <1>c, <2>0, <2>1 DEF RingInv
    <3>2. \A k \in Popped .. Popped + RingSlots - 1 : k < reserved => k < reserved'
      BY <1>0, <1>c, <2>0
    <3> QED BY <3>1, <3>2 DEF RingInv
  <2>5. ASSUME NEW q \in Producer, ppc'[q] \in Writing
        PROVE  /\ pline'[q] - 1 \in Popped .. reserved' - 1
               /\ ppos[q] = CursorOf(pline'[q] - 1)
               /\ seq[SlotOf(pline'[q] - 1)] = CursorOf(pline'[q] - 1)
               /\ ppc'[q] = "publish" => line[SlotOf(pline'[q] - 1)] = pline'[q]
               /\ pline'[q] <= reserved' /\ (q # p => pline'[q] <= reserved)
    <3>1. CASE q = p
      <4>1. pline'[q] - 1 = reserved /\ ppc'[q] = "fill"
        BY <1>0, <2>3, <3>1
      <4>2. seq[SlotOf(reserved)] = CursorOf(reserved)
        <5>1. reserved \in Popped .. Popped + RingSlots - 1 /\ ~(reserved < reserved)
          BY <1>0, <1>c, <2>1 DEF RingInv
        <5> QED BY <5>1 DEF RingInv
      <4>3. reserved \in Popped .. reserved' - 1 /\ pline'[q] <= reserved'
        BY <1>0, <1>c, <2>0, <2>3, <3>1 DEF RingInv
      <4> QED BY <2>1, <3>1, <4>1, <4>2, <4>3
    <3>2. CASE q # p
      <4>1. ppc[q] \in Writing /\ pline'[q] = pline[q] /\ ppc'[q] = ppc[q] /\ pline[q] \in Nat
        BY <2>2, <2>5, <3>2 DEF LogTypes
      <4>2. pline[q] - 1 \in Popped .. reserved - 1
        BY <4>1 DEF WriterInv
      <4>3. pline[q] - 1 \in Popped .. reserved' - 1 /\ pline[q] <= reserved /\ pline[q] <= reserved'
        BY <1>0, <1>c, <2>0, <4>1, <4>2
      <4> QED BY <4>1, <4>3 DEF WriterInv
    <3> QED BY <3>1, <3>2
  <2>6. ASSUME NEW q \in Producer, NEW r \in Producer, q # r, ppc'[q] \in Writing, ppc'[r] \in Writing
        PROVE  pline'[r] # pline'[q]
    <3>1. CASE q # p /\ r # p
      BY <2>2, <2>6, <3>1 DEF WriterInv
    <3>2. CASE q = p
      <4>1. pline'[r] <= reserved /\ pline'[q] = reserved + 1
        BY <2>3, <2>5, <2>6, <3>2
      <4> QED BY <1>0, <4>1
    <3>3. CASE r = p
      <4>1. pline'[q] <= reserved /\ pline'[r] = reserved + 1
        BY <2>3, <2>5, <2>6, <3>3
      <4> QED BY <1>0, <4>1
    <3> QED BY <3>1, <3>2, <3>3
  <2>7. WriterInv'
    BY <1>0, <2>0, <2>5, <2>6 DEF WriterInv, SlotOf, CursorOf
  <2>8. Pending' = Pending \ {p}
    BY <2>2, <2>3 DEF Pending
  <2>9. ReserveInv'
    <3>1. reserved' + Cardinality(Pending') <= start + requests
      BY <1>0, <1>c, <2>0, <2>8
    <3>2. ASSUME NEW q \in Pending'
          PROVE  \E h \in start .. reserved' :
                   /\ ppos[q] = CursorOf(h)
                   /\ ppc'[q] = "cas" /\ h = reserved' => reserved' < Popped + RingSlots
      <4>1. q \in Pending
        BY <2>8, <3>2
      <4> PICK h \in start .. reserved : ppos[q] = CursorOf(h)
        BY <4>1
      <4>2. h \in start .. reserved' /\ h # reserved'
        BY <1>0, <2>0
      <4> QED BY <4>2
    <3>3. start \in 0 .. reserved'
      BY <1>0, <2>0
    <3> QED BY <1>0, <2>0, <3>1, <3>2, <3>3 DEF ReserveInv, CursorOf
  <2> QED BY <2>4, <2>7, <2>9
<1>2. CASE ring_head # ppos[p]
  <2>0. /\ UNCHANGED <<reserved, pline>> /\ ppos' = [ppos EXCEPT ![p] = CursorOf(reserved)]
        /\ ppc' = [ppc EXCEPT ![p] = "look"]
    BY <1>2 DEF Log!LogCas, LogTypes
  <2>1. \A q \in Producer : q # p => ppos'[q] = ppos[q] /\ ppc'[q] = ppc[q]
    BY <2>0 DEF LogTypes
  <2>2. RingInv' /\ WriterInv'
    <3>1. ppc[p] \notin Writing /\ "look" \notin Writing
      BY <1>0 DEF Writing
    <3> QED BY <1>0, <2>0, <2>1, <3>1, PendingSteps
  <2>3. ppos'[p] = CursorOf(reserved) /\ ppc'[p] = "look" /\ reserved \in start .. reserved
    BY <1>0, <2>0 DEF LogTypes
  <2>4. Pending' = Pending
    BY <1>0, <2>1, <2>3 DEF Pending
  <2>5. ReserveInv'
    <3>1. ASSUME NEW q \in Pending
          PROVE  \E h \in start .. reserved :
                   /\ ppos'[q] = CursorOf(h)
                   /\ ppc'[q] = "cas" /\ h = reserved => reserved < Popped + RingSlots
      <4>1. CASE q = p
        BY <2>3, <4>1
      <4>2. CASE q # p
        <5>1. ppos'[q] = ppos[q] /\ ppc'[q] = ppc[q]
          BY <2>1, <3>1, <4>2 DEF Pending
        <5> QED BY <3>1, <5>1
      <4> QED BY <4>1, <4>2
    <3> QED BY <1>0, <2>0, <2>4, <3>1 DEF ReserveInv, CursorOf
  <2> QED BY <2>2, <2>5
<1> QED BY <1>1, <1>2

\* The writer's slot: nobody else's position has it
LEMMA WriterSlot ==
    ASSUME LogTypes, RingInv, WriterInv, NEW p \in Producer, ppc[p] \in Writing
    PROVE  \E n \in Popped .. reserved - 1 :
             /\ pline[p] = n + 1 /\ n \in Nat /\ pline[p] - 1 = n /\ ppos[p] = CursorOf(n)
             /\ Log!Slot(ppos[p]) = SlotOf(n) /\ SlotOf(n) \in RingSlot
             /\ seq[SlotOf(n)] = CursorOf(n)
             /\ ppc[p] = "publish" => line[SlotOf(n)] = n + 1
             /\ \A k \in Popped .. Popped + RingSlots - 1 : k # n => SlotOf(k) # SlotOf(n)
<1> PICK n : n = pline[p] - 1
  OBVIOUS
<1>1. n \in Popped .. reserved - 1 /\ pline[p] \in Nat /\ reserved \in Nat /\ Popped \in Nat
      /\ RingSlots \in Nat
  BY PoppedNat, LogConstants DEF WriterInv, LogTypes
<1>2. n \in Nat /\ pline[p] = n + 1 /\ n < Popped + RingSlots /\ Popped <= n
  BY <1>1 DEF RingInv
<1>3. /\ ppos[p] = CursorOf(n) /\ seq[SlotOf(n)] = CursorOf(n)
      /\ ppc[p] = "publish" => line[SlotOf(n)] = n + 1
  BY <1>2 DEF WriterInv
<1>4. Log!Slot(ppos[p]) = SlotOf(n) /\ SlotOf(n) \in RingSlot
  BY <1>2, <1>3, CursorIs
<1>5. ASSUME NEW k \in Popped .. Popped + RingSlots - 1, k # n PROVE SlotOf(k) # SlotOf(n)
  <2>1. k \in Nat /\ Popped <= k /\ k < Popped + RingSlots
    BY <1>1
  <2>2. CASE k < n
    BY <1>1, <1>2, <2>1, <2>2, SlotsApart
  <2>3. CASE n < k
    BY <1>1, <1>2, <2>1, <2>3, SlotsApart
  <2> QED BY <1>2, <1>5, <2>1, <2>2, <2>3
<1> QED BY <1>1, <1>2, <1>3, <1>4, <1>5

LEMMA FillKeeps ==
    ASSUME LogTypes, RingInv, WriterInv, ReserveInv, NEW p \in Producer, Log!LogFill(p), Popped' = Popped
    PROVE  RingInv' /\ WriterInv' /\ ReserveInv'
<1>0. /\ ppc[p] = "fill" /\ line' = [line EXCEPT ![Log!Slot(ppos[p])] = pline[p]]
      /\ ppc' = [ppc EXCEPT ![p] = "publish"]
      /\ UNCHANGED <<seq, reserved, ppos, pline, requests>>
  BY DEF Log!LogFill
<1>1. ppc[p] \in Writing
  BY <1>0 DEF Writing
<1> PICK n \in Popped .. reserved - 1 :
      /\ pline[p] = n + 1 /\ n \in Nat /\ pline[p] - 1 = n /\ ppos[p] = CursorOf(n)
      /\ Log!Slot(ppos[p]) = SlotOf(n) /\ SlotOf(n) \in RingSlot
      /\ seq[SlotOf(n)] = CursorOf(n)
      /\ \A k \in Popped .. Popped + RingSlots - 1 : k # n => SlotOf(k) # SlotOf(n)
  BY <1>1, WriterSlot
<1>2. line' = [line EXCEPT ![SlotOf(n)] = n + 1] /\ line'[SlotOf(n)] = n + 1
  BY <1>0 DEF LogTypes
<1>3. \A q \in Producer : q # p => ppc'[q] = ppc[q]
  BY <1>0 DEF LogTypes
<1>4. ppc'[p] = "publish" /\ "publish" \in Writing
  BY <1>0 DEF LogTypes, Writing
<1>c. Popped \in Nat /\ RingSlots \in Nat /\ reserved \in Nat
  BY PoppedNat, LogConstants DEF LogTypes
<1>5. RingInv'
  <2>1. ASSUME NEW k \in Popped .. Popped + RingSlots - 1
        PROVE  \/ seq[SlotOf(k)] = CursorOf(k)
               \/ /\ k < reserved /\ seq[SlotOf(k)] = CursorOf(k + 1)
                  /\ line'[SlotOf(k)] = k + 1
    <3>1. CASE k # n
      <4>1. k \in Nat
        BY <1>c
      <4>2. line'[SlotOf(k)] = line[SlotOf(k)]
        BY <1>2, <2>1, <3>1, <4>1, CursorIs DEF LogTypes
      <4> QED BY <2>1, <4>2 DEF RingInv
    <3>2. CASE k = n
      BY <3>2
    <3> QED BY <3>1, <3>2
  <2> QED BY <1>0, <2>1 DEF RingInv, SlotOf, CursorOf
<1>6. ASSUME NEW q \in Producer, ppc'[q] \in Writing
      PROVE  /\ ppc[q] \in Writing
             /\ ppc'[q] = "publish" => line'[SlotOf(pline[q] - 1)] = pline[q]
  <2>1. CASE q = p
    BY <1>1, <1>2, <2>1
  <2>2. CASE q # p
    <3>1. ppc[q] \in Writing /\ ppc'[q] = ppc[q] /\ pline[q] # pline[p] /\ pline[q] \in Nat
      BY <1>1, <1>3, <1>6, <2>2 DEF WriterInv, LogTypes
    <3> PICK m : m = pline[q] - 1
      OBVIOUS
    <3>2. m \in Popped .. reserved - 1 /\ (ppc[q] = "publish" => line[SlotOf(m)] = pline[q])
      BY <3>1 DEF WriterInv
    <3>3. m \in Popped .. Popped + RingSlots - 1 /\ m # n /\ m \in Nat
      BY <1>c, <3>1, <3>2 DEF RingInv
    <3>4. line'[SlotOf(m)] = line[SlotOf(m)]
      BY <1>2, <3>3, CursorIs DEF LogTypes
    <3> QED BY <3>1, <3>2, <3>4
  <2> QED BY <2>1, <2>2
<1>7. WriterInv'
  BY <1>0, <1>6 DEF WriterInv, SlotOf, CursorOf
<1>8. ReserveInv'
  <2>1. Pending' = Pending /\ \A q \in Pending : ppc'[q] = ppc[q]
    BY <1>0, <1>3, <1>4 DEF Pending
  <2> QED BY <1>0, <2>1 DEF ReserveInv, CursorOf
<1> QED BY <1>5, <1>7, <1>8

LEMMA PublishKeeps ==
    ASSUME LogTypes, RingInv, WriterInv, ReserveInv, NEW p \in Producer, Log!LogPublish(p), Popped' = Popped
    PROVE  /\ RingInv' /\ WriterInv' /\ ReserveInv'
           /\ seq[SlotOf(Popped)] = CursorOf(Popped + 1) => seq'[SlotOf(Popped)] = CursorOf(Popped + 1)
<1>0. /\ ppc[p] = "publish" /\ seq' = [seq EXCEPT ![Log!Slot(ppos[p])] = (ppos[p] + 1) % Wrap]
      /\ ppc' = [ppc EXCEPT ![p] = "idle"] /\ pline' = [pline EXCEPT ![p] = Log!NoLine]
      /\ UNCHANGED <<line, reserved, ppos, requests>>
  BY DEF Log!LogPublish
<1>1. ppc[p] \in Writing
  BY <1>0 DEF Writing
<1> PICK n \in Popped .. reserved - 1 :
      /\ pline[p] = n + 1 /\ n \in Nat /\ pline[p] - 1 = n /\ ppos[p] = CursorOf(n)
      /\ Log!Slot(ppos[p]) = SlotOf(n) /\ SlotOf(n) \in RingSlot
      /\ seq[SlotOf(n)] = CursorOf(n) /\ line[SlotOf(n)] = n + 1
      /\ \A k \in Popped .. Popped + RingSlots - 1 : k # n => SlotOf(k) # SlotOf(n)
  BY <1>0, <1>1, WriterSlot
<1>2. seq' = [seq EXCEPT ![SlotOf(n)] = CursorOf(n + 1)] /\ seq'[SlotOf(n)] = CursorOf(n + 1)
  BY <1>0, CursorIs DEF LogTypes
<1>3. \A q \in Producer : q # p => ppc'[q] = ppc[q] /\ pline'[q] = pline[q]
  BY <1>0 DEF LogTypes
<1>4. ppc'[p] = "idle" /\ ppc'[p] \notin Writing
  BY <1>0 DEF LogTypes, Writing
<1>c. Popped \in Nat /\ RingSlots \in Nat /\ RingSlots > 1 /\ reserved \in Nat /\ Wrap \in Nat /\ Wrap > 1
  BY PoppedNat, LogConstants DEF LogTypes
<1>d. \A k \in Popped .. Popped + RingSlots - 1 : k # n => seq'[SlotOf(k)] = seq[SlotOf(k)]
  BY <1>2, <1>c, CursorIs DEF LogTypes
<1>5. RingInv'
  <2>1. ASSUME NEW k \in Popped .. Popped + RingSlots - 1
        PROVE  \/ seq'[SlotOf(k)] = CursorOf(k)
               \/ /\ k < reserved /\ seq'[SlotOf(k)] = CursorOf(k + 1)
                  /\ line[SlotOf(k)] = k + 1
    <3>1. CASE k # n
      BY <1>d, <2>1, <3>1 DEF RingInv
    <3>2. CASE k = n
      BY <1>2, <1>c, <3>2
    <3> QED BY <3>1, <3>2
  <2> QED BY <1>0, <2>1 DEF RingInv, SlotOf, CursorOf
<1>6. ASSUME NEW q \in Producer, ppc'[q] \in Writing
      PROVE  q # p /\ ppc[q] \in Writing /\ ppc'[q] = ppc[q] /\ pline'[q] = pline[q]
             /\ seq'[SlotOf(pline[q] - 1)] = seq[SlotOf(pline[q] - 1)]
  <2>1. q # p
    BY <1>4, <1>6
  <2>2. ppc[q] \in Writing /\ ppc'[q] = ppc[q] /\ pline'[q] = pline[q]
        /\ pline[q] # pline[p] /\ pline[q] \in Nat
    BY <1>1, <1>3, <1>6, <2>1 DEF WriterInv, LogTypes
  <2> PICK m : m = pline[q] - 1
    OBVIOUS
  <2>3. m \in Popped .. reserved - 1
    BY <2>2 DEF WriterInv
  <2>4. m \in Popped .. Popped + RingSlots - 1 /\ m # n
    BY <1>c, <2>2, <2>3 DEF RingInv
  <2> QED BY <1>d, <2>1, <2>2, <2>4
<1>7. WriterInv'
  <2>1. \A q \in Producer : ppc'[q] \in Writing =>
          /\ pline'[q] - 1 \in Popped .. reserved - 1
          /\ ppos[q] = CursorOf(pline'[q] - 1)
          /\ seq'[SlotOf(pline'[q] - 1)] = CursorOf(pline'[q] - 1)
          /\ ppc'[q] = "publish" => line[SlotOf(pline'[q] - 1)] = pline'[q]
          /\ \A r \in Producer : q # r /\ ppc'[r] \in Writing => pline'[r] # pline'[q]
    BY <1>6 DEF WriterInv
  <2> QED BY <1>0, <2>1 DEF WriterInv, SlotOf, CursorOf
<1>8. ReserveInv'
  <2>1. Pending' = Pending /\ \A q \in Pending : ppc'[q] = ppc[q]
    BY <1>0, <1>3, <1>4 DEF Pending
  <2> QED BY <1>0, <2>1 DEF ReserveInv, CursorOf
<1>9. ASSUME seq[SlotOf(Popped)] = CursorOf(Popped + 1) PROVE seq'[SlotOf(Popped)] = CursorOf(Popped + 1)
  <2>1. Popped \in Popped .. Popped + RingSlots - 1
    BY <1>c
  <2>2. CASE n = Popped
    BY <1>2, <2>2
  <2>3. CASE n # Popped
    BY <1>9, <1>d, <2>1, <2>3
  <2> QED BY <2>2, <2>3
<1> QED BY <1>5, <1>7, <1>8, <1>9

\* The slot is given to the next lap: its line has left the ring
LEMMA ReleaseKeeps ==
    ASSUME LogTypes, RingInv, WriterInv, ReserveInv, Popped < reserved,
           seq[SlotOf(Popped)] = CursorOf(Popped + 1),
           seq' = [seq EXCEPT ![SlotOf(Popped)] = CursorOf(Popped + RingSlots)],
           Popped' = Popped + 1, UNCHANGED <<line, reserved, ppc, ppos, pline, requests>>
    PROVE  RingInv' /\ WriterInv' /\ ReserveInv'
<1>c. /\ Popped \in Nat /\ RingSlots \in Nat /\ RingSlots > 1 /\ reserved \in Nat /\ Wrap \in Nat
      /\ Wrap > 1 /\ Popped + 1 \in Nat /\ Popped + RingSlots \in Nat
  BY PoppedNat, LogConstants DEF LogTypes
<1>0. \A k \in Popped + 1 .. Popped + RingSlots - 1 : seq'[SlotOf(k)] = seq[SlotOf(k)]
  <2> SUFFICES ASSUME NEW k \in Popped + 1 .. Popped + RingSlots - 1
               PROVE  seq'[SlotOf(k)] = seq[SlotOf(k)]
    OBVIOUS
  <2>1. k \in Nat /\ Popped < k /\ k < Popped + RingSlots
    BY <1>c
  <2>2. SlotOf(k) # SlotOf(Popped)
    BY <1>c, <2>1, SlotsApart
  <2> QED BY <2>1, <2>2, CursorIs DEF LogTypes
<1>1. seq'[SlotOf(Popped + RingSlots)] = CursorOf(Popped + RingSlots)
  <2>1. SlotOf(Popped + RingSlots) = SlotOf(Popped) /\ SlotOf(Popped) \in RingSlot
    BY <1>c, CursorIs
  <2> QED BY <2>1 DEF LogTypes
<1>2. RingInv'
  <2>1. ASSUME NEW k \in Popped + 1 .. (Popped + 1) + RingSlots - 1
        PROVE  \/ seq'[SlotOf(k)] = CursorOf(k)
               \/ /\ k < reserved /\ seq'[SlotOf(k)] = CursorOf(k + 1)
                  /\ line[SlotOf(k)] = k + 1
    <3>1. CASE k = Popped + RingSlots
      BY <1>1, <3>1
    <3>2. CASE k # Popped + RingSlots
      <4>1. k \in Popped + 1 .. Popped + RingSlots - 1 /\ k \in Popped .. Popped + RingSlots - 1
        BY <1>c, <3>2
      <4> QED BY <1>0, <4>1 DEF RingInv
    <3> QED BY <3>1, <3>2
  <2>2. Popped + 1 <= reserved /\ reserved <= (Popped + 1) + RingSlots
    BY <1>c DEF RingInv
  <2> QED BY <2>1, <2>2 DEF RingInv, SlotOf, CursorOf
<1>3. ASSUME NEW q \in Producer, ppc[q] \in Writing
      PROVE  pline[q] - 1 \in Popped + 1 .. reserved - 1
             /\ seq'[SlotOf(pline[q] - 1)] = seq[SlotOf(pline[q] - 1)]
  <2> PICK m \in Popped .. reserved - 1 : m = pline[q] - 1 /\ seq[SlotOf(m)] = CursorOf(m)
    BY <1>3 DEF WriterInv
  <2>1. m # Popped
    <3>1. CursorOf(Popped) # CursorOf(Popped + 1)
      BY <1>c, SlotsApart
    <3> QED BY <3>1
  <2>2. m \in Popped + 1 .. reserved - 1 /\ m \in Popped + 1 .. Popped + RingSlots - 1
    BY <1>c, <2>1 DEF RingInv
  <2> QED BY <1>0, <2>2
<1>4. WriterInv'
  <2>1. \A q \in Producer : ppc[q] \in Writing =>
          /\ pline[q] - 1 \in Popped + 1 .. reserved - 1
          /\ ppos[q] = CursorOf(pline[q] - 1)
          /\ seq'[SlotOf(pline[q] - 1)] = CursorOf(pline[q] - 1)
          /\ ppc[q] = "publish" => line[SlotOf(pline[q] - 1)] = pline[q]
          /\ \A r \in Producer : q # r /\ ppc[r] \in Writing => pline[r] # pline[q]
    BY <1>3 DEF WriterInv
  <2> QED BY <2>1 DEF WriterInv, SlotOf, CursorOf
<1>5. ReserveInv'
  <2>1. Pending' = Pending
    BY DEF Pending
  <2>2. reserved < Popped + RingSlots => reserved < (Popped + 1) + RingSlots
    BY <1>c
  <2> PICK start \in 0 .. reserved :
        /\ reserved + Cardinality(Pending) <= start + requests
        /\ \A q \in Pending : \E h \in start .. reserved :
             /\ ppos[q] = CursorOf(h)
             /\ ppc[q] = "cas" /\ h = reserved => reserved < Popped + RingSlots
    BY DEF ReserveInv
  <2>3. \A q \in Pending : \E h \in start .. reserved :
             /\ ppos[q] = CursorOf(h)
             /\ ppc[q] = "cas" /\ h = reserved => reserved < (Popped + 1) + RingSlots
    BY <2>2
  <2> QED BY <2>1, <2>3 DEF ReserveInv, CursorOf
<1> QED BY <1>2, <1>4, <1>5

-----------------------------------------------------------------------------
(* The log's files                                                         *)

LEMMA EmptyFile ==
    /\ <<>> \in Seq(Nat) /\ Len(<<>>) = 0 /\ Log!Increasing(<<>>) /\ \A n \in DOMAIN <<>> : FALSE
    /\ \A s : Log!Before(<<>>, s) /\ Log!Before(s, <<>>)
BY DEF Log!Increasing, Log!Before

LEMMA RenamesKeep ==
    ASSUME NEW e \in Nat, NEW f, FilesOk(f, e), NEW R \in SUBSET (1 .. Keep - 1)
    PROVE  FilesOk(Log!Renamed(f, R), e)
<1> PICK g : g = Log!Renamed(f, R)
  OBVIOUS
<1>0. f \in [FileNo -> Seq(Nat)] /\ DOMAIN f = FileNo /\ Keep \in Nat \ {0}
  BY LogConstants DEF FilesOk
<1>1. g = [i \in FileNo |-> IF i \in R THEN f[i - 1] ELSE IF i + 1 \in R THEN <<>> ELSE f[i]]
  BY <1>0 DEF Log!Renamed
<1>2. ASSUME NEW i \in FileNo
      PROVE  g[i] = <<>> \/ \E a \in FileNo : /\ g[i] = f[a] /\ a \in {i - 1, i}
                                              /\ a = i => i \notin R /\ i + 1 \notin R
                                              /\ a = i - 1 => i \in R
  <2>1. CASE i \in R
    <3>1. i - 1 \in FileNo /\ i - 1 # i
      BY <1>0, <2>1 DEF FileNo
    <3> QED BY <1>1, <2>1, <3>1
  <2>2. CASE i \notin R
    <3>1. i - 1 # i
      BY DEF FileNo
    <3> QED BY <1>1, <2>2, <3>1
  <2> QED BY <2>1, <2>2
<1>3. ASSUME NEW i \in FileNo
      PROVE  g[i] \in Seq(Nat) /\ Len(g[i]) <= FileCap /\ Log!Increasing(g[i])
             /\ \A n \in DOMAIN g[i] : g[i][n] <= e
  <2>1. CASE g[i] = <<>>
    BY <2>1, EmptyFile, LogConstants
  <2>2. CASE \E a \in FileNo : g[i] = f[a]
    BY <2>2 DEF FilesOk
  <2> QED BY <1>2, <2>1, <2>2
<1>4. ASSUME NEW i \in FileNo, NEW j \in FileNo, i < j PROVE Log!Before(g[j], g[i])
  <2>1. CASE g[i] = <<>> \/ g[j] = <<>>
    BY <2>1, EmptyFile
  <2>2. CASE ~(g[i] = <<>> \/ g[j] = <<>>)
    <3> PICK a \in FileNo : g[i] = f[a] /\ a \in {i - 1, i} /\ (a = i => i \notin R /\ i + 1 \notin R)
      BY <1>2, <2>2
    <3> PICK b \in FileNo : g[j] = f[b] /\ b \in {j - 1, j} /\ (b = j - 1 => j \in R)
      BY <1>2, <2>2
    <3>1. a < b
      <4>1. i \in Int /\ j \in Int /\ a \in Int /\ b \in Int
        BY DEF FileNo
      <4>2. CASE a = i
        <5>1. ~(b = j - 1 /\ j = i + 1)
          BY <4>2
        <5> QED BY <1>4, <4>1, <4>2, <5>1
      <4>3. CASE a = i - 1
        BY <1>4, <4>1, <4>3
      <4> QED BY <4>2, <4>3
    <3> QED BY <3>1 DEF FilesOk
  <2> QED BY <2>1, <2>2
<1>5. g \in [FileNo -> Seq(Nat)]
  <2>1. \A i \in FileNo : g[i] \in Seq(Nat)
    BY <1>3
  <2> QED BY <1>1, <2>1
<1> QED BY <1>3, <1>4, <1>5 DEF FilesOk

LEMMA CutKeeps ==
    ASSUME NEW e \in Nat, NEW f, FilesOk(f, e)
    PROVE  FilesOk([f EXCEPT ![0] = <<>>], e)
<1> PICK g : g = [f EXCEPT ![0] = <<>>]
  OBVIOUS
<1>0. f \in [FileNo -> Seq(Nat)]
  BY DEF FilesOk
<1>1. \A i \in FileNo : g[i] = IF i = 0 THEN <<>> ELSE f[i]
  BY <1>0
<1>2. ASSUME NEW i \in FileNo
      PROVE  g[i] \in Seq(Nat) /\ Len(g[i]) <= FileCap /\ Log!Increasing(g[i])
             /\ \A n \in DOMAIN g[i] : g[i][n] <= e
  <2>1. CASE i = 0
    <3> PICK x : x = g[i]
      OBVIOUS
    <3>1. x = <<>>
      BY <1>1, <2>1
    <3>2. x \in Seq(Nat) /\ Len(x) <= FileCap /\ Log!Increasing(x) /\ \A n \in DOMAIN x : x[n] <= e
      BY ONLY <3>1, EmptyFile, LogConstants
    <3> QED BY <3>2
  <2>2. CASE i # 0
    <3>1. g[i] = f[i]
      BY <1>1, <2>2
    <3> QED BY <3>1 DEF FilesOk
  <2> QED BY <2>1, <2>2
<1>3. ASSUME NEW i \in FileNo, NEW j \in FileNo, i < j PROVE Log!Before(g[j], g[i])
  <2>1. CASE g[i] = <<>> \/ g[j] = <<>>
    BY <2>1, EmptyFile
  <2>2. CASE ~(g[i] = <<>> \/ g[j] = <<>>)
    BY <1>1, <1>3, <2>2 DEF FilesOk
  <2> QED BY <2>1, <2>2
<1>4. g \in [FileNo -> Seq(Nat)]
  <2>1. \A i \in FileNo : g[i] \in Seq(Nat)
    BY <1>2
  <2>2. g = [i \in FileNo |-> g[i]]
    BY <1>0
  <2> QED BY <2>1, <2>2
<1> QED BY <1>2, <1>3, <1>4 DEF FilesOk

LEMMA RotateKeeps ==
    ASSUME NEW e \in Nat, NEW f, FilesOk(f, e), NEW s \in Log!LogRotate(f)
    PROVE  FilesOk(s.f, e) /\ s.fd \in BOOLEAN
<1> DEFINE movable == {i \in 1 .. Keep - 1 : i = 1 \/ f[i - 1] # <<>>}
           Cut(g, R) == IF 1 \notin R /\ Log!Size(g) >= FileCap
                        THEN [g EXCEPT ![0] = <<>>] ELSE g
<1>1. PICK R \in SUBSET movable :
        s \in {[f |-> Log!Renamed(f, R), fd |-> FALSE], [f |-> Log!Renamed(f, R), fd |-> TRUE],
               [f |-> Cut(Log!Renamed(f, R), R), fd |-> TRUE]}
  BY Zenon DEF Log!LogRotate
<1> PICK g : g = Log!Renamed(f, R)
  OBVIOUS
<1>2. FilesOk(g, e)
  <2>1. R \in SUBSET (1 .. Keep - 1)
    OBVIOUS
  <2> QED BY <2>1, RenamesKeep
<1>3. FilesOk(Cut(g, R), e)
  <2>1. FilesOk([g EXCEPT ![0] = <<>>], e)
    BY <1>2, CutKeeps
  <2> QED BY <1>2, <2>1, Zenon
<1> HIDE DEF Cut
<1>4. ASSUME NEW h, FilesOk(h, e), NEW b \in BOOLEAN, s = [f |-> h, fd |-> b]
      PROVE  FilesOk(s.f, e) /\ s.fd \in BOOLEAN
  <2>1. s.f = h /\ s.fd = b
    BY <1>4
  <2> QED BY <1>4, <2>1
<1>5. \/ s = [f |-> g, fd |-> FALSE] \/ s = [f |-> g, fd |-> TRUE] \/ s = [f |-> Cut(g, R), fd |-> TRUE]
  BY <1>1
<1> QED BY <1>2, <1>3, <1>4, <1>5

LEMMA Concatenated ==
    ASSUME NEW s \in Seq(Nat), NEW v \in Seq(Nat)
    PROVE  s \o v \in Seq(Nat) /\ Len(s \o v) = Len(s) + Len(v)
OBVIOUS

LEMMA Appended ==
    ASSUME NEW s \in Seq(Nat), NEW t \in Seq(Nat), NEW n \in 0 .. Len(t),
           NEW u, u = s \o SubSeq(t, 1, n)
    PROVE  /\ u \in Seq(Nat) /\ Len(u) = Len(s) + n /\ DOMAIN u = 1 .. Len(s) + n
           /\ Len(s) \in Nat /\ DOMAIN s = 1 .. Len(s) /\ Len(t) \in Nat /\ DOMAIN t = 1 .. Len(t)
           /\ \A i \in DOMAIN u : \/ i \in DOMAIN s /\ u[i] = s[i]
                                  \/ i - Len(s) \in DOMAIN t /\ i > Len(s) /\ u[i] = t[i - Len(s)]
<1> PICK v : v = SubSeq(t, 1, n)
  OBVIOUS
<1>1. v \in Seq(Nat) /\ Len(v) = n /\ \A i \in 1 .. n : v[i] = t[i]
  OBVIOUS
<1>2. u = s \o v
  OBVIOUS
<1>3. Len(s) \in Nat /\ DOMAIN s = 1 .. Len(s) /\ Len(t) \in Nat /\ DOMAIN t = 1 .. Len(t) /\ n \in Nat
  OBVIOUS
<1>4. u \in Seq(Nat) /\ Len(u) = Len(s) + n
  <2>1. u \in Seq(Nat) /\ Len(u) = Len(s) + Len(v)
    BY <1>1, <1>2, Concatenated
  <2> QED BY <1>1, <2>1
<1>5. DOMAIN u = 1 .. Len(s) + n
  BY <1>4
<1>6. ASSUME NEW i \in DOMAIN u
      PROVE  \/ i \in DOMAIN s /\ u[i] = s[i]
             \/ i - Len(s) \in DOMAIN t /\ i > Len(s) /\ u[i] = t[i - Len(s)]
  <2>1. CASE i <= Len(s)
    <3>1. i \in 1 .. Len(s) /\ u[i] = s[i]
      BY ONLY <1>1, <1>2, <1>3, <1>5, <2>1, s \in Seq(Nat), i \in DOMAIN u
    <3> QED BY <1>3, <3>1
  <2>2. CASE i > Len(s)
    <3> PICK k : k = i - Len(s)
      OBVIOUS
    <3>1. k \in 1 .. n /\ i = Len(s) + k
      BY <1>3, <1>5, <2>2
    <3>2. u[i] = v[k]
      BY ONLY <1>1, <1>2, <1>3, <1>5, <2>2, <3>1, s \in Seq(Nat), i \in DOMAIN u
    <3> QED BY <1>1, <1>3, <2>2, <3>1, <3>2
  <2>3. i \in Int
    BY <1>3, <1>5
  <2> QED BY <1>3, <2>1, <2>2, <2>3
<1> QED BY <1>3, <1>4, <1>5, <1>6

\* What is handed to the disk comes after what is on it
NewLines(lines, e, e2) ==
    /\ lines \in Seq(Nat) /\ Log!Increasing(lines)
    /\ \A i \in DOMAIN lines : lines[i] = 0 \/ lines[i] \in e + 1 .. e2

LEMMA AppendKeeps ==
    ASSUME NEW e \in Nat, NEW e2 \in Nat, e <= e2, NEW f, FilesOk(f, e), NEW lines,
           NewLines(lines, e, e2), NEW n \in 0 .. Len(lines), Log!Size(f) + Len(lines) <= FileCap
    PROVE  FilesOk([f EXCEPT ![0] = @ \o SubSeq(lines, 1, n)], e2)
<1> PICK s : s = f[0]
  OBVIOUS
<1>u. PICK u : u = s \o SubSeq(lines, 1, n)
  OBVIOUS
<1>g. PICK g : g = [f EXCEPT ![0] = u]
  OBVIOUS
<1>0. f \in [FileNo -> Seq(Nat)] /\ 0 \in FileNo /\ s \in Seq(Nat) /\ lines \in Seq(Nat)
  BY LogConstants DEF FilesOk, FileNo, NewLines
<1>1. /\ u \in Seq(Nat) /\ Len(u) = Len(s) + n /\ DOMAIN u = 1 .. Len(s) + n
      /\ Len(s) \in Nat /\ DOMAIN s = 1 .. Len(s) /\ Len(lines) \in Nat /\ DOMAIN lines = 1 .. Len(lines)
      /\ \A i \in DOMAIN u : \/ i \in DOMAIN s /\ u[i] = s[i]
                             \/ /\ i - Len(s) \in DOMAIN lines /\ i > Len(s)
                                /\ u[i] = lines[i - Len(s)]
  <2>1. s \in Seq(Nat) /\ lines \in Seq(Nat) /\ n \in 0 .. Len(lines)
    BY <1>0
  <2> QED BY ONLY <1>u, <2>1, Appended
<1>l. Len(s) \in Nat /\ DOMAIN u \subseteq Int
  BY <1>1
<1>2. g = [f EXCEPT ![0] = @ \o SubSeq(lines, 1, n)]
  BY <1>0, <1>u, <1>g
<1>3. \A i \in FileNo : g[i] = IF i = 0 THEN u ELSE f[i]
  BY <1>0, <1>g
<1>4. g \in [FileNo -> Seq(Nat)]
  BY <1>0, <1>1, <1>g
<1>5. /\ \A i \in DOMAIN s : s[i] \in Nat /\ s[i] <= e
      /\ \A i \in DOMAIN lines : lines[i] \in Nat /\ (lines[i] = 0 \/ lines[i] \in e + 1 .. e2)
  BY <1>0 DEF FilesOk, NewLines
<1>6. Len(u) <= FileCap
  <2>1. Len(s) + Len(lines) <= FileCap /\ FileCap \in Nat
    BY LogConstants DEF Log!Size
  <2> QED BY <1>1, <2>1
<1>7. \A i \in DOMAIN u : u[i] \in Nat /\ u[i] <= e2
  <2> SUFFICES ASSUME NEW i \in DOMAIN u PROVE u[i] \in Nat /\ u[i] <= e2
    OBVIOUS
  <2>1. CASE i \in DOMAIN s /\ u[i] = s[i]
    BY <1>5, <2>1
  <2>2. CASE i - Len(s) \in DOMAIN lines /\ u[i] = lines[i - Len(s)]
    <3> PICK x : x = u[i]
      OBVIOUS
    <3>1. x \in Nat /\ (x = 0 \/ x \in e + 1 .. e2)
      BY <1>5, <2>2, Zenon
    <3>2. x <= e2
      BY ONLY <3>1, e2 \in Nat
    <3> QED BY <3>1, <3>2, Zenon
  <2> QED BY <1>1, <2>1, <2>2
<1>8. Log!Increasing(u)
  <2> SUFFICES ASSUME NEW i \in DOMAIN u, NEW j \in DOMAIN u, i < j, u[i] # 0, u[j] # 0
               PROVE  u[i] < u[j]
    BY DEF Log!Increasing, Log!NoLine
  <2>0. i \in Int /\ j \in Int
    BY <1>l
  <2>1. CASE i \in DOMAIN s /\ u[i] = s[i] /\ j \in DOMAIN s /\ u[j] = s[j]
    <3>1. Log!Increasing(s)
      BY <1>0 DEF FilesOk
    <3> QED BY <2>1, <3>1 DEF Log!Increasing, Log!NoLine
  <2>2. CASE i \in DOMAIN s /\ u[i] = s[i] /\ j - Len(s) \in DOMAIN lines /\ u[j] = lines[j - Len(s)]
    <3> PICK x, y : x = u[j] /\ y = u[i]
      OBVIOUS
    <3>1. x \in Nat /\ (x = 0 \/ x \in e + 1 .. e2) /\ y <= e /\ y \in Nat /\ x # 0
      BY <1>5, <2>2, Zenon
    <3>2. y < x
      BY ONLY <3>1, e \in Nat, e2 \in Nat
    <3> QED BY <3>2, Zenon
  <2>3. CASE /\ i - Len(s) \in DOMAIN lines /\ u[i] = lines[i - Len(s)]
             /\ j - Len(s) \in DOMAIN lines /\ u[j] = lines[j - Len(s)]
    <3> PICK a, b : a = i - Len(s) /\ b = j - Len(s)
      OBVIOUS
    <3>1. a \in DOMAIN lines /\ b \in DOMAIN lines /\ a < b /\ u[i] = lines[a] /\ u[j] = lines[b]
      BY <1>l, <2>0, <2>3
    <3> QED BY <3>1 DEF NewLines, Log!Increasing, Log!NoLine
  <2>4. CASE i > Len(s) /\ j \in DOMAIN s
    BY <1>1, <2>0, <2>4
  <2> QED BY <1>1, <2>1, <2>2, <2>3, <2>4
<1>9. ASSUME NEW i \in FileNo
      PROVE  Len(g[i]) <= FileCap /\ Log!Increasing(g[i]) /\ \A k \in DOMAIN g[i] : g[i][k] <= e2
  <2>1. CASE i = 0
    <3>1. g[i] = u
      BY <1>3, <2>1
    <3> QED BY <1>6, <1>7, <1>8, <3>1
  <2>2. CASE i # 0
    <3>1. g[i] = f[i]
      BY <1>3, <2>2
    <3>2. Len(f[i]) <= FileCap /\ Log!Increasing(f[i]) /\ \A k \in DOMAIN f[i] : f[i][k] <= e
      BY DEF FilesOk
    <3>3. \A k \in DOMAIN f[i] : f[i][k] \in Nat
      BY <1>0
    <3>4. \A k \in DOMAIN f[i] : f[i][k] <= e2
      BY <3>2, <3>3
    <3> QED BY <3>1, <3>2, <3>4, Zenon
  <2> QED BY <2>1, <2>2
<1>10. ASSUME NEW i \in FileNo, NEW j \in FileNo, i < j PROVE Log!Before(g[j], g[i])
  <2>00. j # 0
    BY <1>10 DEF FileNo
  <2>0. j # 0 /\ g[j] = f[j] /\ Log!Before(f[j], f[i])
    BY <1>3, <1>10, <2>00, Zenon DEF FilesOk
  <2>1. CASE i # 0
    BY <1>3, <2>0, <2>1
  <2>2. CASE i = 0
    <3>1. g[i] = u /\ Log!Before(f[j], s)
      BY <1>3, <2>0, <2>2
    <3> SUFFICES ASSUME NEW a \in DOMAIN f[j], NEW b \in DOMAIN u, f[j][a] # 0, u[b] # 0
                 PROVE  f[j][a] < u[b]
      BY <2>0, <3>1 DEF Log!Before, Log!NoLine
    <3>2. CASE b \in DOMAIN s /\ u[b] = s[b]
      BY <3>1, <3>2 DEF Log!Before, Log!NoLine
    <3>3. CASE b - Len(s) \in DOMAIN lines /\ u[b] = lines[b - Len(s)]
      <4> PICK x, y : x = u[b] /\ y = f[j][a]
        OBVIOUS
      <4>1. x \in Nat /\ (x = 0 \/ x \in e + 1 .. e2) /\ x # 0
        BY <1>5, <3>3, Zenon
      <4>2. y <= e /\ y \in Nat
        BY <1>0 DEF FilesOk
      <4>3. y < x
        BY ONLY <4>1, <4>2, e \in Nat, e2 \in Nat
      <4> QED BY <4>3, Zenon
    <3> QED BY <1>1, <3>2, <3>3
  <2> QED BY <2>1, <2>2
<1> QED BY <1>2, <1>4, <1>9, <1>10 DEF FilesOk

LEMMA LaterOk ==
    ASSUME NEW e \in Nat, NEW e2 \in Nat, e <= e2, NEW f, FilesOk(f, e)
    PROVE  FilesOk(f, e2)
<1>1. \A i \in FileNo : \A k \in DOMAIN f[i] : f[i][k] \in Nat /\ f[i][k] <= e
  BY DEF FilesOk
<1>2. \A i \in FileNo : \A k \in DOMAIN f[i] : f[i][k] <= e2
  BY <1>1
<1> QED BY <1>2, Zenon DEF FilesOk

LEMMA WriteKeeps ==
    ASSUME NEW e \in Nat, NEW e2 \in Nat, e <= e2, NEW f, FilesOk(f, e), NEW lines,
           NewLines(lines, e, e2), NEW fd \in BOOLEAN, NEW w \in Log!LogWrite(f, fd, lines)
    PROVE  FilesOk(w.f, e2) /\ w.fd \in BOOLEAN
<1> DEFINE rotated == IF fd /\ Log!Size(f) + Len(lines) > FileCap THEN Log!LogRotate(f)
                      ELSE {[f |-> f, fd |-> fd]}
           fits(s) == s.fd /\ Log!Size(s.f) + Len(lines) <= FileCap
<1>1. PICK s \in rotated : w \in IF fits(s) THEN Log!Written(s.f, lines) ELSE Log!Refused(s)
  BY Zenon DEF Log!LogWrite
<1>2. FilesOk(s.f, e) /\ s.fd \in BOOLEAN
  <2>1. CASE s \in Log!LogRotate(f)
    BY <2>1, RotateKeeps
  <2>2. CASE s = [f |-> f, fd |-> fd]
    <3>1. s.f = f /\ s.fd = fd
      BY <2>2
    <3> QED BY <3>1
  <2> QED BY <2>1, <2>2, Zenon
<1> HIDE DEF rotated
<1>3. CASE ~fits(s)
  <2>0. w \in Log!Refused(s)
    BY <1>1, <1>3, Zenon
  <2>1. w = [f |-> s.f, fd |-> s.fd, ok |-> FALSE]
    BY <2>0, Zenon DEF Log!Refused
  <2>2. w.f = s.f /\ w.fd = s.fd
    BY <2>1
  <2>3. FilesOk(s.f, e2)
    BY <1>2, LaterOk
  <2> QED BY <1>2, <2>2, <2>3
<1>4. CASE fits(s)
  <2> PICK h : h = s.f
    OBVIOUS
  <2>0. w \in Log!Written(h, lines)
    BY <1>1, <1>4, Zenon
  <2>1. PICK n \in 0 .. Len(lines) :
          w = [f |-> [h EXCEPT ![0] = @ \o SubSeq(lines, 1, n)], fd |-> TRUE, ok |-> n = Len(lines)]
    BY <2>0, Zenon DEF Log!Written
  <2>2. w.f = [h EXCEPT ![0] = @ \o SubSeq(lines, 1, n)] /\ w.fd = TRUE
    BY <2>1
  <2>3. Log!Size(h) + Len(lines) <= FileCap
    BY <1>4
  <2>4. FilesOk(h, e)
    BY <1>2
  <2>5. FilesOk([h EXCEPT ![0] = @ \o SubSeq(lines, 1, n)], e2)
    BY <2>3, <2>4, AppendKeeps
  <2> QED BY <2>2, <2>5
<1> QED BY <1>3, <1>4

LEMMA ModStart ==
    ASSUME NEW n \in Nat \ {0}, NEW r \in Nat, NEW d \in 0 .. n - 1
    PROVE  (((r + d) % n) - r) % n = d
<1> PICK a \in Int : a = r + d
  OBVIOUS
<1> PICK m \in Int : m = 0 - r
  OBVIOUS
<1>1. ((a % n) + m) % n = (a + m) % n
  BY ModAdd
<1> PICK x \in Int : x = a % n
  BY ModRange
<1>2. x + m = x - r /\ a + m = d
  OBVIOUS
<1>3. d % n = d
  <2>1. n * 0 + d = d
    OBVIOUS
  <2> QED BY <2>1, ModUnique
<1> QED BY <1>1, <1>2, <1>3

LEMMA LogInvInit == Log!LogInit => LogInv
<1> SUFFICES ASSUME Log!LogInit PROVE LogInv
  OBVIOUS
<1>c. /\ RingSlots \in Nat \ {0} /\ RingSlots > 1 /\ Wrap \in Nat \ {0} /\ Keep \in Nat \ {0}
      /\ IsFiniteSet(Producer) /\ MaxRequests \in Nat /\ FileCap \in Nat
  BY LogConstants
<1>0. /\ reserved \in Nat /\ emitted = reserved /\ ring_head = CursorOf(reserved)
      /\ ring_tail = CursorOf(reserved)
      /\ seq = [s \in RingSlot |-> CursorOf(reserved + ((s - reserved) % RingSlots))]
      /\ line = [s \in RingSlot |-> 0]
  BY LogConstants DEF Log!LogInit, Log!NoLine, CursorOf, RingSlot
<1>1. /\ ppc = [p \in Producer |-> "idle"] /\ ppos = [p \in Producer |-> 0]
      /\ pline = [p \in Producer |-> 0] /\ requests = 0
      /\ dpc = "pop" /\ dline = 0 /\ batch = <<>> /\ log_fd = TRUE
      /\ files = [i \in FileNo |-> <<>>]
      /\ fpc = "idle" /\ fpos = 0 /\ fneed = 0
  BY DEF Log!LogInit, Log!NoLine, FileNo
<1>2. Popped = reserved
  BY <1>0, <1>1 DEF Popped
<1>3. LogTypes
  <2>1. seq \in [RingSlot -> Cursor]
    <3>1. \A s \in RingSlot : reserved + ((s - reserved) % RingSlots) \in Nat
      <4> SUFFICES ASSUME NEW s \in RingSlot
                   PROVE  reserved + ((s - reserved) % RingSlots) \in Nat
        OBVIOUS
      <4>1. s - reserved \in Int
        BY <1>0, <1>c DEF RingSlot
      <4>2. (s - reserved) % RingSlots \in 0 .. RingSlots - 1
        BY <1>c, <4>1, ModRange
      <4> QED BY <1>0, <1>c, <4>2
    <3>2. \A s \in RingSlot : CursorOf(reserved + ((s - reserved) % RingSlots)) \in Cursor
      BY <3>1, CursorIs
    <3> QED BY <1>0, <3>2
  <2>2. ppc \in [Producer -> {"idle", "look", "cas"} \cup Writing]
    BY <1>1
  <2>3. ppos \in [Producer -> Cursor] /\ pline \in [Producer -> Nat] /\ line \in [RingSlot -> Nat]
        /\ requests \in 0 .. MaxRequests
    BY <1>0, <1>1, <1>c DEF Cursor
  <2>4. batch \in Seq(Nat) /\ log_fd \in BOOLEAN /\ dline \in Nat
    BY <1>1
  <2> QED BY <1>0, <1>2, <2>1, <2>2, <2>3, <2>4 DEF LogTypes
<1>4. RingInv
  <2>1. ASSUME NEW k \in reserved .. reserved + RingSlots - 1
        PROVE  seq[SlotOf(k)] = CursorOf(k)
    <3> PICK d \in 0 .. RingSlots - 1 : k = reserved + d
      <4>1. k - reserved \in 0 .. RingSlots - 1 /\ k = reserved + (k - reserved)
        BY <1>0, <1>c
      <4> QED BY <4>1
    <3>1. (SlotOf(k) - reserved) % RingSlots = d
      BY <1>0, <1>c, ModStart DEF SlotOf
    <3>2. k \in Nat
      BY <1>0, <1>c
    <3>3. SlotOf(k) \in RingSlot
      BY <3>2, CursorIs
    <3> QED BY <1>0, <3>1, <3>3
  <2>2. reserved <= reserved + RingSlots /\ reserved <= reserved
    BY <1>0, <1>c
  <2> QED BY <1>2, <2>1, <2>2 DEF RingInv
<1>5. WriterInv
  BY <1>1 DEF WriterInv, Writing
<1>6. ReserveInv
  <2>1. Pending = {}
    BY <1>1 DEF Pending
  <2>2. Cardinality(Pending) = 0
    BY <2>1, FS_EmptySet
  <2>3. reserved \in 0 .. reserved /\ reserved + Cardinality(Pending) <= reserved + requests
    BY <1>0, <1>1, <2>2
  <2> QED BY <2>1, <2>3 DEF ReserveInv
<1>7. DrainInv
  BY <1>1 DEF DrainInv
<1>8. FilesOk(files, emitted)
  <2>1. \A i \in FileNo : files[i] = <<>>
    BY <1>1
  <2>2. files \in [FileNo -> Seq(Nat)]
    BY <1>1, EmptyFile
  <2>3. ASSUME NEW i \in FileNo
        PROVE  Len(files[i]) <= FileCap /\ Log!Increasing(files[i])
               /\ \A n \in DOMAIN files[i] : files[i][n] <= emitted
    <3> PICK x : x = files[i]
      OBVIOUS
    <3>1. x = <<>>
      BY <2>1
    <3>2. Len(x) <= FileCap /\ Log!Increasing(x) /\ \A n \in DOMAIN x : x[n] <= emitted
      BY ONLY <3>1, EmptyFile, LogConstants
    <3> QED BY <3>2
  <2>4. \A i, j \in FileNo : Log!Before(files[j], files[i])
    BY <2>1, EmptyFile
  <2> QED BY <2>2, <2>3, <2>4 DEF FilesOk
<1>9. FlushInv
  <2>1. 0 % Wrap = 0
    <3>1. Wrap * 0 + 0 = 0
      BY <1>c
    <3> QED BY <1>c, <3>1, ModUnique
  <2> QED BY <1>1, <2>1 DEF FlushInv, CursorOf
<1> QED BY <1>3, <1>4, <1>5, <1>6, <1>7, <1>8, <1>9 DEF LogInv

\* A producer's step leaves the drain what it has
LEMMA DrainKept ==
    ASSUME LogInv, UNCHANGED <<dpc, dline, batch, emitted, files>>, UNCHANGED <<fpc, fpos, fneed>>,
           Popped' = Popped, reserved' \in Nat, reserved <= reserved',
           seq[SlotOf(Popped)] = CursorOf(Popped + 1) => seq'[SlotOf(Popped)] = CursorOf(Popped + 1)
    PROVE  DrainInv' /\ FilesOk(files, emitted)' /\ FlushInv'
<1>1. DrainInv'
  <2>1. Popped \in Nat /\ reserved \in Nat
    BY PoppedNat DEF LogInv, LogTypes
  <2>2. dpc = "release" => /\ Popped < reserved' /\ dline = Popped + 1
                           /\ seq'[SlotOf(Popped)] = CursorOf(Popped + 1)
    BY <2>1 DEF LogInv, DrainInv
  <2>3. (dpc = "add" => dline = Popped) /\ \A i \in DOMAIN batch : batch[i] = emitted + i
    BY DEF LogInv, DrainInv
  <2> QED BY <2>2, <2>3 DEF DrainInv, SlotOf, CursorOf
<1>2. FilesOk(files, emitted)'
  BY DEF LogInv, FilesOk
<1>3. FlushInv'
  BY DEF LogInv, FlushInv, CursorOf
<1> QED BY <1>1, <1>2, <1>3

LEMMA ProducerKeeps ==
    ASSUME MaxRequests < Wrap, LogInv, NEW p \in Producer,
           Log!LogRequest(p) \/ Log!LogLook(p) \/ Log!LogCas(p) \/ Log!LogFill(p) \/ Log!LogPublish(p)
    PROVE  LogInv'
<1>0. LogTypes /\ RingInv /\ WriterInv /\ ReserveInv
  BY DEF LogInv
<1>1. /\ UNCHANGED <<dpc, dline, batch, emitted, files>> /\ UNCHANGED <<fpc, fpos, fneed>>
      /\ log_fd' = log_fd /\ ring_tail' = ring_tail
  BY DEF Log!LogRequest, Log!LogLook, Log!LogCas, Log!LogFill, Log!LogPublish, Log!drain, Log!flush,
         Log!ring
<1>2. Popped' = Popped
  BY <1>1 DEF Popped
<1>3. reserved \in Nat /\ Popped \in Nat /\ requests \in 0 .. MaxRequests /\ MaxRequests \in Nat
      /\ Wrap \in Nat \ {0}
  BY <1>0, PoppedNat, LogConstants DEF LogTypes
<1>4. ring_head \in Cursor
  BY <1>0, <1>3, CursorIs DEF LogTypes
<1>5. ASSUME seq' \in [RingSlot -> Cursor], line' \in [RingSlot -> Nat], reserved' \in Nat,
             requests' \in 0 .. MaxRequests, ppc' \in [Producer -> {"idle", "look", "cas"} \cup Writing],
             ppos' \in [Producer -> Cursor], pline' \in [Producer -> Nat],
             ring_head' = CursorOf(reserved'), reserved <= reserved',
             seq[SlotOf(Popped)] = CursorOf(Popped + 1) => seq'[SlotOf(Popped)] = CursorOf(Popped + 1),
             RingInv' /\ WriterInv' /\ ReserveInv'
      PROVE  LogInv'
  <2>1. LogTypes'
    <3>1. /\ batch' \in Seq(Nat) /\ emitted' \in Nat /\ dline' \in Nat /\ log_fd' \in BOOLEAN
          /\ ring_tail' = CursorOf(Popped')
      BY <1>0, <1>1, <1>2 DEF LogTypes
    <3>2. RingSlot' = RingSlot /\ Cursor' = Cursor /\ Writing' = Writing
          /\ CursorOf(reserved)' = CursorOf(reserved') /\ CursorOf(Popped)' = CursorOf(Popped')
      BY DEF RingSlot, Cursor, Writing, CursorOf
    <3> QED BY <1>5, <3>1, <3>2 DEF LogTypes
  <2>2. DrainInv' /\ FilesOk(files, emitted)' /\ FlushInv'
    BY <1>1, <1>2, <1>5, DrainKept
  <2> QED BY <1>5, <2>1, <2>2 DEF LogInv
<1>6. CASE Log!LogRequest(p)
  <2>1. RingInv' /\ WriterInv' /\ ReserveInv'
    BY <1>0, <1>2, <1>6, RequestKeeps
  <2>2. /\ requests < MaxRequests /\ requests' = requests + 1
        /\ ppos' = [ppos EXCEPT ![p] = ring_head] /\ ppc' = [ppc EXCEPT ![p] = "look"]
        /\ UNCHANGED <<seq, line, ring_head, reserved, pline>>
    BY <1>6 DEF Log!LogRequest, Log!ring
  <2>3. /\ ppos' \in [Producer -> Cursor] /\ requests' \in 0 .. MaxRequests
        /\ ppc' \in [Producer -> {"idle", "look", "cas"} \cup Writing]
    BY <1>0, <1>3, <1>4, <2>2 DEF LogTypes
  <2>4. /\ seq' \in [RingSlot -> Cursor] /\ line' \in [RingSlot -> Nat] /\ reserved' \in Nat
        /\ pline' \in [Producer -> Nat] /\ ring_head' = CursorOf(reserved') /\ reserved <= reserved'
    BY <1>0, <1>3, <2>2 DEF LogTypes
  <2> QED BY <1>5, <2>1, <2>2, <2>3, <2>4
<1>7. CASE Log!LogLook(p)
  <2>1. RingInv' /\ WriterInv' /\ ReserveInv'
    BY <1>0, <1>2, <1>7, LookKeeps
  <2>2. UNCHANGED <<seq, line, ring_head, reserved, pline, requests>>
    BY <1>7 DEF Log!LogLook, Log!ring
  <2>3. /\ ppos' \in [Producer -> Cursor]
        /\ ppc' \in [Producer -> {"idle", "look", "cas"} \cup Writing]
    <3>1. /\ ppos' = ppos \/ ppos' = [ppos EXCEPT ![p] = ring_head]
          /\ ppc' = ppc \/ ppc' = [ppc EXCEPT ![p] = "cas"] \/ ppc' = [ppc EXCEPT ![p] = "idle"]
      BY <1>7, Zenon DEF Log!LogLook
    <3> QED BY <1>0, <1>4, <3>1 DEF LogTypes
  <2>4. /\ seq' \in [RingSlot -> Cursor] /\ line' \in [RingSlot -> Nat] /\ reserved' \in Nat
        /\ pline' \in [Producer -> Nat] /\ ring_head' = CursorOf(reserved') /\ reserved <= reserved'
        /\ requests' \in 0 .. MaxRequests
    BY <1>0, <1>3, <2>2 DEF LogTypes
  <2> QED BY <1>5, <2>1, <2>2, <2>3, <2>4
<1>8. CASE Log!LogCas(p)
  <2>1. RingInv' /\ WriterInv' /\ ReserveInv'
    BY <1>0, <1>2, <1>8, CasKeeps
  <2>2. UNCHANGED <<seq, line, requests>>
    BY <1>8 DEF Log!LogCas
  <2>3. /\ reserved' \in Nat /\ ring_head' = CursorOf(reserved') /\ reserved <= reserved'
        /\ pline' \in [Producer -> Nat] /\ ppos' \in [Producer -> Cursor]
        /\ ppc' \in [Producer -> {"idle", "look", "cas"} \cup Writing]
    <3>1. CASE ring_head = ppos[p]
      <4>1. /\ reserved' = reserved + 1 /\ pline' = [pline EXCEPT ![p] = reserved + 1] /\ ppos' = ppos
            /\ ppc' = [ppc EXCEPT ![p] = "fill"] /\ ring_head' = (ring_head + 1) % Wrap
        BY <1>8, <3>1 DEF Log!LogCas
      <4>2. ring_head' = CursorOf(reserved')
        BY <1>0, <1>3, <4>1, CursorIs DEF LogTypes
      <4> QED BY <1>0, <1>3, <4>1, <4>2 DEF LogTypes, Writing
    <3>2. CASE ring_head # ppos[p]
      <4>1. /\ UNCHANGED <<reserved, pline, ring_head>> /\ ppos' = [ppos EXCEPT ![p] = ring_head]
            /\ ppc' = [ppc EXCEPT ![p] = "look"]
        BY <1>8, <3>2 DEF Log!LogCas
      <4> QED BY <1>0, <1>3, <1>4, <4>1 DEF LogTypes
    <3> QED BY <3>1, <3>2
  <2>4. /\ seq' \in [RingSlot -> Cursor] /\ line' \in [RingSlot -> Nat]
        /\ requests' \in 0 .. MaxRequests
    BY <1>0, <2>2 DEF LogTypes
  <2> QED BY <1>5, <2>1, <2>2, <2>3, <2>4
<1>9. CASE Log!LogFill(p)
  <2>1. RingInv' /\ WriterInv' /\ ReserveInv'
    BY <1>0, <1>2, <1>9, FillKeeps
  <2>2. /\ UNCHANGED <<seq, ring_head, reserved, ppos, pline, requests>>
        /\ line' = [line EXCEPT ![Log!Slot(ppos[p])] = pline[p]]
        /\ ppc' = [ppc EXCEPT ![p] = "publish"]
    BY <1>9 DEF Log!LogFill
  <2>3. line' \in [RingSlot -> Nat] /\ ppc' \in [Producer -> {"idle", "look", "cas"} \cup Writing]
    BY <1>0, <2>2 DEF LogTypes, Writing
  <2>4. /\ seq' \in [RingSlot -> Cursor] /\ reserved' \in Nat /\ requests' \in 0 .. MaxRequests
        /\ pline' \in [Producer -> Nat] /\ ring_head' = CursorOf(reserved') /\ reserved <= reserved'
        /\ ppos' \in [Producer -> Cursor]
    BY <1>0, <1>3, <2>2 DEF LogTypes
  <2> QED BY <1>5, <2>1, <2>2, <2>3, <2>4
<1>10. CASE Log!LogPublish(p)
  <2>1. /\ RingInv' /\ WriterInv' /\ ReserveInv'
        /\ seq[SlotOf(Popped)] = CursorOf(Popped + 1) => seq'[SlotOf(Popped)] = CursorOf(Popped + 1)
    BY <1>0, <1>2, <1>10, PublishKeeps
  <2>2. /\ UNCHANGED <<line, ring_head, reserved, ppos, requests>>
        /\ seq' = [seq EXCEPT ![Log!Slot(ppos[p])] = (ppos[p] + 1) % Wrap]
        /\ ppc' = [ppc EXCEPT ![p] = "idle"] /\ pline' = [pline EXCEPT ![p] = 0]
    BY <1>10 DEF Log!LogPublish, Log!NoLine
  <2>3. seq' \in [RingSlot -> Cursor]
    <3> PICK x : x = (ppos[p] + 1) % Wrap
      OBVIOUS
    <3>1. ppos[p] + 1 \in Int
      BY <1>0, <1>3 DEF LogTypes, Cursor
    <3>2. x \in Cursor
      BY <1>3, <3>1, ModRange DEF Cursor
    <3> QED BY <1>0, <2>2, <3>2 DEF LogTypes
  <2>4. /\ ppc' \in [Producer -> {"idle", "look", "cas"} \cup Writing] /\ pline' \in [Producer -> Nat]
    BY <1>0, <2>2 DEF LogTypes
  <2>5. /\ line' \in [RingSlot -> Nat] /\ reserved' \in Nat /\ requests' \in 0 .. MaxRequests
        /\ ring_head' = CursorOf(reserved') /\ reserved <= reserved' /\ ppos' \in [Producer -> Cursor]
    BY <1>0, <1>3, <2>2 DEF LogTypes
  <2> QED BY <1>5, <2>1, <2>3, <2>4, <2>5
<1> QED BY <1>6, <1>7, <1>8, <1>9, <1>10

LEMMA DrainStep ==
    ASSUME LogInv, Popped' = Popped,
           UNCHANGED <<seq, line, reserved, ring_head, ring_tail, ppc, ppos, pline, requests>>,
           batch' \in Seq(Nat), emitted' \in Nat, dline' \in Nat, log_fd' \in BOOLEAN,
           DrainInv', FilesOk(files', emitted'), FlushInv'
    PROVE  LogInv'
<1>1. RingInv' /\ WriterInv' /\ ReserveInv'
  BY RingSame DEF LogInv
<1>2. LogTypes'
  <2>1. RingSlot' = RingSlot /\ Cursor' = Cursor /\ Writing' = Writing
        /\ CursorOf(reserved)' = CursorOf(reserved') /\ CursorOf(Popped)' = CursorOf(Popped')
    BY DEF RingSlot, Cursor, Writing, CursorOf
  <2> QED BY <2>1 DEF LogInv, LogTypes
<1>3. FilesOk(files, emitted)'
  BY DEF FilesOk
<1> QED BY <1>1, <1>2, <1>3 DEF LogInv

\* The drain takes a line, batches it and hands the batch over
LEMMA PopKeeps ==
    ASSUME LogInv, Log!PopCopy \/ Log!PopRelease \/ Log!DrainAdd
    PROVE  LogInv'
<1>0. LogTypes /\ RingInv /\ WriterInv /\ ReserveInv /\ DrainInv /\ FilesOk(files, emitted) /\ FlushInv
  BY DEF LogInv
<1>c. /\ Popped \in Nat /\ Popped + 1 \in Nat /\ reserved \in Nat /\ emitted \in Nat /\ batch \in Seq(Nat)
      /\ Len(batch) \in Nat /\ dline \in Nat /\ RingSlots \in Nat /\ RingSlots > 1 /\ Wrap \in Nat /\ Wrap > 1
      /\ log_fd \in BOOLEAN
  BY <1>0, PoppedNat, LogConstants DEF LogTypes
<1>t. /\ ring_tail = CursorOf(Popped) /\ Log!Slot(ring_tail) = SlotOf(Popped)
      /\ SlotOf(Popped) \in RingSlot /\ (ring_tail + 1) % Wrap = CursorOf(Popped + 1)
      /\ (ring_tail + RingSlots) % Wrap = CursorOf(Popped + RingSlots)
  <2>1. ring_tail = CursorOf(Popped)
    BY <1>0 DEF LogTypes
  <2> QED BY <1>c, <2>1, CursorIs
<1>1. CASE Log!PopCopy
  <2>1. /\ dpc = "pop" /\ dpc' = "release" /\ dline' = line[SlotOf(Popped)]
        /\ seq[SlotOf(Popped)] = CursorOf(Popped + 1)
        /\ UNCHANGED <<seq, line, reserved, ring_head, ring_tail, ppc, ppos, pline, requests,
                       batch, emitted, files, log_fd, fpc, fpos, fneed>>
    BY <1>1, <1>t DEF Log!PopCopy, Log!ring, Log!producers, Log!flush
  <2>2. Popped' = Popped
    BY <2>1 DEF Popped
  <2>3. Popped < reserved /\ line[SlotOf(Popped)] = Popped + 1
    <3>1. CursorOf(Popped) # CursorOf(Popped + 1)
      BY <1>c, SlotsApart
    <3>2. Popped \in Popped .. Popped + RingSlots - 1
      BY <1>c
    <3> QED BY <1>0, <2>1, <3>1, <3>2 DEF RingInv
  <2>4. DrainInv'
    BY <1>0, <2>1, <2>2, <2>3 DEF DrainInv, SlotOf, CursorOf
  <2>5. FilesOk(files', emitted') /\ FlushInv'
    BY <1>0, <2>1 DEF FlushInv, CursorOf
  <2>6. dline' \in Nat /\ batch' \in Seq(Nat) /\ emitted' \in Nat /\ log_fd' \in BOOLEAN
    BY <1>c, <2>1, <2>3
  <2> QED BY <2>1, <2>2, <2>4, <2>5, <2>6, DrainStep
<1>2. CASE Log!PopRelease
  <2>1. /\ dpc = "release" /\ dpc' = "add"
        /\ seq' = [seq EXCEPT ![SlotOf(Popped)] = CursorOf(Popped + RingSlots)]
        /\ ring_tail' = CursorOf(Popped + 1)
        /\ UNCHANGED <<line, reserved, ring_head, ppc, ppos, pline, requests, dline,
                       batch, emitted, files, log_fd, fpc, fpos, fneed>>
    BY <1>2, <1>t DEF Log!PopRelease, Log!producers, Log!flush
  <2>2. Popped' = Popped + 1
    BY <1>c, <2>1 DEF Popped
  <2>3. Popped < reserved /\ dline = Popped + 1 /\ seq[SlotOf(Popped)] = CursorOf(Popped + 1)
    BY <1>0, <2>1 DEF DrainInv
  <2>4. RingInv' /\ WriterInv' /\ ReserveInv'
    BY <1>0, <2>1, <2>2, <2>3, ReleaseKeeps
  <2>5. DrainInv'
    BY <1>0, <2>1, <2>2, <2>3 DEF DrainInv
  <2>6. FilesOk(files, emitted)' /\ FlushInv'
    BY <1>0, <2>1 DEF FlushInv, CursorOf, FilesOk
  <2>7. LogTypes'
    <3>1. seq' \in [RingSlot -> Cursor]
      <4>1. CursorOf(Popped + RingSlots) \in Cursor
        BY <1>c, CursorIs
      <4> QED BY <1>0, <1>t, <2>1, <4>1 DEF LogTypes
    <3>2. RingSlot' = RingSlot /\ Cursor' = Cursor /\ Writing' = Writing
          /\ CursorOf(reserved)' = CursorOf(reserved') /\ CursorOf(Popped)' = CursorOf(Popped')
      BY DEF RingSlot, Cursor, Writing, CursorOf
    <3>3. ring_tail' = CursorOf(Popped')
      BY <2>1, <2>2
    <3> HIDE DEF Cursor
    <3> QED BY <1>0, <2>1, <3>1, <3>2, <3>3 DEF LogTypes
  <2> QED BY <2>4, <2>5, <2>6, <2>7 DEF LogInv
<1>3. CASE Log!DrainAdd
  <2>1. /\ dpc = "add" /\ dpc' = "pop" /\ batch' = Append(batch, dline) /\ dline' = 0
        /\ UNCHANGED <<seq, line, reserved, ring_head, ring_tail, ppc, ppos, pline, requests,
                       emitted, files, log_fd, fpc, fpos, fneed>>
    BY <1>3 DEF Log!DrainAdd, Log!ring, Log!producers, Log!flush, Log!NoLine
  <2>2. Popped = emitted + Len(batch) + 1 /\ dline = Popped
    BY <1>0, <2>1 DEF Popped, DrainInv
  <2>3. /\ batch' \in Seq(Nat) /\ Len(batch') = Len(batch) + 1 /\ DOMAIN batch' = 1 .. Len(batch) + 1
        /\ \A i \in 1 .. Len(batch) : batch'[i] = batch[i]
        /\ batch'[Len(batch) + 1] = dline /\ DOMAIN batch = 1 .. Len(batch)
    BY <1>c, <2>1
  <2>4. Popped' = Popped
    <3>1. Popped' = emitted' + Len(batch') + 0
      BY <2>1 DEF Popped
    <3> QED BY <1>c, <2>1, <2>2, <2>3, <3>1
  <2>5. \A i \in DOMAIN batch' : batch'[i] = emitted + i
    <3> SUFFICES ASSUME NEW i \in DOMAIN batch' PROVE batch'[i] = emitted + i
      OBVIOUS
    <3>1. CASE i = Len(batch) + 1
      BY <1>c, <2>2, <2>3, <3>1
    <3>2. CASE i # Len(batch) + 1
      <4>1. i \in 1 .. Len(batch)
        BY <1>c, <2>3, <3>2
      <4> QED BY <1>0, <2>3, <4>1 DEF DrainInv
    <3> QED BY <3>1, <3>2
  <2>6. DrainInv'
    BY <2>1, <2>5 DEF DrainInv
  <2>7. FilesOk(files', emitted') /\ FlushInv'
    BY <1>0, <2>1 DEF FlushInv, CursorOf
  <2>8. dline' \in Nat /\ emitted' \in Nat /\ log_fd' \in BOOLEAN
    BY <1>c, <2>1
  <2> QED BY <2>1, <2>3, <2>4, <2>6, <2>7, <2>8, DrainStep
<1> QED BY <1>1, <1>2, <1>3

LEMMA HandOverKeeps ==
    ASSUME LogInv, Log!DrainWrite \/ Log!DrainReport
    PROVE  LogInv'
<1>0. LogTypes /\ DrainInv /\ FilesOk(files, emitted) /\ FlushInv
  BY DEF LogInv
<1>c. /\ emitted \in Nat /\ batch \in Seq(Nat) /\ Len(batch) \in Nat /\ dline \in Nat
      /\ DOMAIN batch = 1 .. Len(batch) /\ log_fd \in BOOLEAN /\ Popped \in Nat
  BY <1>0, PoppedNat DEF LogTypes
<1>1. CASE Log!DrainWrite
  <2>1. /\ dpc' = (IF dpc = "add" THEN "add" ELSE "look") /\ dpc \in {"add", "pop"}
        /\ batch' = <<>> /\ emitted' = emitted + Len(batch)
        /\ UNCHANGED <<seq, line, reserved, ring_head, ring_tail, ppc, ppos, pline, requests,
                       dline, fpc, fpos, fneed>>
    BY <1>1 DEF Log!DrainWrite, Log!ring, Log!producers, Log!flush
  <2>2. PICK w \in Log!LogWrite(files, log_fd, batch) : files' = w.f /\ log_fd' = w.fd
    BY <1>1, Zenon DEF Log!DrainWrite
  <2>3. NewLines(batch, emitted, emitted')
    <3>1. \A i \in DOMAIN batch : batch[i] = emitted + i
      BY <1>0 DEF DrainInv
    <3>2. Log!Increasing(batch)
      BY <1>c, <3>1 DEF Log!Increasing
    <3>3. \A i \in DOMAIN batch : batch[i] \in emitted + 1 .. emitted'
      BY <1>c, <2>1, <3>1
    <3> QED BY <1>c, <3>2, <3>3 DEF NewLines
  <2>4. emitted' \in Nat /\ emitted <= emitted'
    BY <1>c, <2>1
  <2>5. FilesOk(w.f, emitted') /\ w.fd \in BOOLEAN
    BY <1>0, <1>c, <2>2, <2>3, <2>4, WriteKeeps
  <2>6. FilesOk(files', emitted') /\ log_fd' \in BOOLEAN
    BY <2>2, <2>5
  <2>7. batch' \in Seq(Nat) /\ Len(batch') = 0 /\ DOMAIN batch' = {}
    BY <2>1
  <2>8. Popped' = Popped
    <3>1. dpc' = "add" <=> dpc = "add"
      BY <2>1
    <3>2. Popped' = emitted' + 0 + (IF dpc = "add" THEN 1 ELSE 0)
      BY <2>7, <3>1 DEF Popped
    <3>3. emitted' + 0 + (IF dpc = "add" THEN 1 ELSE 0) = Popped
      BY <1>c, <2>1 DEF Popped
    <3> QED BY <3>2, <3>3
  <2>9. DrainInv'
    <3>1. dpc' # "release" /\ (dpc' = "add" => dpc = "add")
      BY <2>1
    <3>2. dpc' = "add" => dline' = Popped'
      BY <1>0, <2>1, <2>8, <3>1 DEF DrainInv
    <3> QED BY <2>7, <3>1, <3>2 DEF DrainInv
  <2>10. FlushInv'
    <3>1. fneed \in Nat /\ fpos = CursorOf(fneed) /\ fpos \in Nat
      BY <1>0, CursorIs DEF FlushInv, Cursor
    <3>2. fpc = "flushed" => emitted' >= fpos
      BY <1>0, <1>c, <2>4, <3>1 DEF FlushInv
    <3> QED BY <2>1, <3>1, <3>2 DEF FlushInv, CursorOf
  <2>11. dline' \in Nat
    BY <1>c, <2>1
  <2> QED BY <2>1, <2>4, <2>6, <2>7, <2>8, <2>9, <2>10, <2>11, DrainStep
<1>2. CASE Log!DrainReport
  <2>1. UNCHANGED <<seq, line, reserved, ring_head, ring_tail, ppc, ppos, pline, requests,
                    dpc, dline, batch, emitted, fpc, fpos, fneed>>
    BY <1>2 DEF Log!DrainReport, Log!ring, Log!producers, Log!flush
  <2>2. PICK w \in Log!LogWrite(files, log_fd, <<0>>) : files' = w.f /\ log_fd' = w.fd
    BY <1>2, Zenon DEF Log!DrainReport, Log!NoLine
  <2>3. NewLines(<<0>>, emitted, emitted)
    <3> PICK s : s = <<0>>
      OBVIOUS
    <3>1. s \in Seq(Nat) /\ \A i \in DOMAIN s : s[i] = 0
      OBVIOUS
    <3>2. Log!Increasing(s)
      BY <3>1 DEF Log!Increasing, Log!NoLine
    <3> QED BY <3>1, <3>2 DEF NewLines
  <2>4. emitted <= emitted
    BY <1>c
  <2>5. FilesOk(w.f, emitted) /\ w.fd \in BOOLEAN
    BY <1>0, <1>c, <2>2, <2>3, <2>4, WriteKeeps
  <2>6. FilesOk(files', emitted') /\ log_fd' \in BOOLEAN
    BY <2>1, <2>2, <2>5
  <2>7. Popped' = Popped
    BY <2>1 DEF Popped
  <2>8. DrainInv'
    BY <1>0, <2>1, <2>7 DEF DrainInv, SlotOf, CursorOf
  <2>9. FlushInv'
    BY <1>0, <2>1 DEF FlushInv, CursorOf
  <2>10. dline' \in Nat /\ batch' \in Seq(Nat) /\ emitted' \in Nat
    BY <1>c, <2>1
  <2> QED BY <2>1, <2>6, <2>7, <2>8, <2>9, <2>10, DrainStep
<1> QED BY <1>1, <1>2

LEMMA OthersKeep ==
    ASSUME LogInv,
           \/ Log!DrainEmpty \/ Log!DrainLook \/ Log!DrainEnd \/ Log!LogShutdown \/ Log!FlushLoad
           \/ Log!FlushTest \/ Log!FlushGivesUp \/ UNCHANGED Log!logVars
    PROVE  LogInv'
<1>0. LogTypes /\ DrainInv /\ FilesOk(files, emitted) /\ FlushInv
  BY DEF LogInv
<1>c. emitted \in Nat /\ batch \in Seq(Nat) /\ dline \in Nat /\ log_fd \in BOOLEAN /\ reserved \in Nat
  BY <1>0 DEF LogTypes
<1>1. /\ UNCHANGED <<seq, line, reserved, ring_head, ring_tail, ppc, ppos, pline, requests>>
      /\ UNCHANGED <<dline, batch, emitted, files>> /\ log_fd' \in {log_fd, FALSE}
  BY DEF Log!DrainEmpty, Log!DrainLook, Log!DrainEnd, Log!LogShutdown, Log!FlushLoad,
         Log!FlushTest, Log!FlushGivesUp, Log!logVars, Log!ring, Log!producers, Log!drain
<1>2. dpc' = dpc \/ (dpc # "add" /\ dpc' \notin {"add", "release"})
  BY DEF Log!DrainEmpty, Log!DrainLook, Log!DrainEnd, Log!LogShutdown, Log!FlushLoad,
         Log!FlushTest, Log!FlushGivesUp, Log!logVars, Log!drain
<1>3. \/ UNCHANGED <<fpc, fpos, fneed>>
      \/ fneed' = reserved /\ fpos' = ring_head /\ fpc' # "flushed"
      \/ UNCHANGED <<fpos, fneed>> /\ (fpc' = "flushed" => emitted >= fpos)
  BY DEF Log!DrainEmpty, Log!DrainLook, Log!DrainEnd, Log!LogShutdown, Log!FlushLoad,
         Log!FlushTest, Log!FlushGivesUp, Log!logVars, Log!flush
<1>4. Popped' = Popped
  BY <1>1, <1>2 DEF Popped
<1>5. DrainInv'
  BY <1>0, <1>1, <1>2, <1>4 DEF DrainInv, SlotOf, CursorOf
<1>6. FlushInv'
  BY <1>0, <1>1, <1>3, <1>c DEF FlushInv, CursorOf, LogTypes
<1>7. FilesOk(files', emitted') /\ log_fd' \in BOOLEAN /\ batch' \in Seq(Nat) /\ emitted' \in Nat
      /\ dline' \in Nat
  BY <1>0, <1>1, <1>c
<1> QED BY <1>1, <1>4, <1>5, <1>6, <1>7, DrainStep

LEMMA LogInvNext == MaxRequests < Wrap /\ LogInv /\ [Log!LogNext]_Log!logVars => LogInv'
<1> SUFFICES ASSUME MaxRequests < Wrap, LogInv, [Log!LogNext]_Log!logVars PROVE LogInv'
  OBVIOUS
<1>1. CASE \E p \in Producer :
        Log!LogRequest(p) \/ Log!LogLook(p) \/ Log!LogCas(p) \/ Log!LogFill(p) \/ Log!LogPublish(p)
  BY <1>1, ProducerKeeps
<1>2. CASE Log!PopCopy \/ Log!PopRelease \/ Log!DrainAdd
  BY <1>2, PopKeeps
<1>3. CASE Log!DrainWrite \/ Log!DrainReport
  BY <1>3, HandOverKeeps
<1>4. CASE \/ Log!DrainEmpty \/ Log!DrainLook \/ Log!DrainEnd \/ Log!LogShutdown \/ Log!FlushLoad
           \/ Log!FlushTest \/ Log!FlushGivesUp \/ UNCHANGED Log!logVars
  BY <1>4, OthersKeep
<1> QED BY <1>1, <1>2, <1>3, <1>4 DEF Log!LogNext

LEMMA LogInvFaithful == LogInv => LogFaithful
<1> SUFFICES ASSUME LogInv PROVE LogFaithful
  OBVIOUS
<1>0. LogTypes /\ DrainInv /\ FilesOk(files, emitted) /\ FlushInv
  BY DEF LogInv
<1>c. emitted \in Nat /\ batch \in Seq(Nat) /\ Len(batch) \in Nat /\ DOMAIN batch = 1 .. Len(batch)
      /\ DOMAIN files = FileNo /\ \A i \in DOMAIN batch : batch[i] = emitted + i
  BY <1>0 DEF LogTypes, FilesOk, DrainInv
<1>1. Log!Increasing(batch)
  BY <1>c DEF Log!Increasing
<1>2. ASSUME NEW i \in FileNo PROVE Log!Before(files[i], batch)
  <2>1. \A k \in DOMAIN files[i] : files[i][k] \in Nat /\ files[i][k] <= emitted
    BY <1>0 DEF FilesOk
  <2> QED BY <1>c, <2>1 DEF Log!Before
<1>3. Log!LogInOrder
  BY <1>0, <1>1, <1>2, <1>c DEF Log!LogInOrder, FilesOk
<1>4. Log!LogBounded
  BY <1>0, <1>c DEF Log!LogBounded, FilesOk
<1>5. Log!FlushWaits
  <2> SUFFICES ASSUME fpc = "flushed", fneed < Wrap PROVE emitted >= fneed
    BY DEF Log!FlushWaits
  <2>1. fneed \in Nat /\ Wrap \in Nat \ {0} /\ fpos = CursorOf(fneed) /\ emitted >= fpos
    BY <1>0, LogConstants DEF FlushInv
  <2>2. CursorOf(fneed) = fneed
    <3>1. fneed \in 0 .. Wrap - 1 /\ Wrap * 0 + fneed = fneed
      BY <2>1
    <3> QED BY <2>1, <3>1, ModUnique DEF CursorOf
  <2> QED BY <2>1, <2>2
<1> QED BY <1>3, <1>4, <1>5 DEF LogFaithful

\* The access log is faithful: lines reach the disk in the order in which they were
\* reserved, none twice and none stale, whatever order the producers fill their
\* slots in, wherever the cursors wrap and whichever renames, truncations and
\* writes fail; no file outgrows its cap; a flush that returns early has seen its
\* lines handed over (olog.c).  A producer that sleeps between its look at a slot
\* and its compare-and-swap while the counter makes a whole turn would see its old
\* position as current: the theorem is about runs with fewer requests than that.
THEOREM LogIsFaithful == MaxRequests < Wrap => (Log!LogSpec => []LogFaithful)
<1>1. CASE MaxRequests < Wrap
  <2>1. LogInv /\ [Log!LogNext]_Log!logVars => LogInv'
    BY <1>1, LogInvNext
  <2>2. Log!LogSpec => []LogFaithful
    BY LogInvInit, <2>1, LogInvFaithful, PTL DEF Log!LogSpec
  <2> QED BY <2>2
<1> QED BY <1>1

-----------------------------------------------------------------------------
(* The sum                                                                 *)

\* A step of the sum is a step of the service that moves and leaves the
\* others as they are
LEMMA EachInTurn ==
    ASSUME [LogMoves \/ AuthMoves \/ ScaleMoves \/ RouteMoves \/ HttpMoves]_allVars
    PROVE  /\ [Log!LogNext]_(Log!logVars) /\ [Auth!AuthNext]_(Auth!authVars)
           /\ [Scale!ScaleNext]_(Scale!scaleVars) /\ [Route!RouteNext]_(Route!routeVars)
           /\ [Http!Next]_(Http!vars)
<1> USE DEF logVars, authVars, scaleVars, routeVars, httpVars
<1>1. UNCHANGED logVars => UNCHANGED Log!logVars
  BY DEF Log!logVars, Log!ring, Log!producers, Log!drain, Log!flush
<1>2. UNCHANGED authVars => UNCHANGED Auth!authVars
  BY DEF Auth!authVars
<1>3. UNCHANGED scaleVars => UNCHANGED Scale!scaleVars
  BY DEF Scale!scaleVars
<1>4. UNCHANGED routeVars => UNCHANGED Route!routeVars
  BY DEF Route!routeVars, Route!sched
<1>5. UNCHANGED httpVars => UNCHANGED Http!vars
  BY DEF Http!vars, Http!conns
<1> HIDE DEF logVars, authVars, scaleVars, routeVars, httpVars
<1> QED BY <1>1, <1>2, <1>3, <1>4, <1>5, Zenon
        DEF LogMoves, AuthMoves, ScaleMoves, RouteMoves, HttpMoves, allVars

\* What the services promise on their own holds of the specification the run
\* checks: each service's part of its behaviours is a behaviour of the service.
THEOREM ServicesInGateway ==
    GatewaySpec => /\ Log!LogSpec /\ Auth!AuthSpec /\ Scale!ScaleSpec
                   /\ Route!RouteSpec /\ Http!Spec
<1>1. GatewayInit => /\ Log!LogInit /\ Auth!AuthInit /\ Scale!ScaleInit
                     /\ Route!RouteInit /\ Http!Init
  BY DEF GatewayInit
<1> QED BY <1>1, EachInTurn, PTL
        DEF GatewaySpec, Log!LogSpec, Auth!AuthSpec, Scale!ScaleSpec, Route!RouteSpec, Http!Spec
=============================================================================
