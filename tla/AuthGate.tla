------------------------------ MODULE AuthGate ------------------------------
(***************************************************************************)
(* The public auth gate of src/src/main.c: auth_gate with its mode file,   *)
(* the subscriber cache in front of the verifier, and the tier a request   *)
(* is then scheduled at (request_tier).  Times are seconds; between two    *)
(* waits a thread takes no time, a question to the verifier takes some.    *)
(***************************************************************************)
EXTENDS Integers, FiniteSets, FiniteSetsExt

CONSTANTS
    AuthThread,  \* request threads
    Cred,        \* end-user credentials
    HashOf,      \* cred_hash modulo SUBCACHE_N, a function of Cred
    OkTtl, DenyTtl, StaleTtl,
    ModeTtl,     \* the mode file is read again after this long
    Modes,       \* the contents of the mode file that occur, "none" unreadable
    MaxTime      \* bound: the clock

AuthAssumption ==
    /\ OkTtl \in Nat \ {0} /\ DenyTtl \in Nat \ {0} /\ StaleTtl \in Nat /\ ModeTtl \in Nat \ {0}
    /\ Modes \subseteq {"off", "shadow", "enforce", "none"} /\ DOMAIN HashOf = Cred

VARIABLES
    clock,      \* time(NULL)
    subcache,   \* g_subcache
    authMode,   \* g_auth_mode
    modeFile,   \* what OMNISERVE_NATIVE_AUTH_MODE_FILE says
    modeRead,   \* g_auth_mode_checked
    account,    \* what the verifier would say of a credential, if it answers
    apc,        \* place of each thread
    areq,       \* its request: credential, verdict, tier and how it ends
    said        \* auxiliary: when the verifier last gave each verdict of each credential

authVars == <<clock, subcache, authMode, modeFile, modeRead, account, apc, areq, said>>

\* A verdict: the subscriber's tier, or a refusal
Tiers == {"sub", "paid"}
Refusals == {"401", "402"}
NobodyKnown == [cred |-> "nobody", verdict |-> "401", fresh |-> 0, stale |-> 0]
NoRequest == [cred |-> "nobody", verdict |-> "401", tier |-> "free", ends |-> "none"]
Positive(v) == v \notin Refusals

AuthInit ==
    /\ clock = 1 /\ modeRead = 0
    /\ subcache = [h \in Range(HashOf) |-> NobodyKnown]
    /\ authMode \in Modes \ {"none"} /\ modeFile = authMode
    /\ account \in [Cred -> {"sub", "401"}]
    /\ apc = [a \in AuthThread |-> "idle"] /\ areq = [a \in AuthThread |-> NoRequest]
    /\ said = [c \in Cred |-> [ok |-> -1, deny |-> -1]]

AuthGoto(a, at, r) == apc' = [apc EXCEPT ![a] = at] /\ areq' = [areq EXCEPT ![a] = r]

-----------------------------------------------------------------------------
(* The world: time, the operator's file, the accounts                      *)

AuthTick ==
    /\ clock < MaxTime
    /\ \A a \in AuthThread : apc[a] \in {"idle", "verify"}
    /\ clock' = clock + 1
    /\ UNCHANGED <<subcache, authMode, modeFile, modeRead, account, apc, areq, said>>
WriteMode(m) ==
    /\ modeFile # m
    /\ modeFile' = m
    /\ UNCHANGED <<clock, subcache, authMode, modeRead, account, apc, areq, said>>
AccountChanges(c, v) ==
    /\ account[c] # v
    /\ account' = [account EXCEPT ![c] = v]
    /\ UNCHANGED <<clock, subcache, authMode, modeFile, modeRead, apc, areq, said>>

-----------------------------------------------------------------------------
(* auth_gate                                                               *)

\* auth_mode_refresh: one thread at a time looks, at most every ModeTtl seconds
AuthArrive(a, c) ==
    /\ apc[a] = "idle"
    /\ IF clock - modeRead >= ModeTtl
       THEN modeRead' = clock /\ AuthGoto(a, "mode", [NoRequest EXCEPT !.cred = c])
       ELSE AuthGoto(a, "gate", [NoRequest EXCEPT !.cred = c]) /\ UNCHANGED modeRead
    /\ UNCHANGED <<clock, subcache, authMode, modeFile, account, said>>
\* A missing or unreadable file keeps the mode
ReadMode(a) ==
    /\ apc[a] = "mode"
    /\ authMode' = IF modeFile = "none" THEN authMode ELSE modeFile
    /\ AuthGoto(a, "gate", areq[a])
    /\ UNCHANGED <<clock, subcache, modeFile, modeRead, account, said>>

\* subcache_get
SubSlot(c) == subcache[HashOf[c]]
SubFresh(c) == SubSlot(c).cred = c /\ clock < SubSlot(c).fresh
SubUsable(c) == SubSlot(c).cred = c /\ Positive(SubSlot(c).verdict) /\ clock < SubSlot(c).stale

\* The requests the gate lets pass without the cache: no gate, an internal peer, an
\* open path, a service credential
PassUnasked(a) ==
    /\ apc[a] = "gate"
    /\ AuthGoto(a, "done", [areq[a] EXCEPT !.ends = "passed"])
    /\ UNCHANGED <<clock, subcache, authMode, modeFile, modeRead, account, said>>
AuthCheck(a) ==
    /\ apc[a] = "gate" /\ authMode # "off"
    /\ IF SubFresh(areq[a].cred)
       THEN AuthGoto(a, "decide", [areq[a] EXCEPT !.verdict = SubSlot(areq[a].cred).verdict])
       ELSE AuthGoto(a, "verify", areq[a])
    /\ UNCHANGED <<clock, subcache, authMode, modeFile, modeRead, account, said>>

\* subscriber_verify_remote
VerifierAnswers(a) ==
    /\ apc[a] = "verify"
    /\ LET c == areq[a].cred v == account[c] IN
       /\ AuthGoto(a, "put", [areq[a] EXCEPT !.verdict = v])
       /\ said' = [said EXCEPT ![c] = IF Positive(v) THEN [@ EXCEPT !.ok = clock] ELSE [@ EXCEPT !.deny = clock]]
    /\ UNCHANGED <<clock, subcache, authMode, modeFile, modeRead, account>>

\* subcache_put
SubEntry(c, v) ==
    [cred |-> c, verdict |-> v, fresh |-> clock + (IF Positive(v) THEN OkTtl ELSE DenyTtl),
     stale |-> IF Positive(v) THEN clock + StaleTtl ELSE 0]
AuthPut(a) ==
    /\ apc[a] = "put"
    /\ subcache' = [subcache EXCEPT ![HashOf[areq[a].cred]] = SubEntry(areq[a].cred, areq[a].verdict)]
    /\ AuthGoto(a, "decide", areq[a])
    /\ UNCHANGED <<clock, authMode, modeFile, modeRead, account, said>>

\* Seeded fault: a stale verdict that is used is also stored again
VerifierFails_Stores(a) ==
    /\ apc[a] = "verify"
    /\ LET c == areq[a].cred IN
       IF SubUsable(c) THEN AuthGoto(a, "put", [areq[a] EXCEPT !.verdict = SubSlot(c).verdict])
       ELSE AuthGoto(a, "done", [areq[a] EXCEPT !.ends = IF authMode = "shadow" THEN "passed" ELSE "503"])
    /\ UNCHANGED <<clock, subcache, authMode, modeFile, modeRead, account, said>>
\* An outage: a recently verified subscriber is served from the stale entry, though
\* not when another thread has renewed it in the meantime (subcache_get is then 1, not 2)
VerifierFails(a) ==
    /\ apc[a] = "verify"
    /\ LET c == areq[a].cred IN
       IF SubUsable(c) /\ ~SubFresh(c) THEN AuthGoto(a, "decide", [areq[a] EXCEPT !.verdict = SubSlot(c).verdict])
       ELSE AuthGoto(a, "done", [areq[a] EXCEPT !.ends = IF authMode = "shadow" THEN "passed" ELSE "503"])
    /\ UNCHANGED <<clock, subcache, authMode, modeFile, modeRead, account, said>>

AuthDecide(a) ==
    /\ apc[a] = "decide"
    /\ LET v == areq[a].verdict IN
       \/ /\ Positive(v)
          /\ AuthGoto(a, "tier", areq[a])
       \/ /\ ~Positive(v)
          /\ AuthGoto(a, "done", [areq[a] EXCEPT !.ends = IF authMode = "shadow" THEN "passed" ELSE "refused"])
    /\ UNCHANGED <<clock, subcache, authMode, modeFile, modeRead, account, said>>
\* request_tier asks the cache again (request_subscriber_tier)
TierOf(c) == IF authMode # "off" /\ SubSlot(c).cred = c /\ Positive(SubSlot(c).verdict) /\ (SubFresh(c) \/ SubUsable(c))
             THEN SubSlot(c).verdict ELSE "free"
RequestTier(a) ==
    /\ apc[a] = "tier"
    /\ AuthGoto(a, "done", [areq[a] EXCEPT !.tier = TierOf(areq[a].cred), !.ends = "subscriber"])
    /\ UNCHANGED <<clock, subcache, authMode, modeFile, modeRead, account, said>>
AuthDone(a) ==
    /\ apc[a] = "done"
    /\ AuthGoto(a, "idle", NoRequest)
    /\ UNCHANGED <<clock, subcache, authMode, modeFile, modeRead, account, said>>

AuthNext ==
    \/ AuthTick
    \/ \E m \in Modes : WriteMode(m)
    \/ \E c \in Cred, v \in {"sub", "401"} : AccountChanges(c, v)
    \/ \E a \in AuthThread :
         \/ \E c \in Cred : AuthArrive(a, c)
         \/ ReadMode(a) \/ PassUnasked(a) \/ AuthCheck(a) \/ VerifierAnswers(a) \/ AuthPut(a) \/ VerifierFails(a)
         \/ AuthDecide(a) \/ RequestTier(a) \/ AuthDone(a)
AuthSpec == AuthInit /\ [][AuthNext]_authVars

-----------------------------------------------------------------------------
(* Properties                                                              *)

\* Every verdict a request is decided on was given by the verifier no longer ago than
\* it may be kept: a subscription that lapsed, or was taken out, is noticed in time,
\* also through an outage.  A stale entry that renewed itself would never be.
VerdictsExpire ==
    \A a \in AuthThread : apc[a] = "decide" =>
      LET c == areq[a].cred IN
      IF Positive(areq[a].verdict) THEN said[c].ok >= 0 /\ clock - said[c].ok <= Max({OkTtl, StaleTtl})
      ELSE said[c].deny >= 0 /\ clock - said[c].deny <= DenyTtl
=============================================================================
