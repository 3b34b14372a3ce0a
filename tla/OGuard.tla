------------------------------- MODULE OGuard -------------------------------
(***************************************************************************)
(* The three-stage content filter of src/src/oguard.c as request threads   *)
(* run it: lexical rules, an embedding stage that a worker thread seeds    *)
(* after start-up, a judge model with a verdict cache; and the scheduler   *)
(* of src/src/main.c that loads and evicts the judge.                      *)
(*                                                                         *)
(* A request is a window: the signals the matchers find in its text and    *)
(* what the models say of it.  Matchers and models are deterministic, so   *)
(* equal keys have equal windows.  Word lists, statistics and wording are  *)
(* left out.                                                               *)
(***************************************************************************)
EXTENDS Integers, FiniteSets, FiniteSetsExt

CONSTANTS
    GuardThread,  \* request threads
    Windows,      \* windows, by key
    Category,     \* prohibited categories: 1 minors, 2 non-consent, 3 real persons
    CatOn,        \* sets of enabled categories, of which one is configured
    JudgeSlots,   \* g_jcache_size
    AdmitTicks,   \* quiet ticks before the judge is admitted
    MaxClassify   \* bound: classifications

GuardAssumption ==
    /\ JudgeSlots \in Nat \ {0} /\ AdmitTicks \in Nat \ {0} /\ MaxClassify \in Nat
    /\ CatOn \subseteq SUBSET Category
    /\ \A k \in DOMAIN Windows : Windows[k].emb \in Category \cup {0} /\ Windows[k].found \subseteq Category

VARIABLES
    enabledCats,  \* g_cat_minor, g_cat_noncon, g_cat_real
    judgeAuto,    \* OMNISERVE_NATIVE_GUARD_JUDGE_AUTO
    judgeIn,      \* the judge model is resident
    judgeLive,    \* oguard.c's g_judge_live
    quietTicks,   \* stable of judge_admit_main
    embStage,     \* "seeding", "live", "off"
    jcache,       \* the verdict cache
    jgen,         \* g_jcache_gen
    gpc,          \* place of each thread
    gf,           \* its oguard_full
    gtotal,       \* g_classify_total
    history       \* auxiliary: windows decided with every stage answering, and how

judgeState == <<judgeAuto, judgeIn, judgeLive, quietTicks>>
guardVars == <<enabledCats, judgeState, embStage, jcache, jgen, gpc, gf, gtotal, history>>

Key == DOMAIN Windows
JSlot == 1 .. JudgeSlots
NoVerdict == [cat |-> 0, rule |-> "none", pyes |-> "low"]
NoEntry == [used |-> FALSE, key |-> 0, gen |-> 0, verdict |-> NoVerdict, clean |-> TRUE]
Blank == [key |-> 0, emb |-> 0, warm |-> FALSE, open |-> FALSE, judge |-> NoVerdict, ok |-> FALSE,
          cached |-> FALSE, clean |-> TRUE, final |-> 0]

\* Asked once whether the judge model is there
oguard_judge_warmup == judgeLive = judgeIn
\* main: the judge is loaded at start-up unless the scheduler is to admit it
GuardInit ==
    /\ enabledCats \in CatOn
    /\ judgeAuto \in BOOLEAN /\ judgeIn \in IF judgeAuto THEN {FALSE} ELSE BOOLEAN
    /\ oguard_judge_warmup /\ quietTicks = 0
    /\ embStage \in {"seeding", "off"}
    /\ jcache = [s \in JSlot |-> NoEntry] /\ jgen = 0
    /\ gpc = [g \in GuardThread |-> "idle"] /\ gf = [g \in GuardThread |-> Blank]
    /\ gtotal = 0 /\ history = {}

-----------------------------------------------------------------------------
(* The judge model comes and goes; the embedding stage comes up            *)

\* judge_admit_main: one tick of 15 s, with spare headroom and nobody queued or not
AdmitTick(quiet) ==
    /\ judgeAuto /\ ~judgeIn /\ quietTicks < AdmitTicks
    /\ quietTicks' = IF quiet THEN quietTicks + 1 ELSE 0
    /\ UNCHANGED <<enabledCats, judgeAuto, judgeIn, judgeLive, embStage, jcache, jgen, gpc, gf, gtotal, history>>
\* ojudge_init may fail, and the lease may be refused
Admit ==
    /\ judgeAuto /\ ~judgeIn /\ quietTicks = AdmitTicks
    /\ quietTicks' = 0 /\ judgeIn' \in BOOLEAN
    /\ UNCHANGED <<enabledCats, judgeAuto, judgeLive, embStage, jcache, jgen, gpc, gf, gtotal, history>>
\* gpu_pressure frees the judge first
EvictJudge ==
    /\ judgeAuto /\ judgeIn
    /\ judgeIn' = FALSE
    /\ UNCHANGED <<enabledCats, judgeAuto, judgeLive, quietTicks, embStage, jcache, jgen, gpc, gf, gtotal, history>>
\* emb_worker, which gives up without a model or without seeds of either kind
EmbSeed ==
    /\ embStage = "seeding"
    /\ embStage' \in {"live", "off"}
    /\ UNCHANGED <<enabledCats, judgeState, jcache, jgen, gpc, gf, gtotal, history>>

-----------------------------------------------------------------------------
(* classify_inner                                                          *)

Win(g) == Windows[gf[g].key]
Goto(g, at, f) == gpc' = [gpc EXCEPT ![g] = at] /\ gf' = [gf EXCEPT ![g] = f]

\* oguard_classify_lex_diag: the signals, of the categories switched on only ...
Strong(w) == w.strong \cap enabledCats      \* by words that need no other
Sig(w) == (w.found \cup w.strong) \cap enabledCats
Suppressed(w) == w.framing \/ w.edu \/ w.info \/ w.nosex
Pre(w) == w.sexual \/ w.suggest
User(w) == w.sexual \/ w.romance \/ Sig(w) # {}
\* ... and the first category with a rule that nothing in the text excuses
MinorRule(w) ==
    /\ ~w.edu /\ ~w.info
    /\ \/ 1 \in w.strong /\ ~w.framing
       \/ 1 \in w.found /\ w.sexual /\ (w.age \/ ~w.adult) /\ ~w.nosex
       \/ 1 \in w.found /\ w.groom /\ ~w.framing /\ ~w.nosex
NonconRule(w) ==
    /\ ~w.consent /\ ~w.framing /\ ~w.info
    /\ 2 \in w.strong \/ (2 \in w.found /\ Pre(w))
RealRule(w) == 3 \in w.found /\ w.sexual
Lex(w) ==
    LET rules == {c \in enabledCats : CASE c = 1 -> MinorRule(w) [] c = 2 -> NonconRule(w) [] c = 3 -> RealRule(w)}
    IN IF rules = {} THEN 0 ELSE Min(rules)
\* emb_skip_short: a short text without any signal goes no further
Skipped(w) == w.short /\ ~Pre(w) /\ ~User(w) /\ ~w.demand

\* A lexical block is final
ClassifyStart(g, k) ==
    /\ gpc[g] = "idle" /\ gtotal < MaxClassify
    /\ LET f == [Blank EXCEPT !.key = k, !.final = Lex(Windows[k])] IN
       Goto(g, IF f.final # 0 \/ Skipped(Windows[k]) THEN "end" ELSE "embed", f)
    /\ UNCHANGED <<enabledCats, judgeState, embStage, jcache, jgen, gtotal, history>>

\* emb_run
Embed(g) ==
    /\ gpc[g] = "embed"
    /\ Goto(g, "gate", [gf[g] EXCEPT !.warm = embStage = "live",
                                     !.emb = IF embStage = "live" THEN Win(g).emb ELSE 0])
    /\ UNCHANGED <<enabledCats, judgeState, embStage, jcache, jgen, gtotal, history>>

\* gate_short_open
ShortOpen(w) == Pre(w) \/ Strong(w) # {}
\* An embedding block behind a closed gate is dropped
Gated(f, open) == [f EXCEPT !.open = open, !.emb = IF open THEN @ ELSE 0]

\* gate_stage with jcache_lookup: the first entry of the key is used and becomes the newest
Hits(k) == {s \in JSlot : jcache[s].used /\ jcache[s].key = k}
GateStage(g) ==
    /\ gpc[g] = "gate"
    /\ LET w == Win(g) f == gf[g] IN
       \/ /\ Suppressed(w) \/ ~judgeLive
          /\ Goto(g, "final", Gated(f, FALSE))
          /\ UNCHANGED <<jcache, jgen>>
       \/ /\ ~Suppressed(w) /\ judgeLive /\ Hits(f.key) # {}
          /\ LET s == Min(Hits(f.key)) e == jcache[s] IN
             /\ jcache' = [jcache EXCEPT ![s].gen = jgen + 1]
             /\ jgen' = jgen + 1
             /\ Goto(g, "final", [Gated(f, e.verdict.rule # "closed") EXCEPT
                                    !.judge = e.verdict, !.ok = TRUE, !.cached = TRUE, !.clean = e.clean])
       \/ /\ ~Suppressed(w) /\ judgeLive /\ Hits(f.key) = {}
          /\ IF ShortOpen(w) THEN Goto(g, "judge", Gated(f, TRUE)) ELSE Goto(g, "gatecall", f)
          /\ UNCHANGED <<jcache, jgen>>
    /\ UNCHANGED <<enabledCats, judgeState, embStage, gtotal, history>>

\* judge_call: it fails without the model, and may fail with it
Answers == IF judgeIn THEN BOOLEAN ELSE {FALSE}
GateCall(g) ==
    /\ gpc[g] = "gatecall"
    /\ \E ok \in Answers :
         \/ /\ ~ok
            /\ Goto(g, "final", [Gated(gf[g], FALSE) EXCEPT !.clean = FALSE])
         \/ /\ ok /\ Win(g).gate = "low"
            /\ Goto(g, "insert", [Gated(gf[g], FALSE) EXCEPT !.ok = TRUE, !.judge = [NoVerdict EXCEPT !.rule = "closed"]])
         \/ /\ ok /\ Win(g).gate # "low"
            /\ Goto(g, "judge", Gated(gf[g], TRUE))
    /\ UNCHANGED <<enabledCats, judgeState, embStage, jcache, jgen, gtotal, history>>

-----------------------------------------------------------------------------
(* judge_run                                                               *)

\* What a window opened by its words alone must also carry
Invoked(w, f) ==
    ShortOpen(w) =>
      \/ Pre(w) /\ (User(w) \/ (f.warm /\ w.band))
      \/ ~Pre(w) /\ f.emb # 0 /\ w.demand /\ Sig(w) = {}
\* judge_signal_category: the one lexical signal, else a clear enough embedding
Signal(w, f) ==
    LET marg == IF f.warm THEN w.margin ELSE 0
        one == Cardinality(Sig(w)) = 1
    IN IF one THEN CHOOSE c \in Sig(w) : TRUE
       ELSE IF (Sig(w) = {} /\ marg = 2) \/ (Sig(w) # {} /\ marg >= 1 /\ w.arg \in Sig(w)) THEN w.arg ELSE 0

\* judge_block
judge_block(f, c, p) ==
    [f EXCEPT !.judge = IF c \in enabledCats THEN [cat |-> c, rule |-> "block", pyes |-> p]
                        ELSE [cat |-> 0, rule |-> "pass", pyes |-> p]]
Pass(f, p) == [f EXCEPT !.judge = [cat |-> 0, rule |-> "pass", pyes |-> p]]

JudgeCall(g) ==
    /\ gpc[g] = "judge"
    /\ LET w == Win(g) f == gf[g] IN
       \/ /\ ~Invoked(w, f)
          /\ Goto(g, "final", f)
       \/ /\ Invoked(w, f)
          /\ \E ok \in Answers :
               \/ /\ ~ok
                  /\ Goto(g, "final", [f EXCEPT !.clean = FALSE])
               \/ /\ ok /\ w.all = "low"
                  /\ Goto(g, "insert", Pass([f EXCEPT !.ok = TRUE], "low"))
               \/ /\ ok /\ w.all = "high" /\ Signal(w, f) # 0
                  /\ Goto(g, "insert", judge_block([f EXCEPT !.ok = TRUE], Signal(w, f), "high"))
               \/ /\ ok /\ w.all # "low" /\ ~(w.all = "high" /\ Signal(w, f) # 0)
                  /\ Goto(g, "singles", [f EXCEPT !.ok = TRUE])
    /\ UNCHANGED <<enabledCats, judgeState, embStage, jcache, jgen, gtotal, history>>

\* judge_singles, in one batch or one after the other: without an answer the window passes
JudgeSingles(g) ==
    /\ gpc[g] = "singles"
    /\ LET w == Win(g) f == gf[g] IN
       \E ok \in Answers :
         \/ /\ ~ok
            /\ Goto(g, "insert", Pass([f EXCEPT !.clean = FALSE], w.all))
         \/ /\ ok /\ w.all = "high"
            /\ Goto(g, "insert", judge_block(f, w.best, "high"))
         \/ /\ ok /\ w.all # "high" /\ w.trig
            /\ Goto(g, "insert", judge_block(f, w.best, "mid"))
         \/ /\ ok /\ w.all # "high" /\ ~w.trig
            /\ Goto(g, "insert", Pass(f, w.top))
    /\ UNCHANGED <<enabledCats, judgeState, embStage, jcache, jgen, gtotal, history>>

\* jcache_insert: a free entry, else the one unused for longest
Victim ==
    LET free == {s \in JSlot : ~jcache[s].used}
    IN IF free # {} THEN Min(free) ELSE CHOOSE s \in JSlot : \A r \in JSlot : jcache[s].gen <= jcache[r].gen
\* Seeded fault: the score of the combined question is kept, not of the one that decided
JudgeInsert_Combined(g) ==
    /\ gpc[g] = "insert"
    /\ jcache' = [jcache EXCEPT ![Victim] = [used |-> TRUE, key |-> gf[g].key, gen |-> jgen + 1,
                                             verdict |-> [gf[g].judge EXCEPT !.pyes = Win(g).all], clean |-> gf[g].clean /\ gf[g].warm]]
    /\ jgen' = jgen + 1
    /\ Goto(g, "final", gf[g])
    /\ UNCHANGED <<enabledCats, judgeState, embStage, gtotal, history>>
JudgeInsert(g) ==
    /\ gpc[g] = "insert"
    /\ jcache' = [jcache EXCEPT ![Victim] = [used |-> TRUE, key |-> gf[g].key, gen |-> jgen + 1,
                                             verdict |-> gf[g].judge, clean |-> gf[g].clean /\ gf[g].warm]]
    /\ jgen' = jgen + 1
    /\ Goto(g, "final", gf[g])
    /\ UNCHANGED <<enabledCats, judgeState, embStage, gtotal, history>>

-----------------------------------------------------------------------------
(* The end of classify_inner                                               *)

\* The judge blocks, or clears an embedding block of a demand without any signal
Verdict(w, f) ==
    IF f.judge.cat # 0 THEN f.judge.cat
    ELSE IF f.ok /\ f.emb # 0 /\ w.demand /\ Sig(w) = {} /\ f.judge.pyes = "low" THEN 0
    ELSE f.emb
ClassifyFinal(g) ==
    /\ gpc[g] = "final"
    /\ LET f == [gf[g] EXCEPT !.final = Verdict(Win(g), gf[g])] IN
       /\ Goto(g, "end", f)
       /\ history' = IF f.clean /\ f.warm /\ judgeLive THEN history \cup {<<f.key, f.final>>} ELSE history
    /\ UNCHANGED <<enabledCats, judgeState, embStage, jcache, jgen, gtotal>>
ClassifyEnd(g) ==
    /\ gpc[g] = "end"
    /\ gtotal' = gtotal + 1
    /\ Goto(g, "idle", Blank)
    /\ UNCHANGED <<enabledCats, judgeState, embStage, jcache, jgen, history>>

GuardNext ==
    \/ \E q \in BOOLEAN : AdmitTick(q)
    \/ Admit \/ EvictJudge \/ EmbSeed
    \/ \E g \in GuardThread :
         \/ \E k \in Key : ClassifyStart(g, k)
         \/ Embed(g) \/ GateStage(g) \/ GateCall(g) \/ JudgeCall(g) \/ JudgeSingles(g) \/ JudgeInsert(g)
         \/ ClassifyFinal(g) \/ ClassifyEnd(g)
GuardSpec == GuardInit /\ [][GuardNext]_guardVars

-----------------------------------------------------------------------------
(* Properties                                                              *)

\* With every stage up and answering, a text is judged the same way each time: fresh,
\* from the cache, or while another thread judges the same text.  (An unanswered
\* per-category call is cached as a pass, oguard.c 2556: such answers are not counted.)
SameVerdict == \A a, b \in history : a[1] = b[1] => a[2] = b[2]
=============================================================================
