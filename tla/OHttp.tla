------------------------------- MODULE OHttp -------------------------------
(***************************************************************************)
(* The HTTP server of the gateway, src/src/ohttp.c: reactor threads that   *)
(* read connections armed one-shot in epoll, a queue, worker threads that  *)
(* run the handler, the sweep that shuts stalled connections down, and     *)
(* the stop and join of the server.                                        *)
(*                                                                         *)
(* A byte stream is a sequence of fragments: "get" is a whole request,     *)
(* "head" a request head whose body is the fragment after it.  Any         *)
(* non-empty buffer may be one that parse_request refuses.  A connection   *)
(* is identified by its address; a freed one may be accepted again.        *)
(***************************************************************************)
EXTENDS Integers, Sequences, FiniteSets, Collections

CONSTANTS
    Conn, Reactor, Worker,
    None,
    Loopback,     \* connections whose peer is loopback
    Fragment,     \* what a client may send
    MaxPending,   \* bound: fragments of one connection not yet handled
    InlineCap, MaxBuffer,  \* OHTTP_INLINE_BUFFER, OHTTP_MAX_BUFFER
    HeapCap       \* heap_buffered_cap

ThreadAssumption ==
    /\ Reactor \cap Worker = {} /\ None \notin Reactor \cup Worker \cup Conn
    /\ IsFiniteSet(Reactor) /\ IsFiniteSet(Conn)
BufferAssumption ==
    /\ InlineCap \in Nat \ {0} /\ MaxBuffer \in Nat /\ MaxBuffer > InlineCap /\ HeapCap \in Nat
LoopbackAssumption == Loopback \subseteq Conn

VARIABLES
    running,   \* srv->running
    joined,    \* ohttp_join has freed what was left
    state,     \* c->state, "free" when there is no such connection
    inbox,     \* fragments in the socket's receive queue
    eof,       \* the socket is shut down, by the peer or by the sweep
    buf, cap,  \* c->buf and c->buf_cap
    own,       \* c->ownership_lock
    armed,     \* connections armed in epoll
    queue,     \* q_head .. q_tail
    all_lock,
    heap,      \* heap_buffered
    idle,      \* connections whose last_active_ns is beyond their limit
    pc, at,    \* where a thread is and the connection it works on
    old,       \* what a reactor's sweep takes for older than the limit
    todo       \* the part of the list its sweep has still to visit

conns == <<state, inbox, eof, buf, cap, own, armed, idle>>
vars == <<running, joined, conns, queue, all_lock, heap, pc, at, old, todo>>

HttpThread == Reactor \cup Worker
Live == {c \in Conn : state[c] # "free"}

Goto(t, l) == pc' = [pc EXCEPT ![t] = l]

Init ==
    /\ running = TRUE /\ joined = FALSE
    /\ state = [c \in Conn |-> "free"]
    /\ inbox = [c \in Conn |-> <<>>] /\ buf = [c \in Conn |-> <<>>]
    /\ cap = [c \in Conn |-> InlineCap]
    /\ eof = [c \in Conn |-> FALSE]
    /\ own = [c \in Conn |-> None]
    /\ armed = {} /\ queue = <<>> /\ all_lock = None /\ heap = 0 /\ idle = {}
    /\ pc = [t \in HttpThread |-> IF t \in Reactor THEN "wait" ELSE "top"]
    /\ at = [t \in HttpThread |-> None]
    /\ old = [r \in Reactor |-> {}] /\ todo = [r \in Reactor |-> {}]

-----------------------------------------------------------------------------
(* parse_request on the front of a buffer                                  *)

\* Fragments of the first request, need_total; 0 when its head is not there
NeedTotal(b) == IF b = <<>> THEN 0 ELSE IF Head(b) = "get" THEN 1 ELSE 2
Complete(b)  == b # <<>> /\ Len(b) >= NeedTotal(b)

\* The heap bytes of a buffer: an inline buffer has none
HeapOf(n) == IF n = InlineCap THEN 0 ELSE n

\* last_active_ns = monotonic_ns(): no longer idle, and later than the clock a
\* running sweep has read, so that its unsigned now - last_active_ns wraps
Touch(c) ==
    /\ idle' = idle \ {c}
    /\ old' = [r \in Reactor |->
                 IF pc[r] \in {"sweep_lock", "sweep"} THEN old[r] \cup {c} ELSE old[r]]

\* conn_free: out of the list, socket closed, buffer returned
Freed(C) ==
    LET Reset(f, v) == [c \in Conn |-> IF c \in C THEN v ELSE f[c]] IN
    /\ state' = Reset(state, "free") /\ eof' = Reset(eof, FALSE)
    /\ buf' = Reset(buf, <<>>) /\ inbox' = Reset(inbox, <<>>)
    /\ heap' = heap - Sum([c \in C |-> HeapOf(cap[c])], C)
    /\ cap' = Reset(cap, InlineCap)
    /\ idle' = idle \ C

-----------------------------------------------------------------------------
(* The peers and time                                                      *)

Send(c, f) ==
    /\ c \in Live /\ ~eof[c] /\ Len(buf[c]) + Len(inbox[c]) < MaxPending
    /\ inbox' = [inbox EXCEPT ![c] = Append(@, f)]
    /\ UNCHANGED <<running, joined, state, eof, buf, cap, own, armed, idle,
                   queue, all_lock, heap, pc, at, old, todo>>

PeerCloses(c) ==
    /\ c \in Live /\ ~eof[c]
    /\ eof' = [eof EXCEPT ![c] = TRUE]
    /\ UNCHANGED <<running, joined, state, inbox, buf, cap, own, armed, idle,
                   queue, all_lock, heap, pc, at, old, todo>>

\* stall_ns or idle_ns passes without activity
LimitPasses(c) ==
    /\ c \in Live \ idle
    /\ idle' = idle \cup {c}
    /\ UNCHANGED <<running, joined, state, inbox, eof, buf, cap, own, armed,
                   queue, all_lock, heap, pc, at, old, todo>>

-----------------------------------------------------------------------------
(* Reactors: epoll_wait, the sweep, accept, handle_readable                *)

Ready(c) == c \in armed /\ (inbox[c] # <<>> \/ eof[c])

\* epoll_wait hands a ready connection to one reactor and disarms it
EpollTake(r, c) ==
    /\ pc[r] = "wait" /\ running /\ Ready(c)
    /\ armed' = armed \ {c}
    /\ at' = [at EXCEPT ![r] = c]
    /\ Goto(r, "woken")
    /\ UNCHANGED <<running, joined, state, inbox, eof, buf, cap, own, idle,
                   queue, all_lock, heap, old, todo>>

\* ... or times out
EpollTimeout(r) ==
    /\ pc[r] = "wait" /\ running /\ \A c \in Conn : ~Ready(c)
    /\ Goto(r, "woken")
    /\ UNCHANGED <<running, joined, conns, queue, all_lock, heap, at, old, todo>>

ReactorStops(r) ==
    /\ pc[r] = "wait" /\ ~running
    /\ Goto(r, "done")
    /\ UNCHANGED <<running, joined, conns, queue, all_lock, heap, at, old, todo>>

\* sweep_stalled: the clock is read before the list is locked
SweepNow(r) ==
    /\ pc[r] = "woken"
    /\ Goto(r, "sweep_lock")
    /\ old' = [old EXCEPT ![r] = idle]
    /\ UNCHANGED <<running, joined, conns, queue, all_lock, heap, at, todo>>

SweepLock(r) ==
    /\ pc[r] = "sweep_lock" /\ all_lock = None
    /\ all_lock' = r
    /\ todo' = [todo EXCEPT ![r] = Live]
    /\ Goto(r, "sweep")
    /\ UNCHANGED <<running, joined, conns, queue, heap, at, old>>

Stalled(r, c) == c \in old[r] /\ (buf[c] # <<>> \/ c \notin Loopback)

\* Seeded fault: the state is not looked at
SweepOne_AnyState(r, c) ==
    /\ pc[r] = "sweep" /\ c \in todo[r]
    /\ todo' = [todo EXCEPT ![r] = @ \ {c}]
    /\ eof' = [eof EXCEPT ![c] = @ \/ (own[c] = None /\ Stalled(r, c))]
    /\ UNCHANGED <<running, joined, state, inbox, buf, cap, own, armed, idle,
                   queue, all_lock, heap, pc, at, old>>
\* One connection of the list; one that a thread owns is skipped
SweepOne(r, c) ==
    /\ pc[r] = "sweep" /\ c \in todo[r]
    /\ todo' = [todo EXCEPT ![r] = @ \ {c}]
    /\ eof' = [eof EXCEPT ![c] = @ \/ (own[c] = None /\ state[c] = "reading" /\ Stalled(r, c))]
    /\ UNCHANGED <<running, joined, state, inbox, buf, cap, own, armed, idle,
                   queue, all_lock, heap, pc, at, old>>

SweepEnd(r) ==
    /\ pc[r] = "sweep" /\ todo[r] = {}
    /\ all_lock' = None
    /\ old' = [old EXCEPT ![r] = {}]
    /\ Goto(r, "swept")
    /\ UNCHANGED <<running, joined, conns, queue, heap, at, todo>>

\* The listener's event: accept links the connection while it owns it
AcceptLink(r, c) ==
    /\ pc[r] \in {"woken", "swept"} /\ at[r] = None
    /\ \A q \in Reactor : pc[q] # "accepted"
    /\ c \notin Live /\ all_lock = None
    /\ state' = [state EXCEPT ![c] = "reading"]
    /\ own' = [own EXCEPT ![c] = r]
    /\ Touch(c)
    /\ at' = [at EXCEPT ![r] = c]
    /\ Goto(r, "accepted")
    /\ UNCHANGED <<running, joined, inbox, eof, buf, cap, armed,
                   queue, all_lock, heap, todo>>

\* epoll_ctl arms the connection, which may already be readable
Arm(t, l) ==
    /\ armed' = armed \cup {at[t]}
    /\ Goto(t, l)
    /\ UNCHANGED <<running, joined, state, inbox, eof, buf, cap, own, idle,
                   queue, all_lock, heap, at, old, todo>>
\* The connection is given up: conn_free follows the unlock
GiveUp(t) ==
    /\ Goto(t, "drop")
    /\ UNCHANGED <<running, joined, conns, queue, all_lock, heap, at, old, todo>>

AcceptArm(r)   == pc[r] = "accepted" /\ Arm(r, "unlock")
AcceptFails(r) == pc[r] = "accepted" /\ GiveUp(r)

\* No event was for this reactor, or its batch is done
Idle(r) ==
    /\ pc[r] \in {"woken", "swept"} /\ at[r] = None
    /\ Goto(r, "wait")
    /\ UNCHANGED <<running, joined, conns, queue, all_lock, heap, at, old, todo>>

Lock(t, from, to) ==
    /\ pc[t] \in from /\ at[t] # None /\ own[at[t]] = None
    /\ own' = [own EXCEPT ![at[t]] = t]
    /\ Goto(t, to)
    /\ UNCHANGED <<running, joined, state, inbox, eof, buf, cap, armed, idle,
                   queue, all_lock, heap, at, old, todo>>
ReactorLock(r) == Lock(r, {"woken", "swept"}, "read")

Full(c) == Len(buf[c]) = cap[c]
NewCap(c) == IF 2 * cap[c] > MaxBuffer THEN MaxBuffer ELSE 2 * cap[c]
GrowBy(c) == NewCap(c) - HeapOf(cap[c])

\* handle_readable, buffer full: charge the growth, keep it if it fits and the
\* allocation succeeds
Grow(r) ==
    LET c == at[r] IN
    /\ pc[r] = "read" /\ Full(c) /\ cap[c] < MaxBuffer
    /\ heap' = heap + GrowBy(c)
    /\ \/ Goto(r, "uncharge") /\ UNCHANGED cap
       \/ heap' <= HeapCap /\ cap' = [cap EXCEPT ![c] = NewCap(c)] /\ UNCHANGED pc
    /\ UNCHANGED <<running, joined, state, inbox, eof, buf, own, armed, idle,
                   queue, all_lock, at, old, todo>>
Uncharge(r) ==
    /\ pc[r] = "uncharge"
    /\ heap' = heap - GrowBy(at[r])
    /\ Goto(r, "drop")
    /\ UNCHANGED <<running, joined, conns, queue, all_lock, at, old, todo>>
TooLarge(r) == pc[r] = "read" /\ Full(at[r]) /\ cap[at[r]] = MaxBuffer /\ GiveUp(r)

Read(r) ==
    LET c == at[r]
        n == Min({cap[c] - Len(buf[c]), Len(inbox[c])}) IN
    /\ pc[r] = "read" /\ n > 0
    /\ buf' = [buf EXCEPT ![c] = @ \o SubSeq(inbox[c], 1, n)]
    /\ inbox' = [inbox EXCEPT ![c] = SubSeq(@, n + 1, Len(@))]
    /\ Touch(c)
    /\ UNCHANGED <<running, joined, state, eof, cap, own, armed,
                   queue, all_lock, heap, pc, at, todo>>

\* EPOLLHUP or EPOLLERR with the event, the end of the stream or a failed read
ReadEof(r) == pc[r] = "read" /\ ~Full(at[r]) /\ eof[at[r]] /\ GiveUp(r)
\* EAGAIN: parse what is there
Drained(r) == pc[r] = "read" /\ ~Full(at[r]) /\ inbox[at[r]] = <<>> /\ ~eof[at[r]]
ReadBad(r) == Drained(r) /\ buf[at[r]] # <<>> /\ GiveUp(r)
ReadMore(r) == Drained(r) /\ ~Complete(buf[at[r]]) /\ (Arm(r, "unlock") \/ GiveUp(r))
\* Seeded fault: a complete request is armed again as well as queued
Dispatch_Rearms(r) ==
    /\ Drained(r) /\ Complete(buf[at[r]])
    /\ state' = [state EXCEPT ![at[r]] = "dispatched"]
    /\ queue' = Append(queue, at[r])
    /\ armed' = armed \cup {at[r]}
    /\ Goto(r, "unlock")
    /\ UNCHANGED <<running, joined, inbox, eof, buf, cap, own, idle,
                   all_lock, heap, at, old, todo>>
Dispatch(r) ==
    /\ Drained(r) /\ Complete(buf[at[r]])
    /\ state' = [state EXCEPT ![at[r]] = "dispatched"]
    /\ queue' = Append(queue, at[r])
    /\ Goto(r, "unlock")
    /\ UNCHANGED <<running, joined, inbox, eof, buf, cap, own, armed, idle,
                   all_lock, heap, at, old, todo>>

\* pthread_mutex_unlock of a connection that lives on, or before conn_free
Unlock(t) ==
    /\ pc[t] \in {"unlock", "drop"}
    /\ own' = [own EXCEPT ![at[t]] = None]
    /\ at' = IF pc[t] = "drop" THEN at ELSE [at EXCEPT ![t] = None]
    /\ Goto(t, IF pc[t] = "drop" THEN "free" ELSE IF t \in Reactor THEN "wait" ELSE "top")
    /\ UNCHANGED <<running, joined, state, inbox, eof, buf, cap, armed, idle,
                   queue, all_lock, heap, old, todo>>

Free(t) ==
    /\ pc[t] = "free" /\ all_lock = None
    /\ Freed({at[t]})
    /\ at' = [at EXCEPT ![t] = None]
    /\ Goto(t, IF t \in Reactor THEN "wait" ELSE "top")
    /\ UNCHANGED <<running, joined, own, armed, queue, all_lock, old, todo>>

-----------------------------------------------------------------------------
(* Workers                                                                 *)

\* The loop's test of srv->running, before queue_pop takes the lock
WorkerTop(w) ==
    /\ pc[w] = "top"
    /\ Goto(w, IF running THEN "pop" ELSE "done")
    /\ UNCHANGED <<running, joined, conns, queue, all_lock, heap, at, old, todo>>

\* queue_pop: sleeps while the queue is empty and the server runs
Pop(w) ==
    /\ pc[w] = "pop" /\ queue # <<>>
    /\ at' = [at EXCEPT ![w] = Head(queue)]
    /\ queue' = Tail(queue)
    /\ Goto(w, "popped")
    /\ UNCHANGED <<running, joined, conns, all_lock, heap, old, todo>>
PopNothing(w) ==
    /\ pc[w] = "pop" /\ queue = <<>> /\ ~running
    /\ Goto(w, "done")
    /\ UNCHANGED <<running, joined, conns, queue, all_lock, heap, at, old, todo>>

WorkerLock(w) == Lock(w, {"popped"}, "handle")

\* The handler runs and its request leaves the buffer
Rest(b) == SubSeq(b, NeedTotal(b) + 1, Len(b))
Handle(w) ==
    /\ pc[w] = "handle" /\ Complete(buf[at[w]])
    /\ buf' = [buf EXCEPT ![at[w]] = Rest(@)]

\* keep_alive is lost: by the request's headers, a failed write of the response
\* or ohttp_force_close
HandleCloses(w) ==
    /\ Handle(w)
    /\ Goto(w, "drop")
    /\ UNCHANGED <<running, joined, state, inbox, eof, cap, own, armed, idle,
                   queue, all_lock, heap, at, old, todo>>

\* Seeded fault: whatever is left goes back to the reactor
AfterKeep_Rearms(b) == {"rearm"} \cup (IF b = <<>> THEN {} ELSE {"drop"})
\* ... or kept: a pipelined request is handled at once, a part of one goes back
\* to the reactor with the connection, and bytes that do not parse end it
AfterKeep(b) == {IF Complete(b) THEN "handle" ELSE "rearm"} \cup (IF b = <<>> THEN {} ELSE {"drop"})
HandleKeeps(w) ==
    /\ Handle(w)
    /\ state' = [state EXCEPT ![at[w]] = "reading"]
    /\ Touch(at[w])
    /\ \E l \in AfterKeep(buf'[at[w]]) : Goto(w, l)
    /\ UNCHANGED <<running, joined, inbox, eof, cap, own, armed,
                   queue, all_lock, heap, at, todo>>
Rearm(w) == pc[w] = "rearm" /\ (Arm(w, "unlock") \/ GiveUp(w))

-----------------------------------------------------------------------------
(* Stop and join                                                           *)

Stop ==
    /\ running
    /\ running' = FALSE
    /\ UNCHANGED <<joined, conns, queue, all_lock, heap, pc, at, old, todo>>

\* Every thread has been joined; connections still listed are freed, the queued
\* ones among them
Join ==
    /\ ~running /\ ~joined /\ \A t \in HttpThread : pc[t] = "done"
    /\ joined' = TRUE
    /\ Freed(Live)
    /\ queue' = <<>> /\ armed' = {}
    /\ UNCHANGED <<running, own, all_lock, pc, at, old, todo>>

ReactorStep(r) ==
    \/ EpollTimeout(r) \/ ReactorStops(r)
    \/ SweepNow(r) \/ SweepLock(r) \/ (\E c \in Conn : SweepOne(r, c)) \/ SweepEnd(r)
    \/ AcceptArm(r) \/ AcceptFails(r) \/ Idle(r) \/ ReactorLock(r)
    \/ Grow(r) \/ Uncharge(r) \/ TooLarge(r)
    \/ Read(r) \/ ReadEof(r) \/ ReadBad(r) \/ ReadMore(r) \/ Dispatch(r)
    \/ Unlock(r) \/ Free(r)
WorkerStep(w) ==
    \/ WorkerTop(w) \/ Pop(w) \/ PopNothing(w) \/ WorkerLock(w)
    \/ HandleCloses(w) \/ HandleKeeps(w) \/ Rearm(w) \/ Unlock(w) \/ Free(w)

Next ==
    \/ \E c \in Conn :
         \/ \E f \in Fragment : Send(c, f)
         \/ PeerCloses(c) \/ LimitPasses(c)
         \/ \E r \in Reactor : EpollTake(r, c) \/ AcceptLink(r, c)
    \/ \E r \in Reactor : ReactorStep(r)
    \/ \E w \in Worker : WorkerStep(w)
    \/ Stop \/ Join

Spec == Init /\ [][Next]_vars

\* Threads run, handlers return, epoll serves its ready list in turn and a
\* mutex is not withheld for ever.  Nothing is assumed of peers, of the limits
\* or of a stop.
FairSpec ==
    /\ Spec
    /\ \A r \in Reactor : WF_vars(ReactorStep(r)) /\ SF_vars(SweepLock(r)) /\ SF_vars(Free(r))
    /\ \A w \in Worker : WF_vars(WorkerStep(w)) /\ SF_vars(Free(w))
    /\ \A c \in Conn : SF_vars(\E r \in Reactor : EpollTake(r, c))
    /\ WF_vars(Join)

-----------------------------------------------------------------------------
(* Properties                                                              *)

TypeOK ==
    /\ running \in BOOLEAN /\ joined \in BOOLEAN
    /\ state \in [Conn -> {"free", "reading", "dispatched"}]
    /\ own \in [Conn -> HttpThread \cup {None}] /\ eof \in [Conn -> BOOLEAN]
    /\ armed \subseteq Conn /\ idle \subseteq Conn /\ queue \in Seq(Conn)
    /\ all_lock \in Reactor \cup {None}
    /\ at \in [HttpThread -> Conn \cup {None}]
    /\ old \in [Reactor -> SUBSET Conn] /\ todo \in [Reactor -> SUBSET Conn]

\* The threads that have a connection in hand; after the unlock of one that is
\* armed or queued again they only finish the call
Has(t, c) == at[t] = c /\ pc[t] # "unlock"

\* A live connection is in exactly one place - armed in epoll, in a thread's
\* hands or once in the queue - and a freed one in none: nobody reads memory
\* that conn_free released and no connection is lost (ohttp.c 619-763).
OnePlace ==
    \A c \in Conn :
      (IF c \in armed THEN 1 ELSE 0)
        + Cardinality({t \in HttpThread : Has(t, c)})
        + Cardinality({i \in DOMAIN queue : queue[i] = c})
      = IF c \in Live THEN 1 ELSE 0

\* heap_buffered is what connections hold plus what a refused growth is about to
\* return: the ceiling shared by all uploads neither leaks nor underflows.
Refused == {r \in Reactor : pc[r] = "uncharge"}
HeapExact ==
    heap = Sum([c \in Live |-> HeapOf(cap[c])], Live) + Sum([r \in Refused |-> GrowBy(at[r])], Refused)

Swept(r, c) == c \in todo[r] \ todo'[r] /\ eof'[c] /\ ~eof[c]

\* The sweep never shuts down a connection whose request is complete (it is
\* queued or being handled, and its response would be cut), unless the
\* connection has been given up anyway.
SweepSparesRequests ==
    [][\A r \in Reactor, c \in Conn :
          Swept(r, c) => ~Complete(buf[c]) \/ \E t \in HttpThread : at[t] = c /\ pc[t] = "free"]_vars

\* A request that has arrived reaches a handler, unless its connection is closed
\* or the server stops: no request is left in a buffer that nobody looks at
\* (ohttp.c 639-743).
RequestServed ==
    \A c \in Conn :
      LET waiting == Complete(buf[c] \o inbox[c]) IN
      waiting ~> \/ \E w \in Worker : at[w] = c /\ pc[w] = "handle"
                 \/ ~waiting \/ ~running
=============================================================================
