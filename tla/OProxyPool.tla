----------------------------- MODULE OProxyPool -----------------------------
(***************************************************************************)
(* oproxy_target_relay and the pool of idle HTTP/1.1 connections of one    *)
(* upstream, src/src/oproxy.c.  Worker threads take a connection (from the *)
(* pool or a new one), write one request, relay one response and either    *)
(* return the connection or close it.                                      *)
(*                                                                         *)
(* The pool is a stack under pool_lock; the health check of a connection   *)
(* is outside the lock on both ways, so it is a step of its own.  The      *)
(* bytes of a response are its parts: a head, at most one body, and excess *)
(* bytes of a wrong upstream; a read returns any non-empty prefix of what  *)
(* has arrived.  The upstream (external) answers a request whenever it     *)
(* likes, and may close a connection at any time.                          *)
(***************************************************************************)
EXTENDS Integers, Sequences, FiniteSets

CONSTANTS
    Worker,      \* threads that relay
    Fd,          \* descriptors of connections to the upstream
    NoFd,
    MaxIdle,     \* target->max_idle
    MaxRequests  \* bound on the relays of one behaviour

FdAssumption == NoFd \notin Fd
PoolAssumption == MaxIdle \in Nat /\ MaxRequests \in Nat

\* How the response says where its body ends (response_framing)
Framing == {"no_body", "length", "chunked", "until_close"}
Request == 1..MaxRequests
HeadPart == [part : {"head"}, req : Request, framing : Framing, close : BOOLEAN]
Part == HeadPart \cup [part : {"body", "excess"}, req : Request]

VARIABLES
    idle_fds,  \* target->idle_fds[0 .. idle_count - 1]
    pc, fd,    \* where a worker is, and its fd
    req,       \* the request it relays, 0 before the first
    relayed,   \* what it has passed to its sink
    asked,     \* requests so far
    open,      \* connections the gateway has open
    inbox,     \* what has arrived on a connection and is unread
    due,       \* what the upstream still has to send on it
    eof        \* the upstream has closed it

worker == <<pc, fd, req, relayed, asked>>
wire == <<open, inbox, due, eof>>
vars == <<idle_fds, pc, fd, req, relayed, asked, open, inbox, due, eof>>

PC == {"done", "ok", "failed", "take", "check", "write", "head", "body",
       "return_check", "return_push"}

\* Well-typed; the pool never holds more than max_idle connections
\* (target_return_connection).
TypeOK ==
    /\ idle_fds \in UNION {[1..n -> Fd] : n \in 0..MaxIdle}
    /\ pc \in [Worker -> PC]
    /\ fd \in [Worker -> Fd \cup {NoFd}]
    /\ req \in [Worker -> 0..MaxRequests]
    /\ \A w \in Worker : \A i \in DOMAIN relayed[w] : relayed[w][i] \in Part
    /\ asked \in 0..MaxRequests
    /\ open \subseteq Fd
    /\ \A f \in Fd : \A i \in DOMAIN inbox[f] : inbox[f][i] \in Part
    /\ \A f \in Fd : \A i \in DOMAIN due[f] : due[f][i] \in Part
    /\ eof \in [Fd -> BOOLEAN]

\* oproxy_target_create
Init ==
    /\ idle_fds = <<>>
    /\ pc = [w \in Worker |-> "done"]
    /\ fd = [w \in Worker |-> NoFd]
    /\ req = [w \in Worker |-> 0]
    /\ relayed = [w \in Worker |-> <<>>]
    /\ asked = 0
    /\ open = {}
    /\ inbox = [f \in Fd |-> <<>>]
    /\ due = [f \in Fd |-> <<>>]
    /\ eof = [f \in Fd |-> FALSE]

-----------------------------------------------------------------------------
(* Connections                                                             *)

Goto(w, at) == pc' = [pc EXCEPT ![w] = at]

\* close(fd): whatever was on the wire is gone
Close(f) ==
    /\ open' = open \ {f}
    /\ inbox' = [inbox EXCEPT ![f] = <<>>]
    /\ due' = [due EXCEPT ![f] = <<>>]
    /\ eof' = [eof EXCEPT ![f] = FALSE]

\* close(fd) and the end of the relay
CloseAndEnd(w, at) ==
    /\ Close(fd[w])
    /\ fd' = [fd EXCEPT ![w] = NoFd]
    /\ Goto(w, at)

\* idle_connection_healthy: neither closed nor readable
idle_connection_healthy(f) == ~eof[f] /\ inbox[f] = <<>>

-----------------------------------------------------------------------------
(* oproxy_target_relay                                                     *)

\* A worker calls oproxy_target_relay for its next request
Call(w) ==
    /\ pc[w] \in {"done", "ok", "failed"}
    /\ asked < MaxRequests
    /\ asked' = asked + 1
    /\ req' = [req EXCEPT ![w] = asked + 1]
    /\ relayed' = [relayed EXCEPT ![w] = <<>>]
    /\ Goto(w, "take")
    /\ UNCHANGED <<idle_fds, fd, wire>>

\* target_take_connection: pop the youngest idle connection
TakeIdle(w) ==
    /\ pc[w] = "take"
    /\ idle_fds # <<>>
    /\ fd' = [fd EXCEPT ![w] = idle_fds[Len(idle_fds)]]
    /\ idle_fds' = SubSeq(idle_fds, 1, Len(idle_fds) - 1)
    /\ Goto(w, "check")
    /\ UNCHANGED <<req, relayed, asked, wire>>

\* Its health check; an unhealthy one is closed and the loop goes on
TakeCheck(w) ==
    /\ pc[w] = "check"
    /\ IF idle_connection_healthy(fd[w])
       THEN Goto(w, "write") /\ UNCHANGED <<fd, wire>>
       ELSE CloseAndEnd(w, "take")
    /\ UNCHANGED <<idle_fds, req, relayed, asked>>

\* connect_deadline, on an empty pool: a new connection or a failed relay
TakeConnect(w) ==
    /\ pc[w] = "take"
    /\ idle_fds = <<>>
    /\ \/ \E f \in Fd \ open :
            /\ fd' = [fd EXCEPT ![w] = f]
            /\ open' = open \cup {f}
            /\ Goto(w, "write")
       \/ Goto(w, "failed") /\ UNCHANGED <<fd, open>>
    /\ UNCHANGED <<idle_fds, req, relayed, asked, inbox, due, eof>>

\* What an upstream sends for request r: exactly one response, or one with
\* bytes after its end
Response(r) ==
    LET head(fr, cl) == [part |-> "head", req |-> r, framing |-> fr, close |-> cl]
        body == [part |-> "body", req |-> r]
        excess == [part |-> "excess", req |-> r]
        whole == {<<head("no_body", cl)>> : cl \in BOOLEAN} \cup
                 {<<head(fr, cl), body>> : fr \in Framing \ {"no_body"}, cl \in BOOLEAN}
    IN  whole \cup {Append(s, excess) : s \in whole}

\* socket_writev_all: the request is on the wire, or the write fails.  A write
\* to a connection the peer has closed may do either; the peer sees nothing.
Write(w) ==
    /\ pc[w] = "write"
    /\ \/ /\ IF eof[fd[w]] THEN UNCHANGED due
             ELSE \E s \in Response(req[w]) : due' = [due EXCEPT ![fd[w]] = @ \o s]
          /\ Goto(w, "head")
          /\ UNCHANGED <<fd, open, inbox, eof>>
       \/ CloseAndEnd(w, "failed")
    /\ UNCHANGED <<idle_fds, req, relayed, asked>>

\* The end of a relay that has the framed response: the connection is offered
\* to the pool unless the upstream asked to close it
Complete(w, reusable) ==
    IF reusable THEN Goto(w, "return_check") /\ UNCHANGED <<fd, open, due, eof>>
    ELSE /\ Goto(w, "ok")
         /\ fd' = [fd EXCEPT ![w] = NoFd]
         /\ open' = open \ {fd[w]}
         /\ due' = [due EXCEPT ![fd[w]] = <<>>]
         /\ eof' = [eof EXCEPT ![fd[w]] = FALSE]

Abort(w) ==
    /\ Goto(w, "failed")
    /\ fd' = [fd EXCEPT ![w] = NoFd]
    /\ open' = open \ {fd[w]}
    /\ due' = [due EXCEPT ![fd[w]] = <<>>]
    /\ eof' = [eof EXCEPT ![fd[w]] = FALSE]

\* What is left unread after taking n parts; a closed connection has nothing
Unread(w, n) ==
    inbox' = [inbox EXCEPT ![fd[w]] =
                 IF fd'[w] = NoFd THEN <<>> ELSE SubSeq(@, n + 1, Len(@))]

Relay(w, parts) == relayed' = [relayed EXCEPT ![w] = @ \o parts]

\* The read that completes the headers, and the body bytes that came with it:
\* as many of them as the framing covers are relayed in one write, bytes beyond
\* it fail the relay after that write
ReadHead(w) ==
    LET f == fd[w]
        head == inbox[f][1]
    IN  /\ pc[w] = "head"
        /\ inbox[f] # <<>>
        /\ \E n \in 1..Len(inbox[f]) :
             LET isHead == head.part = "head"
                 covered == IF ~isHead THEN 0
                            ELSE CASE head.framing = "no_body" -> 1
                                   [] head.framing = "until_close" -> n
                                   [] OTHER -> IF n > 1 THEN 2 ELSE 1
                 overrun == ~isHead \/ n > covered
                 whole == /\ isHead
                          /\ \/ head.framing = "no_body"
                             \/ head.framing # "until_close" /\ covered = 2
             IN  /\ CASE overrun -> Abort(w)
                      [] ~overrun /\ whole -> Complete(w, ~head.close)
                      [] OTHER -> Goto(w, "body") /\ UNCHANGED <<fd, open, due, eof>>
                 /\ Relay(w, SubSeq(inbox[f], 1, covered))
                 /\ Unread(w, n)
        /\ UNCHANGED <<idle_fds, req, asked>>

\* The head the worker is relaying the body of
HeadOf(w) == relayed[w][1]

\* Seeded fault: a relay that timed out offers its connection to the pool
Fail_Returns(w) ==
    /\ pc[w] \in {"head", "body"}
    /\ idle_connection_healthy(fd[w])
    /\ IF Len(idle_fds) < MaxIdle
       THEN /\ idle_fds' = Append(idle_fds, fd[w])
            /\ fd' = [fd EXCEPT ![w] = NoFd]
            /\ Goto(w, "failed")
            /\ UNCHANGED wire
       ELSE CloseAndEnd(w, "failed") /\ UNCHANGED idle_fds
    /\ UNCHANGED <<req, relayed, asked>>

\* A read of the body loop.  With a Content-Length it never asks for more than
\* remains; a chunked body can bring bytes beyond its end and then fails.
ReadBody(w) ==
    LET f == fd[w]
        framing == HeadOf(w).framing
    IN  /\ pc[w] = "body"
        /\ inbox[f] # <<>>
        /\ \E n \in 1..Len(inbox[f]) :
             /\ framing = "length" => n = 1
             /\ CASE framing = "until_close" -> UNCHANGED <<pc, fd, open, due, eof>>
                  [] framing = "chunked" /\ n > 1 -> Abort(w)
                  [] OTHER -> Complete(w, ~HeadOf(w).close)
             /\ Relay(w, IF framing = "chunked" /\ n > 1 THEN <<>>
                         ELSE SubSeq(inbox[f], 1, n))
             /\ Unread(w, n)
        /\ UNCHANGED <<idle_fds, req, asked>>

\* The upstream closed: the end of a body that runs until then, a failure
\* otherwise
ReadEof(w) ==
    /\ pc[w] \in {"head", "body"}
    /\ inbox[fd[w]] = <<>> /\ eof[fd[w]]
    /\ CloseAndEnd(w, IF pc[w] = "body" /\ HeadOf(w).framing = "until_close"
                      THEN "ok" ELSE "failed")
    /\ UNCHANGED <<idle_fds, req, relayed, asked>>

\* wait_fd passes the deadline, an allocation fails, headers are too large, or
\* the sink reports that the client has gone
Fail(w) ==
    /\ pc[w] \in {"head", "body"}
    /\ CloseAndEnd(w, "failed")
    /\ UNCHANGED <<idle_fds, req, relayed, asked>>

-----------------------------------------------------------------------------
(* target_return_connection                                                *)

ReturnCheck(w) ==
    /\ pc[w] = "return_check"
    /\ IF idle_connection_healthy(fd[w])
       THEN Goto(w, "return_push") /\ UNCHANGED <<fd, wire>>
       ELSE CloseAndEnd(w, "ok")
    /\ UNCHANGED <<idle_fds, req, relayed, asked>>

ReturnPush(w) ==
    /\ pc[w] = "return_push"
    /\ IF Len(idle_fds) < MaxIdle
       THEN /\ idle_fds' = Append(idle_fds, fd[w])
            /\ fd' = [fd EXCEPT ![w] = NoFd]
            /\ Goto(w, "ok")
            /\ UNCHANGED wire
       ELSE CloseAndEnd(w, "ok") /\ UNCHANGED idle_fds
    /\ UNCHANGED <<req, relayed, asked>>

-----------------------------------------------------------------------------
(* The upstream (external)                                                 *)

\* The next part arrives
Arrive(f) ==
    /\ f \in open /\ due[f] # <<>> /\ ~eof[f]
    /\ inbox' = [inbox EXCEPT ![f] = Append(@, Head(due[f]))]
    /\ due' = [due EXCEPT ![f] = Tail(@)]
    /\ UNCHANGED <<idle_fds, worker, open, eof>>

\* The upstream closes: its keep-alive lapsed, it restarted, it said so
PeerClose(f) ==
    /\ f \in open /\ ~eof[f]
    /\ eof' = [eof EXCEPT ![f] = TRUE]
    /\ due' = [due EXCEPT ![f] = <<>>]
    /\ UNCHANGED <<idle_fds, worker, open, inbox>>

-----------------------------------------------------------------------------

Next ==
    \/ \E w \in Worker :
        \/ Call(w) \/ TakeIdle(w) \/ TakeCheck(w) \/ TakeConnect(w) \/ Write(w)
        \/ ReadHead(w) \/ ReadBody(w) \/ ReadEof(w) \/ Fail(w)
        \/ ReturnCheck(w) \/ ReturnPush(w)
    \/ \E f \in Fd : Arrive(f) \/ PeerClose(f)

Spec == Init /\ [][Next]_vars

-----------------------------------------------------------------------------
(* Properties                                                              *)

\* A connection is used by one relay at a time and is never lost: every open
\* descriptor is in the pool once or is the fd of one worker, on every path
\* through oproxy_target_relay and target_return_connection.
Owners(f) == {w \in Worker : fd[w] = f}
Places(f) == {i \in DOMAIN idle_fds : idle_fds[i] = f}
OneOwner ==
    \A f \in Fd :
        Cardinality(Owners(f)) + Cardinality(Places(f)) = IF f \in open THEN 1 ELSE 0

\* A caller is only ever given its own response: whatever connections were
\* reused, timed out or closed before, every part oproxy_target_relay passes to
\* the sink answers the request of that relay.
OwnResponse ==
    \A w \in Worker : \A i \in DOMAIN relayed[w] : relayed[w][i].req = req[w]

\* A relay that reports success has passed on the whole framed response: the
\* head, and the body its framing promised.
OkIsComplete ==
    \A w \in Worker : pc[w] \in {"ok", "return_check", "return_push"} =>
        /\ relayed[w] # <<>>
        /\ HeadOf(w).framing = "no_body" => Len(relayed[w]) = 1
        /\ HeadOf(w).framing \in {"length", "chunked"} =>
             Len(relayed[w]) = 2 /\ relayed[w][2].part = "body"
=============================================================================
