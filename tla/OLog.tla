-------------------------------- MODULE OLog --------------------------------
(***************************************************************************)
(* The access log of the gateway, src/src/olog.c: request threads put      *)
(* lines into a bounded lock-free ring and drop them when it is full; one  *)
(* drain thread batches them into a file, rotates it, and reports drops.   *)
(*                                                                         *)
(* A line is the number of its reservation and takes one unit of the file; *)
(* line 0 is the report of drops.                                          *)
(***************************************************************************)
EXTENDS Integers, Sequences, FiniteSets

CONSTANTS
    Producer,   \* threads that log requests
    Slots,      \* OLOG_RING_SLOTS
    Wrap,       \* 2^32: where the unsigned cursors wrap
    FileCap,    \* max_file_bytes
    BatchCap,   \* the size of a batch
    Keep,       \* OLOG_KEEP_FILES
    Starts,     \* how many lines may have come and gone before
    MaxRequests \* bound: requests logged

RingAssumption ==
    /\ Slots \in Nat /\ Slots > 1 /\ Wrap \in Nat /\ Wrap % Slots = 0 /\ Wrap > 2 * Slots
    /\ Starts \subseteq Nat /\ MaxRequests \in Nat /\ IsFiniteSet(Producer)
FileAssumption == FileCap \in Nat /\ BatchCap \in 1 .. FileCap /\ Keep \in Nat \ {0}

VARIABLES
    olog_on, olog_stop,
    seq, line,          \* the ring's slots
    ring_head, ring_tail,
    reserved,           \* how many lines ring_head has been moved over
    ppc, ppos, pline,   \* a producer's place, position and line
    dropped, emitted, unwritten,
    dpc, dline, batch,  \* the drain thread's place, line popped and batch
    did_work, reported,
    files,              \* contents of access.log, .1, .2 ...
    log_fd,             \* the log file is open
    fpc, fpos, fneed,   \* olog_flush: place, cursor read, lines behind it
    requests            \* requests so far

ring == <<seq, line, ring_head, ring_tail, reserved>>
producers == <<ppc, ppos, pline, dropped, requests>>
drain == <<dpc, dline, batch, did_work, reported, emitted, unwritten, files, log_fd>>
flush == <<fpc, fpos, fneed>>
logVars == <<olog_on, olog_stop, ring, producers, drain, flush>>

NoLine == 0
Slot(pos) == pos % Slots
\* (int)(a - b) of two unsigned cursors
Diff(a, b) == LET d == (a - b) % Wrap IN IF d < Wrap \div 2 THEN d ELSE d - Wrap

LogInit ==
    /\ olog_on = TRUE /\ olog_stop = FALSE
    /\ reserved \in Starts /\ emitted = reserved
    /\ ring_head = reserved % Wrap /\ ring_tail = ring_head
    /\ seq = [s \in 0 .. Slots - 1 |->
                (reserved + ((s - reserved) % Slots)) % Wrap]
    /\ line = [s \in 0 .. Slots - 1 |-> NoLine]
    /\ ppc = [p \in Producer |-> "idle"] /\ ppos = [p \in Producer |-> 0]
    /\ pline = [p \in Producer |-> NoLine]
    /\ dropped = 0 /\ unwritten = 0
    /\ dpc = "pop" /\ dline = NoLine /\ batch = <<>> /\ did_work = FALSE /\ reported = 0
    /\ files = [i \in 0 .. Keep - 1 |-> <<>>] /\ log_fd = TRUE
    /\ fpc = "idle" /\ fpos = 0 /\ fneed = 0
    /\ requests = 0

-----------------------------------------------------------------------------
(* olog_request and ring_push                                              *)

LogRequest(p) ==
    /\ ppc[p] = "idle" /\ olog_on /\ requests < MaxRequests
    /\ requests' = requests + 1
    /\ ppos' = [ppos EXCEPT ![p] = ring_head]
    /\ ppc' = [ppc EXCEPT ![p] = "look"]
    /\ UNCHANGED <<olog_on, olog_stop, ring, pline, dropped, drain, flush>>

\* The slot's sequence number: free, still full, or the position is stale
LogLook(p) ==
    LET d == Diff(seq[Slot(ppos[p])], ppos[p]) IN
    /\ ppc[p] = "look"
    /\ \/ d = 0 /\ ppc' = [ppc EXCEPT ![p] = "cas"] /\ UNCHANGED <<ppos, dropped>>
       \/ d < 0 /\ ppc' = [ppc EXCEPT ![p] = "idle"] /\ dropped' = dropped + 1 /\ UNCHANGED ppos
       \/ d > 0 /\ ppos' = [ppos EXCEPT ![p] = ring_head] /\ UNCHANGED <<ppc, dropped>>
    /\ UNCHANGED <<olog_on, olog_stop, ring, pline, requests, drain, flush>>

LogCas(p) ==
    /\ ppc[p] = "cas"
    /\ IF ring_head = ppos[p]
       THEN /\ ring_head' = (ring_head + 1) % Wrap
            /\ reserved' = reserved + 1
            /\ pline' = [pline EXCEPT ![p] = reserved + 1]
            /\ ppc' = [ppc EXCEPT ![p] = "fill"]
            /\ UNCHANGED ppos
       ELSE /\ ppos' = [ppos EXCEPT ![p] = ring_head]
            /\ ppc' = [ppc EXCEPT ![p] = "look"]
            /\ UNCHANGED <<ring_head, reserved, pline>>
    /\ UNCHANGED <<olog_on, olog_stop, seq, line, ring_tail, dropped, requests, drain, flush>>

LogFill(p) ==
    /\ ppc[p] = "fill"
    /\ line' = [line EXCEPT ![Slot(ppos[p])] = pline[p]]
    /\ ppc' = [ppc EXCEPT ![p] = "publish"]
    /\ UNCHANGED <<olog_on, olog_stop, seq, ring_head, ring_tail, reserved, ppos, pline,
                   dropped, requests, drain, flush>>

LogPublish(p) ==
    /\ ppc[p] = "publish"
    /\ seq' = [seq EXCEPT ![Slot(ppos[p])] = (ppos[p] + 1) % Wrap]
    /\ ppc' = [ppc EXCEPT ![p] = "idle"]
    /\ pline' = [pline EXCEPT ![p] = NoLine]
    /\ UNCHANGED <<olog_on, olog_stop, line, ring_head, ring_tail, reserved, ppos,
                   dropped, requests, drain, flush>>

-----------------------------------------------------------------------------
(* The file: log_open, log_rotate, log_write                               *)

Size(f) == Len(f[0])

\* access.log -> .1 -> .2, the renames in R succeeding, oldest first
Renamed(f, R) ==
    [i \in DOMAIN f |-> IF i \in R THEN f[i - 1] ELSE IF i + 1 \in R THEN <<>> ELSE f[i]]
\* What log_rotate may leave; a full file that could not be renamed is truncated
LogRotate(f) ==
    LET movable == {i \in 1 .. Keep - 1 : i = 1 \/ f[i - 1] # <<>>}
        Cut(g, R) == IF 1 \notin R /\ Size(g) >= FileCap THEN [g EXCEPT ![0] = <<>>] ELSE g
        left(R) == {[f |-> Renamed(f, R), fd |-> FALSE], [f |-> Renamed(f, R), fd |-> TRUE],
                    [f |-> Cut(Renamed(f, R), R), fd |-> TRUE]}
    IN UNION {left(R) : R \in SUBSET movable}

\* write(2) of some or all of the lines
Written(f, lines) ==
    {[f |-> [f EXCEPT ![0] = @ \o SubSeq(lines, 1, n)], fd |-> TRUE, ok |-> n = Len(lines)] :
       n \in 0 .. Len(lines)}
Refused(s) == {[f |-> s.f, fd |-> s.fd, ok |-> FALSE]}

LogWrite(f, fd, lines) ==
    LET rotated == IF fd /\ Size(f) + Len(lines) > FileCap THEN LogRotate(f)
                   ELSE {[f |-> f, fd |-> fd]}
        fits(s) == s.fd /\ Size(s.f) + Len(lines) <= FileCap
    IN UNION {IF fits(s) THEN Written(s.f, lines) ELSE Refused(s) : s \in rotated}

-----------------------------------------------------------------------------
(* drain_main                                                              *)

\* ring_pop: the line is copied out ...
PopCopy ==
    /\ dpc = "pop" /\ seq[Slot(ring_tail)] = (ring_tail + 1) % Wrap
    /\ dline' = line[Slot(ring_tail)]
    /\ dpc' = "release"
    /\ UNCHANGED <<olog_on, olog_stop, ring, producers, batch, did_work, reported, emitted,
                   unwritten, files, log_fd, flush>>
\* ... and the slot given to the next lap
PopRelease ==
    /\ dpc = "release"
    /\ seq' = [seq EXCEPT ![Slot(ring_tail)] = (ring_tail + Slots) % Wrap]
    /\ ring_tail' = (ring_tail + 1) % Wrap
    /\ dpc' = "add"
    /\ UNCHANGED <<olog_on, olog_stop, line, ring_head, reserved, producers, dline, batch,
                   did_work, reported, emitted, unwritten, files, log_fd, flush>>

DrainAdd ==
    /\ dpc = "add" /\ Len(batch) < BatchCap
    /\ batch' = Append(batch, dline)
    /\ dline' = NoLine /\ did_work' = TRUE
    /\ dpc' = "pop"
    /\ UNCHANGED <<olog_on, olog_stop, ring, producers, reported, emitted, unwritten, files,
                   log_fd, flush>>

\* The batch is written when it is full or the ring is empty; it counts as
\* emitted whether the disk took it or not
DrainWrite ==
    /\ \/ dpc = "add" /\ Len(batch) = BatchCap
       \/ dpc = "pop" /\ seq[Slot(ring_tail)] # (ring_tail + 1) % Wrap /\ batch # <<>>
    /\ \E w \in LogWrite(files, log_fd, batch) :
         /\ files' = w.f /\ log_fd' = w.fd
         /\ unwritten' = unwritten + (IF w.ok THEN 0 ELSE Len(batch))
    /\ emitted' = emitted + Len(batch)
    /\ batch' = <<>>
    /\ dpc' = IF dpc = "add" THEN "add" ELSE "look"
    /\ UNCHANGED <<olog_on, olog_stop, ring, producers, dline, did_work, reported, flush>>

DrainEmpty ==
    /\ dpc = "pop" /\ seq[Slot(ring_tail)] # (ring_tail + 1) % Wrap /\ batch = <<>>
    /\ dpc' = "look"
    /\ UNCHANGED <<olog_on, olog_stop, ring, producers, dline, batch, did_work, reported, emitted,
                   unwritten, files, log_fd, flush>>

\* emit_drops_if_changed, on its timer or before the thread ends
DrainReport ==
    /\ dpc \in {"look", "end"} /\ dropped # reported
    /\ reported' = dropped
    /\ \E w \in LogWrite(files, log_fd, <<NoLine>>) : files' = w.f /\ log_fd' = w.fd
    /\ UNCHANGED <<olog_on, olog_stop, ring, producers, dpc, dline, batch, did_work, emitted,
                   unwritten, flush>>

DrainLook ==
    /\ dpc = "look"
    /\ dpc' = IF olog_stop /\ ~did_work THEN "end" ELSE "pop"
    /\ did_work' = FALSE
    /\ UNCHANGED <<olog_on, olog_stop, ring, producers, dline, batch, reported, emitted,
                   unwritten, files, log_fd, flush>>

DrainEnd ==
    /\ dpc = "end" /\ dropped = reported
    /\ dpc' = "done" /\ log_fd' = FALSE
    /\ UNCHANGED <<olog_on, olog_stop, ring, producers, dline, batch, did_work, reported, emitted,
                   unwritten, files, flush>>

-----------------------------------------------------------------------------
(* olog_shutdown and olog_flush                                            *)

LogShutdown ==
    /\ olog_on
    /\ olog_on' = FALSE /\ olog_stop' = TRUE
    /\ UNCHANGED <<ring, producers, drain, flush>>

FlushLoad ==
    /\ fpc \in {"idle", "wait"}
    /\ fpos' = ring_head /\ fneed' = reserved
    /\ fpc' = "test"
    /\ UNCHANGED <<olog_on, olog_stop, ring, producers, drain>>
\* Seeded fault: the ring's read cursor is waited for
FlushTest_Tail ==
    /\ fpc = "test"
    /\ fpc' = IF ring_tail >= fpos THEN "flushed" ELSE "wait"
    /\ UNCHANGED <<olog_on, olog_stop, ring, producers, drain, fpos, fneed>>
\* Four hundred rounds, then it gives up
FlushTest ==
    /\ fpc = "test"
    /\ fpc' = IF emitted >= fpos THEN "flushed" ELSE "wait"
    /\ UNCHANGED <<olog_on, olog_stop, ring, producers, drain, fpos, fneed>>
FlushGivesUp ==
    /\ fpc = "wait"
    /\ fpc' = "idle"
    /\ UNCHANGED <<olog_on, olog_stop, ring, producers, drain, fpos, fneed>>

LogNext ==
    \/ \E p \in Producer : LogRequest(p) \/ LogLook(p) \/ LogCas(p) \/ LogFill(p) \/ LogPublish(p)
    \/ PopCopy \/ PopRelease \/ DrainAdd \/ DrainWrite \/ DrainEmpty \/ DrainReport
    \/ DrainLook \/ DrainEnd
    \/ LogShutdown \/ FlushLoad \/ FlushTest \/ FlushGivesUp

LogSpec == LogInit /\ [][LogNext]_logVars

-----------------------------------------------------------------------------
(* Properties                                                              *)

\* Requests, as opposed to reports of drops, are in order within s, and those of
\* s come before those of t
Increasing(s) == \A i, j \in DOMAIN s : i < j /\ s[i] # NoLine /\ s[j] # NoLine => s[i] < s[j]
Before(s, t) ==
    \A i \in DOMAIN s, j \in DOMAIN t : s[i] # NoLine /\ t[j] # NoLine => s[i] < t[j]

\* What is on disk, oldest file first, then the batch, is in the order in which
\* the lines were reserved, none twice and none stale, although producers fill
\* slots in any order, cursors wrap and renames fail (ring_push, ring_pop,
\* log_rotate).
LogInOrder ==
    /\ Increasing(batch)
    /\ \A i \in DOMAIN files : Increasing(files[i]) /\ Before(files[i], batch)
    /\ \A i, j \in DOMAIN files : i < j => Before(files[j], files[i])

\* "The access log can never occupy more than" its cap per file and generation,
\* whichever renames, truncations and writes fail (log_rotate, log_write).
LogBounded == \A i \in DOMAIN files : Len(files[i]) <= FileCap

\* olog_flush returns early only when all that was queued before it has been
\* handed to the disk.  Once the 32-bit ring_head has wrapped it no longer
\* compares with the 64-bit count, and the claim is about the first lap only.
FlushWaits == fpc = "flushed" /\ fneed < Wrap => emitted >= fneed
=============================================================================
