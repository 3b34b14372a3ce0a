------------------------------ MODULE TextStream ------------------------------
(***************************************************************************)
(* How the text engine turns the pieces a model generates into what the    *)
(* caller is streamed and what it is given at the end: the token loop and  *)
(* the tail of ollm_chat_locked (backend_llama.c), with the helpers that   *)
(* hold back a possible stop sequence or a possible channel marker.        *)
(*                                                                         *)
(* A text is a sequence of symbols.  A marker is three symbols long and    *)
(* both markers begin alike, as "<|channel>" and "<channel|>" do.  Offsets *)
(* count from 0, as they do in the code; s[i + 1] is the symbol at i.      *)
(* The model writes words and whole markers; where a marker is torn into   *)
(* pieces, and whether the caller still listens, is free.                  *)
(***************************************************************************)
EXTENDS Integers, Sequences, FiniteSets, SequencesExt, FiniteSetsExt

CONSTANTS
    Said,        \* the words of an answer, sequences of symbols
    Thought,     \* the words between an opening and a closing marker
    TextReqs,    \* records [think, stops, sentences, prefix, stream]
    MaxNew       \* max_new of ollm_chat_locked

VARIABLES
    ask,         \* the request being served
    text,        \* text[0 .. text_len)
    hold,        \* think_hold, or None
    sent,        \* what on_token was given so far
    sent_len,    \* streamed_len
    ended_at,    \* the pair sentences, sentence_end
    made,        \* tokens generated
    rest,        \* what is left of the word or marker being generated
    inside,      \* the model is inside a thought block
    finish       \* "" while generating, then finish_reason, or "fault"

textVars == <<ask, text, hold, sent, sent_len, ended_at, made, rest,
              inside, finish>>

None == -1

Open == <<"<", "|", ">">>
Close == <<"<", "c", ">">>
NoThink == Open \o <<"t">> \o Close

Punctuation == {"."}
Blank == {" "}

----------------------------------------------------------------------------
(* The text helpers.                                                       *)

At(s, i, m) == i + Len(m) <= Len(s) /\ SubSeq(s, i + 1, i + Len(m)) = m

\* strstr(s + from, m): the first offset at or after from, or None
Find(s, from, m) ==
    LET hits == {i \in from .. Len(s) : At(s, i, m)}
    IN  IF hits = {} THEN None ELSE Min(hits)

\* memmove of the tail over the n symbols at offset i
Cut(s, i, n) == SubSeq(s, 1, i) \o SubSeq(s, i + n + 1, Len(s))

\* where an offset behind a cut of n symbols at i ends up
Shifted(start, i, n) ==
    IF start > i THEN (IF start >= i + n THEN start - n ELSE i) ELSE start

\* the closed blocks of s taken out, and all that follows a dangling opener
WithoutBlocks(s) ==
    LET From[i \in 0 .. Len(s)] ==
          LET cut == Find(s, i, Open)
              end == Find(s, cut + Len(Open), Close)
          IN  IF cut = None THEN SubSeq(s, i + 1, Len(s))
              ELSE SubSeq(s, i + 1, cut) \o (IF end = None THEN <<>> ELSE From[end + Len(Close)])
    IN  From[0]

\* one pass over s that drops every closing marker it meets
WithoutClose(s) ==
    LET From[i \in 0 .. Len(s)] ==
          IF i = Len(s) THEN <<>>
          ELSE IF At(s, i, Close) THEN From[i + Len(Close)]
          ELSE <<s[i + 1]>> \o From[i + 1]
    IN  From[0]

ollm_strip_channels(s) == WithoutClose(WithoutBlocks(s))

\* ... and a marker torn off at the end, once two symbols of it are there
ollm_strip_channels_final(s) ==
    LET t == ollm_strip_channels(s)
        torn == {k \in 2 .. Len(Open) - 1 : k <= Len(t) /\
                    \E m \in {Open, Close} : At(t, Len(t) - k, SubSeq(m, 1, k))}
    IN  IF torn = {} THEN t ELSE SubSeq(t, 1, Len(t) - Max(torn))

\* the length of the longest stop sequence the text ends with
matched_stop_suffix(stops, s) ==
    Max({0} \cup {Len(p) : p \in {q \in stops : q # <<>> /\ IsSuffix(q, s)}})

\* the longest proper prefix of m that s ends with
think_marker_hold(s, m) ==
    Max({k \in 0 .. Len(m) - 1 : k <= Len(s) /\ At(s, Len(s) - k, SubSeq(m, 1, k))})

\* Seeded fault: only a complete stop sequence is held back.
possible_stop_prefix_Whole(stops, s) ==
    Max({0} \cup {Len(p) : p \in {q \in stops : q # <<>> /\ IsSuffix(q, s)}})

possible_stop_prefix(stops, s) ==
    Max({0} \cup {think_marker_hold(s, p) : p \in stops \ {<<>>}})

\* a word that follows the caller's prefix directly needs a space between
otext_completion_needs_space(piece) == Head(piece) \notin Blank \cup Punctuation

----------------------------------------------------------------------------
(* One piece of the token loop: a record of the text, where the piece      *)
(* starts in it, the held opener, and whether memory was left unread or    *)
(* unwritten as it should be.                                              *)

Appended(p) ==
    LET space == IF text = <<>> /\ ask.prefix /\ otext_completion_needs_space(p)
                 THEN <<" ">> ELSE <<>>
    IN  [text |-> text \o space \o p, start |-> Len(text \o space),
         hold |-> hold, behind |-> <<>>]

\* The empty thought block the template may open the answer with.  The bytes
\* behind the new terminator are the old ones.
DropNoThink(b) ==
    IF ask.think \/ ~At(b.text, 0, NoThink) THEN b
    ELSE LET n == Len(NoThink)
             kept == Cut(b.text, 0, n)
         IN  [b EXCEPT !.text = kept,
                       !.start = IF @ >= n THEN @ - n ELSE 0,
                       !.behind = SubSeq(b.text, Len(kept) + 2, Len(b.text))]

\* Seeded fault: a marker torn between two pieces is not looked for.
SeekOpen_PieceOnly(b) ==
    LET open == Find(b.text, b.start, Open)
        bare == Find(b.text, b.start, Close)
    IN  IF b.hold # None THEN b
        ELSE IF open # None THEN [b EXCEPT !.hold = open]
        ELSE IF bare # None
        THEN [b EXCEPT !.text = Cut(@, bare, Len(Close)),
                       !.start = Shifted(@, bare, Len(Close))]
        ELSE b

\* with no opener held, look for one from just before the piece; a closing
\* marker without one is dropped
SeekOpen(b) ==
    LET open == Find(b.text, Max({0, b.start - (Len(Open) - 1)}), Open)
        bare == Find(b.text, Max({0, b.start - (Len(Close) - 1)}), Close)
    IN  IF b.hold # None THEN b
        ELSE IF open # None THEN [b EXCEPT !.hold = open]
        ELSE IF bare # None
        THEN [b EXCEPT !.text = Cut(@, bare, Len(Close)),
                       !.start = Shifted(@, bare, Len(Close))]
        ELSE b

\* the held block goes once its closing marker is found
DropBlock(b) ==
    LET close == Find(b.text, b.hold + Len(Open), Close)
        n == close - b.hold + Len(Close)
    IN  IF b.hold = None \/ close = None THEN b
        ELSE [b EXCEPT !.text = Cut(@, b.hold, n),
                       !.start = Shifted(@, b.hold, n), !.hold = None]

\* The search for the closing marker starts past the end of the text, and
\* finds the one that was there before the text was moved down.
Overruns(b) ==
    /\ b.hold # None
    /\ b.hold + Len(Open) > Len(b.text)
    /\ Find(b.behind, b.hold + Len(Open) - (Len(b.text) + 1), Close) # None

Excised(b) == IF ask.think THEN b ELSE DropBlock(SeekOpen(b))

\* the sentence counter over the symbols of the piece
Counted(s, from) ==
    FoldLeft(LAMBDA c, x :
                 [n |-> IF x \in Punctuation /\ ~c.end THEN c.n + 1 ELSE c.n,
                  end |-> x \in Punctuation \/ (c.end /\ x \in Blank)],
             ended_at, SubSeq(s, from + 1, Len(s)))

\* how much of the text no later piece can take back
SafeLen(s, held_at, stop) ==
    LET held == IF stop THEN 0 ELSE possible_stop_prefix(ask.stops, s)
        marker == IF ask.think THEN 0
                  ELSE Max({think_marker_hold(s, Open), think_marker_hold(s, Close)})
        opener == IF held_at = None THEN Len(s) ELSE held_at
    IN  Max({sent_len, Min({Len(s) - held, opener, Len(s) - marker})})

\* the first symbols of the answer may still become the empty thought block
MayBeNoThink(s) == ~ask.think /\ IsStrictPrefix(s, NoThink) /\ s # <<>>

----------------------------------------------------------------------------
TextInit ==
    /\ ask \in TextReqs
    /\ text = <<>> /\ hold = None
    /\ sent = <<>> /\ sent_len = 0
    /\ ended_at = [n |-> 0, end |-> FALSE]
    /\ made = 0 /\ rest = <<>> /\ inside = FALSE
    /\ finish = ""

\* What the caller is given of the text s up to safe; it may have gone away.
Streamed(s, safe, reason) ==
    IF ~ask.stream
    THEN UNCHANGED <<sent, sent_len>> /\ finish' = reason
    ELSE LET gives == safe > sent_len /\ ~MayBeNoThink(s)
         IN  \/ /\ sent' = IF gives THEN sent \o SubSeq(s, sent_len + 1, safe) ELSE sent
                /\ sent_len' = safe
                /\ finish' = reason
             \/ /\ gives /\ finish' = "cancelled"
                /\ UNCHANGED <<sent, sent_len>>

\* One token of the loop, with the piece p.
Token(p) ==
    /\ finish = "" /\ made < MaxNew
    /\ made' = made + 1
    /\ \E b \in {DropNoThink(Appended(p))} :
         \/ /\ Overruns(b)
            /\ finish' = "fault"
            /\ UNCHANGED <<ask, text, hold, sent, sent_len, ended_at>>
         \/ /\ ~Overruns(b)
            /\ \E e \in {Excised(b)} :
               LET stop == matched_stop_suffix(ask.stops, e.text)
                   s == SubSeq(e.text, 1, Len(e.text) - stop)
                   c == IF stop > 0 \/ ask.sentences = 0 THEN ended_at
                        ELSE Counted(s, e.start)
                   enough == ask.sentences > 0 /\ c.n >= ask.sentences
               IN  /\ text' = s /\ hold' = e.hold /\ ended_at' = c
                   /\ Streamed(s, SafeLen(s, e.hold, stop > 0 \/ enough),
                               IF stop > 0 THEN "stop"
                               ELSE IF enough THEN "max_sentences" ELSE "")
                   /\ UNCHANGED ask

\* After the loop: a dangling block and what is left of the markers go, and
\* the caller is given the rest.
Tailed ==
    LET s == IF hold # None /\ hold < Len(text) THEN SubSeq(text, 1, hold) ELSE text
    IN  IF ask.think THEN text ELSE ollm_strip_channels_final(s)

\* The loop ends with an end-of-generation token, at max_new, with a stop, or
\* because the caller has gone; only in the last case is nothing more given.
Conclude ==
    /\ finish \in {"", "stop", "max_sentences", "cancelled"}
    /\ text' = Tailed
    /\ LET from == IF ask.think THEN sent_len ELSE Min({sent_len, Len(Tailed)})
       IN  /\ sent_len' = from
           /\ sent' = IF ask.stream /\ finish # "cancelled" /\ Len(Tailed) > from
                      THEN sent \o SubSeq(Tailed, from + 1, Len(Tailed)) ELSE sent
    /\ finish' = IF finish = "cancelled" THEN "left" ELSE "done"
    /\ UNCHANGED <<ask, hold, ended_at, made, rest, inside>>

\* The model writes the first k symbols of the word or marker w ...
Begin(w, k) ==
    /\ rest = <<>> /\ k <= Len(w)
    /\ w \in {Open, Close} \cup (IF inside THEN Thought ELSE Said)
    /\ rest' = SubSeq(w, k + 1, Len(w))
    /\ inside' = IF w \in {Open, Close} THEN w = Open ELSE inside
    /\ Token(SubSeq(w, 1, k))

\* ... and then more of it.
Continue(k) ==
    /\ k <= Len(rest)
    /\ rest' = SubSeq(rest, k + 1, Len(rest)) /\ UNCHANGED inside
    /\ Token(SubSeq(rest, 1, k))

TextNext ==
    \/ Conclude
    \/ \E k \in 1 .. Len(Open) :
         \/ Continue(k)
         \/ \E w \in {Open, Close} \cup Said \cup Thought : Begin(w, k)

TextSpec == TextInit /\ [][TextNext]_textVars

----------------------------------------------------------------------------
(* README.md: "any thought-channel text the model still emits is excised   *)
(* from both streaming and non-streaming output, never returned".          *)

Hidden == {w[1] : w \in Thought}

Holds(s, m) == Find(s, 0, m) # None

\* What a caller was streamed by the end is exactly the text the same call
\* returns: nothing that was sent is taken back, nothing is skipped or sent
\* twice, whatever pieces the markers and the stop sequences arrived in.
StreamedIsReturned == (finish = "done" /\ ask.stream) => sent = text

\* No symbol of a thought block and no whole marker is ever streamed.
ThoughtNeverStreamed ==
    ~ask.think => /\ ~Holds(sent, Open) /\ ~Holds(sent, Close)
                  /\ \A i \in 1 .. Len(sent) : sent[i] \notin Hidden
=============================================================================
