------------------------------- MODULE Upload -------------------------------
(***************************************************************************)
(* The reader of a multipart upload (src/dub_mvp/upload.py).  It sees the  *)
(* body through a buffer that is filled in reads of any size, and has to   *)
(* find delimiters wherever the reads cut them, without keeping a part in  *)
(* memory and without giving away bytes of a delimiter as content.         *)
(*                                                                         *)
(* Bytes are symbols.  CR LF is "r", "n", the boundary is the one symbol   *)
(* "b", and the headers of a part are one or more symbols of its kind.     *)
(***************************************************************************)
EXTENDS Integers, FiniteSetsExt, SequencesExt

CONSTANTS
    Bodies,     \* contents a part may have
    Preambles,  \* what may come before the first delimiter
    MaxParts,   \* bound: parts in an upload
    Chunk,      \* CHUNK_BYTES
    MaxHeader,  \* MAX_HEADER_BYTES
    MaxField    \* MAX_FIELD_BYTES

Newline == << "r", "n" >>
Delimiter == << "-", "-", "b" >>
Terminator == Newline \o Delimiter
BlankLine == Newline \o Newline
Close == << "-", "-" >>

\* Where needle first occurs in s, or 0.
Find(needle, s) ==
    LET found == {i \in 1 .. Len(s) - Len(needle) + 1 :
                    SubSeq(s, i, i + Len(needle) - 1) = needle}
    IN  IF found = {} THEN 0 ELSE Min(found)

From(s, i) == SubSeq(s, i, Len(s))
Upto(s, i) == SubSeq(s, 1, i - 1)

\* What contents are made of; "x" stands for all other bytes.
Content == {"r", "n", "-", "b", "x"}

ASSUME UploadAssumption ==
    /\ {MaxParts, Chunk, MaxHeader, MaxField} \subseteq Nat \ {0}
    /\ Bodies \cup Preambles \subseteq Seq(Content)
    /\ \A c \in Bodies : Find(Terminator, Newline \o c) = 0
    /\ \A c \in Preambles : Find(Delimiter, c) = 0

-----------------------------------------------------------------------------
(* What is sent.                                                           *)

\* The file that goes to disk, a field kept in memory, and a part without a
\* name, whose headers are long.
Kind == {"video", "field", "unnamed"}
HeaderOf(k) == IF k = "unnamed" THEN << k, k, k, k >> ELSE << k >>

Part == [kind : Kind, body : Bodies]
Form == UNION {[1 .. n -> Part] : n \in 0 .. MaxParts}

BytesOf(part) == Newline \o HeaderOf(part.kind) \o BlankLine \o part.body \o Terminator

BytesOfForm(preamble, form) ==
    preamble \o Delimiter \o FlattenSeq([i \in DOMAIN form |-> BytesOf(form[i])]) \o Close

\* The parts the form names: of two with one name, the later one.
NoPart == << "none" >>
Sent(form) == [k \in Kind \ {"unnamed"} |->
    LET those == {i \in DOMAIN form : form[i].kind = k}
    IN  IF those = {} THEN NoPart ELSE form[Max(those)].body]

-----------------------------------------------------------------------------
VARIABLES
    form,     \* the parts of the form that is sent
    whole,    \* whether all of it arrives
    rest,     \* what the stream still has to give
    missing,  \* whether more was announced than the stream gives
    buffer,   \* _Reader._buffer
    goal,     \* how much the reader wants in the buffer before it looks again
    pc,       \* what it looks for
    part,     \* the kind of the part it reads
    written,  \* the content of the part so far
    parts     \* the parts it has read

input == << form, whole >>
source == << rest, missing, buffer >>
vars == << form, whole, rest, missing, buffer, goal, pc, part, written, parts >>

Init ==
    /\ form \in Form
    /\ \E preamble \in Preambles :
          LET bytes == BytesOfForm(preamble, form) IN
          \E n \in 0 .. Len(bytes) :
             /\ rest = SubSeq(bytes, 1, n)
             /\ whole = (n = Len(bytes))
    /\ missing \in IF whole THEN {FALSE} ELSE BOOLEAN
    /\ rest = << >> => missing                 \* an empty upload is refused at once
    /\ buffer = << >>
    /\ goal = Chunk
    /\ pc = "preamble"
    /\ part = "unnamed"
    /\ written = << >>
    /\ parts = [k \in Kind \ {"unnamed"} |-> NoPart]

Exhausted == rest = << >> /\ ~missing

\* Slip: an empty read is taken for a slow stream.
KeepsWaiting == UNCHANGED missing

\* One read of fill.  A stream that has nothing more to give ends the upload,
\* whatever was announced.
NothingComes == missing' = FALSE

Read ==
    /\ pc \notin {"done", "failed"}
    /\ Len(buffer) < goal /\ ~Exhausted
    /\ \/ /\ rest = << >>
          /\ NothingComes
          /\ UNCHANGED << rest, buffer >>
       \/ \E n \in 1 .. Min({Chunk, Len(rest)}) :
             /\ buffer' = buffer \o SubSeq(rest, 1, n)
             /\ rest' = From(rest, n + 1)
             /\ UNCHANGED missing
    /\ UNCHANGED << input, goal, pc, part, written, parts >>

\* The reader looks at its buffer when fill has come back.
Looks(at) == pc = at /\ (Len(buffer) >= goal \/ Exhausted)

Fail == pc' = "failed" /\ UNCHANGED << input, source, goal, part, written, parts >>

\* Slip: size is wanted on top of what is there.
ExpectMore(at, size) == pc' = at /\ goal' = Len(buffer') + size

Expect(at, size) == pc' = at /\ goal' = size

\* Slip: one byte too few is held back.
KeptOneLess(needle) == Len(needle) - 2

\* How much of the buffer a search that found nothing must keep: the needle may
\* have begun.
Kept(needle) == Len(needle) - 1

DiscardUntil ==
    LET i == Find(Delimiter, buffer) IN
    /\ Looks("preamble")
    /\ \/ /\ i > 0
          /\ buffer' = From(buffer, i + Len(Delimiter))
          /\ Expect("marker", 2)
          /\ UNCHANGED << input, rest, missing, part, written, parts >>
       \/ i = 0 /\ Exhausted /\ Fail
       \/ /\ i = 0 /\ ~Exhausted
          /\ buffer' = From(buffer, Max({1, Len(buffer) - Kept(Delimiter) + 1}))
          /\ UNCHANGED << input, rest, missing, goal, pc, part, written, parts >>

ReadMarker ==
    LET marker == SubSeq(buffer, 1, Min({2, Len(buffer)})) IN
    /\ Looks("marker")
    /\ \/ /\ marker = Close
          /\ pc' = "done"
          /\ UNCHANGED << input, source, goal, part, written, parts >>
       \/ /\ marker = Newline
          /\ buffer' = From(buffer, 3)
          /\ Expect("headers", 0)
          /\ UNCHANGED << input, rest, missing, part, written, parts >>
       \/ marker \notin {Close, Newline} /\ Fail

ReadHeaders ==
    LET i == Find(BlankLine, buffer) IN
    /\ Looks("headers")
    /\ \/ /\ i > 0
          /\ part' = buffer[1]
          /\ written' = << >>
          /\ buffer' = From(buffer, i + Len(BlankLine))
          /\ Expect("body", Chunk + Len(Terminator))
          /\ UNCHANGED << input, rest, missing, parts >>
       \/ i = 0 /\ (Len(buffer) > MaxHeader \/ Exhausted) /\ Fail
       \/ /\ i = 0 /\ Len(buffer) <= MaxHeader /\ ~Exhausted
          /\ goal' = Len(buffer) + Chunk
          /\ UNCHANGED << input, source, pc, part, written, parts >>

\* What the part is fed with; a field must stay below its limit.
TooLong(data) == part = "field" /\ data # << >> /\ Len(written \o data) > MaxField

\* Slip: what was written before the last look is forgotten.
StoredLast(data) ==
    IF part = "unnamed" THEN parts ELSE [parts EXCEPT ![part] = data]

\* The part a form field goes to when its end is found.
Stored(data) ==
    IF part = "unnamed" THEN parts ELSE [parts EXCEPT ![part] = written \o data]

ReadBody ==
    LET i == Find(Terminator, buffer)
        free == Len(buffer) - Kept(Terminator)
    IN
    /\ Looks("body")
    /\ \/ LET data == Upto(buffer, i) IN
          /\ i > 0 /\ ~TooLong(data)
          /\ parts' = Stored(data)
          /\ buffer' = From(buffer, i + Len(Terminator))
          /\ Expect("marker", 2)
          /\ UNCHANGED << input, rest, missing, part, written >>
       \/ LET data == SubSeq(buffer, 1, free) IN
          /\ i = 0 /\ ~Exhausted /\ ~TooLong(data)
          /\ written' = written \o data
          /\ buffer' = From(buffer, Max({0, free}) + 1)
          /\ UNCHANGED << input, rest, missing, goal, pc, part, parts >>
       \/ /\ \/ i > 0 /\ TooLong(Upto(buffer, i))
             \/ i = 0 /\ Exhausted
             \/ i = 0 /\ ~Exhausted /\ TooLong(SubSeq(buffer, 1, free))
          /\ Fail

Next == Read \/ DiscardUntil \/ ReadMarker \/ ReadHeaders \/ ReadBody

Spec == Init /\ [][Next]_vars

\* The request thread goes on; a stream that stays silent for ever is not
\* bounded by any time limit of this code.
LiveSpec == Spec /\ WF_vars(Next)
-----------------------------------------------------------------------------
(* Properties.                                                             *)

\* Wherever the reads cut it, an upload that is accepted yields exactly what
\* was sent, and one that arrives whole is refused only for a field or headers
\* over their limit (upload.py parse_multipart_stream).
UploadIsExact ==
    /\ pc = "done" => parts = Sent(form)
    /\ pc = "failed" /\ whole =>
          \E i \in DOMAIN form : \/ form[i].kind = "field" /\ Len(form[i].body) > MaxField
                                 \/ Len(HeaderOf(form[i].kind)) + Kept(BlankLine) > MaxHeader

\* The buffer stays near one chunk however large the parts are (upload.py
\* _Reader.fill, _read_part_body, _read_headers).
MemoryIsBounded ==
    Len(buffer) < 2 * Chunk + Max({Len(Terminator), MaxHeader})

\* Every upload ends, also one that stops short of what it announced
\* (upload.py _Reader.fill).
UploadEnds == <>(pc \in {"done", "failed"})
=============================================================================
