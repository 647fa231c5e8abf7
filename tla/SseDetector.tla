----------------------------- MODULE SseDetector -----------------------------
(***************************************************************************)
(* SSEOutputDetector: it is fed the chunks of an upstream body, cut where  *)
(* the network cuts them, and tells when the first event with generated    *)
(* text is complete; stream_upstream stops feeding it then.                *)
(*                                                                         *)
(* The bytes are abstracted to the pieces a line is made of: the field     *)
(* name, the two halves of a JSON value with text, CR and LF.  A line that *)
(* does not start with the field name is of another field.  A cut within a *)
(* piece is a cut within its line like any other.                          *)
(***************************************************************************)
EXTENDS Integers, Sequences, FiniteSetsExt, SequencesExt

Pieces == {"data:", "head", "tail", "CR", "LF"}

CONSTANTS
    LineKinds,   \* bound: the lines of a stream
    MaxLines     \* bound: how many it has

ASSUME StreamAssumption ==
    /\ LineKinds \subseteq Seq(Pieces)
    /\ MaxLines \in Nat

-----------------------------------------------------------------------------
\* sse_data_has_output of lines joined with LF, which JSON takes for a blank
\* between two tokens, as it does a CR.
HasOutput(lines) ==
    LET text == FoldLeft(LAMBDA all, line : all \o line, <<>>, lines)
    IN  SelectSeq(text, LAMBDA piece : piece # "CR") = <<"head", "tail">>

\* rstrip(b"\r").
Stripped(line) ==
    LET kept == {i \in DOMAIN line : \E j \in i..Len(line) : line[j] # "CR"}
    IN  [i \in kept |-> line[i]]

\* A piece more: an LF completes a line.
Cut(state, piece) ==
    IF piece = "LF"
    THEN [lines |-> Append(state.lines, Stripped(state.rest)), rest |-> <<>>]
    ELSE [state EXCEPT !.rest = Append(@, piece)]

\* The complete lines of s, and what follows the last of them.
Split(s) ==
    LET cut[i \in 0 .. Len(s)] ==
            IF i = 0 THEN [lines |-> <<>>, rest |-> <<>>] ELSE Cut(cut[i - 1], s[i])
    IN  cut[Len(s)]

IsData(line) == line # <<>> /\ Head(line) = "data:"

\* One turn of the loop of feed(), which ends at the first event with output.
Step(state, line) ==
    IF state.found THEN state
    ELSE IF IsData(line) THEN [state EXCEPT !.data = Append(@, Tail(line))]
    ELSE IF line = <<>> THEN [data |-> <<>>, found |-> HasOutput(state.data)]
    ELSE state

\* The loop of feed() over the complete lines, with the data that it begins with.
Read(data, lines) ==
    LET turn[i \in 0 .. Len(lines)] ==
            IF i = 0 THEN [data |-> data, found |-> FALSE] ELSE Step(turn[i - 1], lines[i])
    IN  turn[Len(lines)]

\* _line_buffer, _event_data, and whether feed has returned True.
Fresh == [buffer |-> <<>>, data |-> <<>>, found |-> FALSE]

\* Mutant: an incomplete line is forgotten at the end of a chunk.
feed_DropsRest(state, chunk) ==
    LET result == Read(state.data, Split(state.buffer \o chunk).lines)
    IN  [buffer |-> <<>>, data |-> result.data, found |-> result.found]

\* feed().  What it leaves of the buffer after an output is not read again.
feed(state, chunk) ==
    LET split == Split(state.buffer \o chunk)
        result == Read(state.data, split.lines)
    IN  [buffer |-> split.rest, data |-> result.data, found |-> result.found]

\* stream_upstream feeds the detector until it has told of an output.
Listen(state, chunk) == IF state.found THEN state ELSE feed(state, chunk)

\* The chunk at which stream_upstream sets first_output_at, or zero.
Heard(chunks) ==
    LET state[k \in 0 .. Len(chunks)] ==
            IF k = 0 THEN Fresh ELSE Listen(state[k - 1], chunks[k])
        found == {k \in 1 .. Len(chunks) : state[k].found}
    IN  IF found = {} THEN 0 ELSE Min(found)

-----------------------------------------------------------------------------
(* What should be heard, by the definition of an event stream.             *)

\* An event begins at line i if it goes on up to line k: with the first line,
\* or after a blank one.
BeginsAt(lines, k, i) ==
    /\ i = 1 \/ lines[i - 1] = <<>>
    /\ \A j \in i .. k - 1 : lines[j] # <<>>

\* What the data lines hold of the event that the blank line k ends.
DataOf(lines, k) ==
    LET from == CHOOSE i \in 1..k : BeginsAt(lines, k, i)
        held[j \in 0 .. k - 1] ==
            IF j < from THEN <<>>
            ELSE IF IsData(lines[j]) THEN Append(held[j - 1], Tail(lines[j])) ELSE held[j - 1]
    IN  held[k - 1]

HasEvent(stream) ==
    LET lines == Split(stream).lines
    IN  \E k \in DOMAIN lines : lines[k] = <<>> /\ HasOutput(DataOf(lines, k))

\* The chunk that completes the first event with output, or zero.
Due(chunks) ==
    LET complete == {k \in 1..Len(chunks) : HasEvent(FlattenSeq(SubSeq(chunks, 1, k)))}
    IN  IF complete = {} THEN 0 ELSE Min(complete)

\* The bodies a server may send before it ends, or breaks off.
Streams == {FlattenSeq(lines) : lines \in BoundedSeq(LineKinds, MaxLines)}

\* A stream in up to three chunks, an empty one for none.
Chunkings(stream) ==
    {<<SubSeq(stream, 1, cuts[1]),
       SubSeq(stream, cuts[1] + 1, cuts[2]),
       SubSeq(stream, cuts[2] + 1, Len(stream))>> :
        cuts \in {c \in (0 .. Len(stream)) \X (0 .. Len(stream)) : c[1] <= c[2]}}
=============================================================================
