----------------------------- MODULE LineReader -----------------------------
(***************************************************************************)
(* analyzeStream of the providers: the body of an answer arrives in reads  *)
(* cut anywhere; lines are put together again, each complete one is        *)
(* parsed, and what is not a piece of the answer is skipped.  Ollama ends  *)
(* at the line that says done, Gemini with the body.  The simulator is a   *)
(* body of one line per word.                                              *)
(***************************************************************************)
EXTENDS Sequences, SequencesExt

CONSTANTS
    Deltas,   \* pieces of text
    Line,     \* Line[d]: the symbols of the line that carries d
    EndLine,  \* the symbols of {"done": true}
    Newline,
    Nothing   \* no piece

ASSUME NewlineAssumption == Newline \in STRING

Body(lines, tail) == FlattenSeq([n \in DOMAIN lines |-> Append(lines[n], Newline)]) \o tail

Parse(line) ==
    IF \E d \in Deltas : Line[d] = line THEN CHOOSE d \in Deltas : Line[d] = line ELSE Nothing

Fresh == [buffer |-> <<>>, ready |-> <<>>, ended |-> FALSE]

AddPiece(pieces, line) ==
    IF Parse(line) = Nothing THEN pieces ELSE Append(pieces, Parse(line))

EndOfLine(reader, stops) ==
    [buffer |-> <<>>,
     ready  |-> AddPiece(reader.ready, reader.buffer),
     ended  |-> stops /\ reader.buffer = EndLine]

Take(reader, symbol, stops) ==
    IF reader.ended THEN reader
    ELSE IF symbol = Newline THEN EndOfLine(reader, stops)
    ELSE [reader EXCEPT !.buffer = Append(@, symbol)]

\* A slip: a line cut by a read is not kept for the next one.
FeedAnew(reader, chunk, stops) ==
    FoldLeft(LAMBDA r, symbol : Take(r, symbol, stops), [reader EXCEPT !.buffer = <<>>], chunk)

\* One read: `buffer += chunk; lines = buffer.split('\n'); buffer = lines.pop()`.
Feed(reader, chunk, stops) ==
    FoldLeft(LAMBDA r, symbol : Take(r, symbol, stops), reader, chunk)

\* What a body says, by its complete lines: the pieces in order, up to the end.
Meaning(lines, stops) ==
    LET ends == {n \in DOMAIN lines : stops /\ lines[n] = EndLine}
        upTo == IF ends = {} THEN Len(lines) ELSE Min(ends)
    IN FoldLeft(AddPiece, <<>>, SubSeq(lines, 1, upTo))

=============================================================================
