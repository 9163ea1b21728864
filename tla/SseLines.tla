------------------------------- MODULE SseLines -------------------------------
(***************************************************************************)
(* proxy/anthropic_converter.py, the head of _StreamConverter.convert: the *)
(* bytes of the engine's stream arrive in pieces cut anywhere; each piece  *)
(* is decoded by itself, appended to the buffer, and the buffer is cut     *)
(* into lines.                                                             *)
(***************************************************************************)
EXTENDS Naturals, Sequences, FiniteSets, SequencesExt

CONSTANTS
    Char,       (* the characters of a line *)
    Width,      (* how many bytes UTF-8 has for each; "\n" has one *)
    Streams     (* what the engine sends *)

NewLine == "\n"

VARIABLES
    stream,     \* the characters the engine sends
    read,       \* how many of their bytes have arrived
    buffer,     \* self.buffer
    lines       \* the lines taken from it

vars == <<stream, read, buffer, lines>>

(* U+FFFD, for bytes that are no character *)
Replacement == "?"

(* Where the k-th character ends *)
End(k) == FoldLeft(LAMBDA n, c : n + Width[c], 0, SubSeq(stream, 1, k))

Length == End(Len(stream))

(* decode(errors="replace") of the bytes i to j: a character that is not in there from its
   first byte to its last is lost. *)
Decode(i, j) ==
    LET touched == {k \in DOMAIN stream : End(k) >= i /\ End(k - 1) < j}
        Read(k) == IF End(k - 1) + 1 >= i /\ End(k) <= j THEN stream[k] ELSE Replacement
        first == CHOOSE k \in touched : \A l \in touched : k <= l
    IN  [n \in 1..Cardinality(touched) |-> Read(first + n - 1)]

(* while "\n" in self.buffer: the lines that are complete, and the rest *)
Split(text) ==
    FoldLeft(LAMBDA s, c : IF c = NewLine
                           THEN [lines |-> Append(s.lines, s.rest), rest |-> <<>>]
                           ELSE [s EXCEPT !.rest = Append(@, c)],
             [lines |-> <<>>, rest |-> <<>>], text)

Init == stream \in Streams /\ read = 0 /\ buffer = <<>> /\ lines = <<>>

(* The next piece, up to byte j *)
ReadChunk ==
    /\ \E j \in (read + 1)..Length :
        /\ read' = j
        /\ LET s == Split(buffer \o Decode(read + 1, j)) IN
            /\ lines' = lines \o s.lines
            /\ buffer' = s.rest
    /\ UNCHANGED stream

Next == ReadChunk

Spec == Init /\ [][Next]_vars
-----------------------------------------------------------------------------
(* A text delta becomes a text delta (convert_openai_stream_to_anthropic): what the
   converter makes lines of is what the engine sent, wherever the network cut it. *)
LinesAreTheEngines ==
    \A k \in DOMAIN lines : lines[k] = Split(stream).lines[k]
=============================================================================
