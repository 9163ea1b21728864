------------------------------ MODULE MCSseLines ------------------------------
(* Instances of SseLines for TLC. *)
EXTENDS SseLines

(* A letter, and a Chinese character *)
MCChar == {"a", "zhong"}

MCWidth == [c \in MCChar \cup {NewLine} |-> IF c = "zhong" THEN 3 ELSE 1]

MCStreams == {<<"a", "zhong", NewLine, "a", NewLine>>}
=============================================================================
