--------------------------- MODULE AnthropicMessage ---------------------------
(***************************************************************************)
(* A streamed answer as the Anthropic Messages API promises it: a          *)
(* message_start, content blocks with consecutive indices that are started,*)
(* filled and stopped one after the other, a message_delta with the reason *)
(* the answer ends, and a message_stop.  A stream may break off anywhere,  *)
(* and an answer that failed may stop without a message_delta.             *)
(*                                                                         *)
(* AnthropicStream implements this specification (see its Protocol).       *)
(***************************************************************************)
EXTENDS Naturals

CONSTANTS Block,    (* what a block may hold: thinking, text, or one tool call *)
          NoBlock   (* no block is open *)

VARIABLES
    stage,      \* how far the message is
    blocks,     \* how many blocks have been stopped
    open,       \* the block that is being filled, and its index
    filled      \* the block and the index that the last piece was for

vars == <<stage, blocks, open, filled>>

Init == stage = "none" /\ blocks = 0 /\ open = NoBlock /\ filled = NoBlock

MessageStart == stage = "none" /\ stage' = "open" /\ UNCHANGED <<blocks, open, filled>>

BlockStart(b) ==
    /\ stage = "open" /\ open = NoBlock
    /\ open' = [index |-> blocks, of |-> b]
    /\ UNCHANGED <<stage, blocks, filled>>

BlockDelta ==
    /\ open # NoBlock
    /\ filled' = open
    /\ UNCHANGED <<stage, blocks, open>>

BlockStop ==
    /\ open # NoBlock
    /\ open' = NoBlock /\ blocks' = blocks + 1
    /\ UNCHANGED <<stage, filled>>

MessageDelta ==
    /\ stage = "open" /\ open = NoBlock
    /\ stage' = "summed"
    /\ UNCHANGED <<blocks, open, filled>>

MessageStop ==
    /\ stage \in {"open", "summed"} /\ open = NoBlock
    /\ stage' = "stopped"
    /\ UNCHANGED <<blocks, open, filled>>

Next ==
    \/ MessageStart
    \/ \E b \in Block : BlockStart(b)
    \/ BlockDelta
    \/ BlockStop
    \/ MessageDelta
    \/ MessageStop

Spec == Init /\ [][Next]_vars
=============================================================================
