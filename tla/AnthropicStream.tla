---------------------------- MODULE AnthropicStream ----------------------------
(***************************************************************************)
(* proxy/anthropic_converter.py, _StreamConverter: the engine's streamed   *)
(* chat completion, line by line, becomes the events of an Anthropic       *)
(* message.  The converter is a generator: it reads on only when what it   *)
(* has yielded was taken.                                                  *)
(*                                                                         *)
(* A line of the engine may carry a piece of reasoning, one of text and    *)
(* several of tool calls.  The converter handles them in this order, each  *)
(* by itself, so that here they come one by one.  A tool call is named by  *)
(* its position in the answer, which stands for its id as well.            *)
(*                                                                         *)
(* The engine is external: it sends one line first that has no content,    *)
(* ends with a line without choices (the usage, which the converted        *)
(* request asks for, or an error) and [DONE], and names a tool call in its *)
(* first piece.                                                            *)
(***************************************************************************)
EXTENDS Naturals, Sequences, SequencesExt

CONSTANTS
    Tool,       (* the tool calls of an answer *)
    NoBlock,    (* for None *)
    MaxPieces   (* bound on the pieces of an answer *)

Block == {"thinking", "text"} \cup Tool

(* A block under its index, as the client sees it *)
Opened == [index : Nat, of : Block]

ASSUME StreamAssumption ==
    /\ Tool \cap {"thinking", "text"} = {}
    /\ NoBlock \notin Block \cup Opened
    /\ MaxPieces \in Nat

VARIABLES
    engine,                 \* what the engine has sent
    pieces,                 \* how many pieces that was
    called,                 \* the tool calls it has begun
    last,                   \* what its last piece was for
    interleaved,            \* it went back to a tool call it had left
    active,                 \* block_type, or the call where that is "tool_use"
    content_block_index,
    tool_index_to_id,       \* the calls with an entry
    out,                    \* events yielded and not yet taken
    stage, blocks, open, filled,    \* the message that the client has so far
    owed,                   \* pieces sent and not arrived, by block
    started                 \* blocks the client was told to start, by tool call

answer == <<engine, pieces, called, last, interleaved>>
converter == <<active, content_block_index, tool_index_to_id>>
client == <<stage, blocks, open, filled>>

vars == <<answer, converter, out, client, owed, started>>

Event ==
    [kind : {"message_start", "message_delta", "message_stop"}]
        \cup [kind : {"block_start", "block_delta"}, index : Nat, of : Block]
        \cup [kind : {"block_stop"}, index : Nat]

TypeOK ==
    /\ engine \in {"nothing", "role", "usage", "done"}
    /\ pieces \in 0..MaxPieces
    /\ called \in SUBSET Tool /\ last \in Block \cup {NoBlock} /\ interleaved \in BOOLEAN
    /\ active \in Block \cup {NoBlock}
    /\ content_block_index \in Nat
    /\ tool_index_to_id \in SUBSET Tool
    /\ out \in Seq(Event)
    /\ stage \in {"none", "open", "summed", "stopped"}
    /\ blocks \in Nat
    /\ open \in Opened \cup {NoBlock} /\ filled \in Opened \cup {NoBlock}
    /\ owed \in [Block -> Nat] /\ started \in [Tool -> Nat]

Init ==
    /\ engine = "nothing" /\ pieces = 0
    /\ called = {} /\ last = NoBlock /\ interleaved = FALSE
    /\ active = NoBlock /\ content_block_index = 0 /\ tool_index_to_id = {}
    /\ out = <<>>
    /\ stage = "none" /\ blocks = 0 /\ open = NoBlock /\ filled = NoBlock
    /\ owed = [b \in Block |-> 0] /\ started = [t \in Tool |-> 0]

Message(kind) == [kind |-> kind]
-----------------------------------------------------------------------------
(* Faulty variants *)

(* The last line leaves the block open. *)
FinalChunk_LeavesOpen ==
    /\ engine = "role" /\ out = <<>>
    /\ engine' = "usage"
    /\ out' = <<Message("message_delta")>>
    /\ UNCHANGED <<pieces, called, last, interleaved, converter, client, owed, started>>

(* The index is read after state.reset(). *)
StopEvents_AfterReset ==
    IF active = NoBlock THEN <<>> ELSE <<[kind |-> "block_stop", index |-> NoBlock]>>

(* A name always opens a block. *)
OpensBlock_Always(t, name) == name

(* Only the first tool call is entered. *)
Remember_FirstOnly(t) ==
    tool_index_to_id' = IF tool_index_to_id = {} THEN {t} ELSE tool_index_to_id
-----------------------------------------------------------------------------
(* stop_active_block and start_block: the events, and the index afterwards.  While a
   block is active its block_index is content_block_index. *)
StopEvents ==
    IF active = NoBlock THEN <<>>
                        ELSE <<[kind |-> "block_stop", index |-> content_block_index]>>

IndexAfterStop == content_block_index + Len(StopEvents)

BlockStartEvent(b) == [kind |-> "block_start", index |-> IndexAfterStop, of |-> b]

BlockDeltaEvent(b, i) == [kind |-> "block_delta", index |-> i, of |-> b]

(* The rest of _handle_tool_call_with_id: the id is entered; a block is opened unless
   this call's is active. *)
Remember(t) == tool_index_to_id' = tool_index_to_id \cup {t}

OpensBlock(t, name) == active # t /\ name

(* block b is opened, the active one being closed, and begins with n pieces. *)
SwitchTo(b, n) ==
    /\ active' = b
    /\ content_block_index' = IndexAfterStop
    /\ out' = StopEvents \o <<BlockStartEvent(b)>>
                \o (IF n = 0 THEN <<>> ELSE <<BlockDeltaEvent(b, IndexAfterStop)>>)

(* One piece for the active block *)
Continue(b) ==
    /\ out' = <<BlockDeltaEvent(b, content_block_index)>>
    /\ UNCHANGED <<active, content_block_index>>

(* What the engine sends next is for b, n pieces of it. *)
Send(b, n) ==
    /\ engine = "role" /\ out = <<>>
    /\ pieces < MaxPieces
    /\ pieces' = pieces + 1
    /\ last' = b
    /\ interleaved' = (interleaved \/ (b \in called /\ last # b))
    /\ called' = called \cup ({b} \cap Tool)
    /\ owed' = [owed EXCEPT ![b] = @ + n]
    /\ UNCHANGED <<engine, client, started>>
-----------------------------------------------------------------------------
(* The first line, whatever is in it: an error too, which [DONE] follows. *)
MessageStart ==
    /\ engine = "nothing"
    /\ engine' \in {"role", "usage"}
    /\ out' = <<Message("message_start")>>
    /\ UNCHANGED <<pieces, called, last, interleaved, converter, client, owed, started>>

(* _handle_reasoning_delta and _handle_text_delta *)
ReasoningOrText(b) ==
    /\ Send(b, 1)
    /\ IF active # b THEN SwitchTo(b, 1) ELSE Continue(b)
    /\ UNCHANGED tool_index_to_id

(* _handle_tool_call_with_id: t begins, or its id is repeated, with its name or not,
   and with n pieces of its arguments, 0 or 1. *)
ToolCallWithId(t, name, n) ==
    /\ t \notin called => name
    /\ Send(t, n)
    /\ Remember(t)
    /\ IF OpensBlock(t, name) THEN SwitchTo(t, n)
       ELSE IF n = 1 /\ active = t THEN Continue(t)
       ELSE out' = <<>> /\ UNCHANGED <<active, content_block_index>>

(* _handle_tool_call_incremental *)
ToolCallIncremental(t) ==
    /\ t \in called
    /\ Send(t, 1)
    /\ IF t \in tool_index_to_id /\ active = t
       THEN Continue(t)
       ELSE out' = <<>> /\ UNCHANGED <<active, content_block_index>>
    /\ UNCHANGED tool_index_to_id

(* _handle_final_chunk: a line without choices *)
FinalChunk ==
    /\ engine = "role" /\ out = <<>>
    /\ engine' = "usage"
    /\ out' = Append(StopEvents, Message("message_delta"))
    /\ active' = NoBlock /\ content_block_index' = IndexAfterStop
    /\ UNCHANGED <<pieces, called, last, interleaved, tool_index_to_id, client, owed, started>>

(* [DONE] *)
Done ==
    /\ engine = "usage" /\ out = <<>>
    /\ engine' = "done"
    /\ out' = <<Message("message_stop")>>
    /\ UNCHANGED <<pieces, called, last, interleaved, converter, client, owed, started>>

(* The client takes the next event at its word. *)
Receive ==
    /\ out # <<>>
    /\ out' = Tail(out)
    /\ LET e == Head(out) IN
        \/ /\ e.kind = "message_start" /\ stage' = "open"
           /\ UNCHANGED <<blocks, open, filled, owed, started>>
        \/ /\ e.kind = "block_start"
           /\ open' = [index |-> e.index, of |-> e.of]
           /\ started' = [t \in Tool |-> started[t] + IF t = e.of THEN 1 ELSE 0]
           /\ UNCHANGED <<stage, blocks, filled, owed>>
        \/ /\ e.kind = "block_delta"
           /\ filled' = [index |-> e.index, of |-> e.of]
           /\ owed' = [owed EXCEPT ![e.of] = @ - 1]
           /\ UNCHANGED <<stage, blocks, open, started>>
        \/ /\ e.kind = "block_stop"
           /\ blocks' = blocks + 1
           /\ open' = IF open # NoBlock /\ open.index = e.index THEN NoBlock ELSE open
           /\ UNCHANGED <<stage, filled, owed, started>>
        \/ /\ e.kind = "message_delta" /\ stage' = "summed"
           /\ UNCHANGED <<blocks, open, filled, owed, started>>
        \/ /\ e.kind = "message_stop" /\ stage' = "stopped"
           /\ UNCHANGED <<blocks, open, filled, owed, started>>
    /\ UNCHANGED <<answer, converter>>
-----------------------------------------------------------------------------
Next ==
    \/ MessageStart
    \/ \E b \in {"thinking", "text"} : ReasoningOrText(b)
    \/ \E t \in Tool :
        \/ \E name \in BOOLEAN, n \in {0, 1} : ToolCallWithId(t, name, n)
        \/ ToolCallIncremental(t)
    \/ FinalChunk
    \/ Done
    \/ Receive

Spec == Init /\ [][Next]_vars
-----------------------------------------------------------------------------
(* "Ensures that the sequence of Anthropic SSE events is correct" (_ActiveBlockState):
   whatever order the engine sends its pieces in, errors included, the client gets an
   Anthropic message, and every piece in the open block, under its index. *)
Protocol == INSTANCE AnthropicMessage

EventsInOrder == Protocol!Spec

(* Unless the engine goes back to a tool call it had left, every piece that it has sent
   has arrived once the converter is done with it: no fragment of the arguments of a
   call is dropped because of the id or the name it came with. *)
NothingLost == out = <<>> /\ ~interleaved => \A b \in Block : owed[b] = 0

(* ... and a call is one block, however often its id and name are repeated. *)
OneBlockPerCall == ~interleaved => \A t \in Tool : started[t] <= 1
=============================================================================
