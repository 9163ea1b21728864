------------------------- MODULE AnthropicStreamProofs -------------------------
(***************************************************************************)
(* Proofs about AnthropicStream, for any set of tool calls and any length  *)
(* of the answer.                                                          *)
(*                                                                         *)
(* That the client gets a message is not inductive by itself: it rests on  *)
(* how far the client is behind the converter, which the events that are   *)
(* under way make up for.  Sync lists what they can be.                    *)
(*                                                                         *)
(* That no piece is lost rests on the same list: Delivery says what is     *)
(* missing at the client while one of those sequences is under way.        *)
(***************************************************************************)
EXTENDS AnthropicStream, SequenceTheorems, TLAPS

(* The events for the active block, and for the one before it *)
StartEvent == [kind |-> "block_start", index |-> content_block_index, of |-> active]
PieceEvent == [kind |-> "block_delta", index |-> content_block_index, of |-> active]
StopEvent == [kind |-> "block_stop", index |-> content_block_index - 1]

(* The client has the block that is active open, or none if none is. *)
CaughtUp ==
    /\ blocks = content_block_index
    /\ open = IF active = NoBlock THEN NoBlock
                                  ELSE [index |-> content_block_index, of |-> active]

(* It has yet to open the active block. *)
StartDue ==
    /\ active # NoBlock
    /\ blocks = content_block_index
    /\ open = NoBlock

(* It has yet to close the block before. *)
StopDue ==
    /\ content_block_index > 0 /\ blocks = content_block_index - 1
    /\ \E b \in Block : open = [index |-> blocks, of |-> b]

Answering == engine = "role" /\ stage = "open"

Settled ==
    /\ CaughtUp
    /\ \/ engine = "nothing" /\ stage = "none" /\ active = NoBlock
       \/ engine = "role" /\ stage = "open"
       \/ engine = "usage" /\ stage \in {"open", "summed"} /\ active = NoBlock
       \/ engine = "done" /\ stage = "stopped" /\ active = NoBlock

Sync ==
    \/ out = <<>> /\ Settled
    \/ /\ out = <<Message("message_start")>>
       /\ engine \in {"role", "usage"} /\ stage = "none" /\ active = NoBlock /\ CaughtUp
    \/ out = <<PieceEvent>> /\ Answering /\ active # NoBlock /\ CaughtUp
    \/ out = <<StartEvent>> /\ Answering /\ StartDue
    \/ out = <<StartEvent, PieceEvent>> /\ Answering /\ StartDue
    \/ out = <<StopEvent, StartEvent>> /\ Answering /\ active # NoBlock /\ StopDue
    \/ out = <<StopEvent, StartEvent, PieceEvent>> /\ Answering /\ active # NoBlock /\ StopDue
    \/ /\ out = <<StopEvent, Message("message_delta")>>
       /\ engine = "usage" /\ stage = "open" /\ active = NoBlock /\ StopDue
    \/ /\ out = <<Message("message_delta")>>
       /\ engine = "usage" /\ stage = "open" /\ active = NoBlock /\ CaughtUp
    \/ /\ out = <<Message("message_stop")>>
       /\ engine = "done" /\ stage \in {"open", "summed"} /\ active = NoBlock /\ CaughtUp

(* What the converter itself keeps *)
ConverterTypeOK ==
    /\ active \in Block \cup {NoBlock}
    /\ content_block_index \in Nat

Inv == ConverterTypeOK /\ Sync
-----------------------------------------------------------------------------
(* Facts about sequences of up to three events *)

LEMMA JoinOne ==
    ASSUME NEW x, NEW y
    PROVE  <<x>> \o <<y>> = <<x, y>>
<1> DEFINE S == {x, y}
<1>1. <<x>> \in Seq(S) /\ <<y>> \in Seq(S) /\ <<x, y>> \in Seq(S)  OBVIOUS
<1>2. <<x>> \o <<y>> \in Seq(S)  BY <1>1, ConcatProperties
<1>3. Len(<<x>> \o <<y>>) = 2 /\ Len(<<x, y>>) = 2  BY <1>1, ConcatProperties
<1>4. \A i \in 1..2 : (<<x>> \o <<y>>)[i] = <<x, y>>[i]  BY <1>1, ConcatProperties
<1> QED  BY <1>1, <1>2, <1>3, <1>4, SeqEqual

LEMMA JoinTwo ==
    ASSUME NEW x, NEW y, NEW z
    PROVE  <<x, y>> \o <<z>> = <<x, y, z>>
<1> DEFINE S == {x, y, z}
<1>1. <<x, y>> \in Seq(S) /\ <<z>> \in Seq(S) /\ <<x, y, z>> \in Seq(S)  OBVIOUS
<1>2. <<x, y>> \o <<z>> \in Seq(S)  BY <1>1, ConcatProperties
<1>3. Len(<<x, y>> \o <<z>>) = 3 /\ Len(<<x, y, z>>) = 3  BY <1>1, ConcatProperties
<1>4. \A i \in 1..3 : (<<x, y>> \o <<z>>)[i] = <<x, y, z>>[i]  BY <1>1, ConcatProperties
<1> QED  BY <1>1, <1>2, <1>3, <1>4, SeqEqual

LEMMA JoinNone ==
    ASSUME NEW x, NEW y
    PROVE  /\ <<>> \o <<x>> = <<x>>
           /\ <<x>> \o <<>> = <<x>>
           /\ <<x, y>> \o <<>> = <<x, y>>
OBVIOUS

LEMMA AppendOne ==
    ASSUME NEW x, NEW y
    PROVE  Append(<<>>, y) = <<y>> /\ Append(<<x>>, y) = <<x, y>>
<1> DEFINE S == {x, y}
<1>1. <<x>> \in Seq(S) /\ y \in S /\ <<x, y>> \in Seq(S)  OBVIOUS
<1>2. Append(<<x>>, y) \in Seq(S)  BY <1>1, AppendProperties
<1>3. Len(Append(<<x>>, y)) = 2 /\ Len(<<x, y>>) = 2  BY <1>1, AppendProperties
<1>4. \A i \in 1..2 : Append(<<x>>, y)[i] = <<x, y>>[i]  BY <1>1, AppendProperties
<1>5. Append(<<x>>, y) = <<x, y>>  BY <1>1, <1>2, <1>3, <1>4, SeqEqual
<1> QED  BY <1>5

LEMMA Uncons ==
    ASSUME NEW x, NEW y, NEW z
    PROVE  /\ <<x>> # <<>> /\ <<x, y>> # <<>> /\ <<x, y, z>> # <<>>
           /\ Head(<<x>>) = x /\ Tail(<<x>>) = <<>>
           /\ Head(<<x, y>>) = x /\ Tail(<<x, y>>) = <<y>>
           /\ Head(<<x, y, z>>) = x /\ Tail(<<x, y, z>>) = <<y, z>>
OBVIOUS
-----------------------------------------------------------------------------
(* What the converter does when it opens a block: the active one, if any, is closed first
   and then has the index before. *)
LEMMA SwitchOut ==
    ASSUME ConverterTypeOK, NEW b \in Block, NEW n \in {0, 1}, SwitchTo(b, n)
    PROVE  /\ active' = b
           /\ active = NoBlock =>
                /\ content_block_index' = content_block_index
                /\ out' = IF n = 0 THEN <<StartEvent'>> ELSE <<StartEvent', PieceEvent'>>
           /\ active # NoBlock =>
                /\ content_block_index' = content_block_index + 1
                /\ out' = IF n = 0 THEN <<StopEvent', StartEvent'>>
                                   ELSE <<StopEvent', StartEvent', PieceEvent'>>
<1>1. active' = b /\ content_block_index' = IndexAfterStop
    BY DEF SwitchTo
<1>2. BlockStartEvent(b) = StartEvent' /\ BlockDeltaEvent(b, IndexAfterStop) = PieceEvent'
    BY <1>1 DEF BlockStartEvent, BlockDeltaEvent, StartEvent, PieceEvent
<1>3. out' = StopEvents \o <<StartEvent'>> \o (IF n = 0 THEN <<>> ELSE <<PieceEvent'>>)
    BY <1>2 DEF SwitchTo
<1>4. CASE active = NoBlock
    <2>1. StopEvents = <<>>  BY <1>4 DEF StopEvents
    <2>2. content_block_index' = content_block_index
        BY <1>1, <2>1 DEF IndexAfterStop, ConverterTypeOK
    <2>3. out' = IF n = 0 THEN <<StartEvent'>> ELSE <<StartEvent', PieceEvent'>>
        BY <1>3, <2>1, JoinNone, JoinOne
    <2> QED  BY <1>1, <1>4, <2>2, <2>3
<1>5. CASE active # NoBlock
    <2>1. StopEvents = <<[kind |-> "block_stop", index |-> content_block_index]>>
        BY <1>5 DEF StopEvents
    <2>2. content_block_index' = content_block_index + 1
        BY <1>1, <2>1 DEF IndexAfterStop
    <2>3. StopEvents = <<StopEvent'>>
        BY <2>1, <2>2 DEF StopEvent, ConverterTypeOK
    <2>4. out' = IF n = 0 THEN <<StopEvent', StartEvent'>>
                          ELSE <<StopEvent', StartEvent', PieceEvent'>>
        BY <1>3, <2>3, JoinNone, JoinOne, JoinTwo
    <2> QED  BY <1>1, <1>5, <2>2, <2>4
<1> QED  BY <1>4, <1>5

(* A piece is only sent when the client is not behind. *)
LEMMA SendFromRest ==
    ASSUME Inv, NEW b \in Block, NEW n \in Nat, Send(b, n)
    PROVE  /\ Answering /\ CaughtUp
           /\ engine' = engine
           /\ stage' = stage /\ blocks' = blocks /\ open' = open /\ filled' = filled
<1>1. engine = "role" /\ out = <<>> /\ engine' = engine /\ client' = client
    BY DEF Send
<1>2. out = <<>> /\ Settled
    BY <1>1, Uncons DEF Inv, Sync
<1> QED  BY <1>1, <1>2 DEF Settled, Answering, client

LEMMA SwitchStep ==
    ASSUME Inv, NEW b \in Block, NEW n \in {0, 1}, Send(b, n), SwitchTo(b, n)
    PROVE  Inv'
<1>1. /\ Answering /\ CaughtUp /\ engine' = engine
      /\ stage' = stage /\ blocks' = blocks /\ open' = open
    BY SendFromRest
<1>2. b # NoBlock /\ content_block_index \in Nat /\ active \in Block \cup {NoBlock}
    BY StreamAssumption DEF Inv, ConverterTypeOK
<1>3. CASE active = NoBlock
    <2>1. /\ active' = b /\ content_block_index' = content_block_index
          /\ out' = <<StartEvent'>> \/ out' = <<StartEvent', PieceEvent'>>
        BY <1>3, SwitchOut DEF Inv
    <2>2. StartDue'  BY <1>1, <1>2, <1>3, <2>1 DEF StartDue, CaughtUp
    <2>3. Answering'  BY <1>1 DEF Answering
    <2>4. Sync'  BY <2>1, <2>2, <2>3 DEF Sync
    <2> QED  BY <1>2, <2>1, <2>4 DEF Inv, ConverterTypeOK
<1>4. CASE active # NoBlock
    <2>1. /\ active' = b /\ content_block_index' = content_block_index + 1
          /\ out' = <<StopEvent', StartEvent'>> \/ out' = <<StopEvent', StartEvent', PieceEvent'>>
        BY <1>4, SwitchOut DEF Inv
    <2>2. StopDue'
        <3>1. active \in Block  BY <1>2, <1>4
        <3>2. open' = [index |-> blocks', of |-> active]
            BY <1>1, <1>4 DEF CaughtUp
        <3> QED  BY <1>1, <1>2, <2>1, <3>1, <3>2 DEF StopDue, CaughtUp
    <2>3. Answering' /\ active' # NoBlock  BY <1>1, <1>2, <2>1 DEF Answering
    <2>4. Sync'  BY <2>1, <2>2, <2>3 DEF Sync
    <2> QED  BY <1>2, <2>1, <2>4 DEF Inv, ConverterTypeOK
<1> QED  BY <1>3, <1>4

LEMMA ContinueStep ==
    ASSUME Inv, NEW b \in Block, NEW n \in Nat, Send(b, n), Continue(b), active = b
    PROVE  Inv'
<1>1. /\ Answering /\ CaughtUp /\ engine' = engine
      /\ stage' = stage /\ blocks' = blocks /\ open' = open
    BY SendFromRest
<1>2. active' = active /\ content_block_index' = content_block_index /\ active # NoBlock
    BY StreamAssumption DEF Continue
<1>3. out' = <<PieceEvent'>>
    BY <1>2 DEF Continue, BlockDeltaEvent, PieceEvent
<1>4. Answering' /\ CaughtUp'
    BY <1>1, <1>2 DEF Answering, CaughtUp
<1>5. Sync'  BY <1>2, <1>3, <1>4 DEF Sync
<1> QED  BY <1>2, <1>5 DEF Inv, ConverterTypeOK

LEMMA SilentStep ==
    ASSUME Inv, NEW b \in Block, NEW n \in Nat, Send(b, n),
           out' = <<>>, UNCHANGED <<active, content_block_index>>
    PROVE  Inv'
<1>1. /\ Answering /\ CaughtUp /\ engine' = engine
      /\ stage' = stage /\ blocks' = blocks /\ open' = open
    BY SendFromRest
<1>2. Settled'
    BY <1>1 DEF Settled, Answering, CaughtUp
<1> QED  BY <1>2 DEF Inv, Sync, ConverterTypeOK
-----------------------------------------------------------------------------
(* Every step that is not the client's leaves the message as it is. *)
LEMMA EngineStep ==
    ASSUME Inv, [Next]_vars, ~Receive
    PROVE  Inv' /\ UNCHANGED client
<1>1. ASSUME MessageStart PROVE Inv' /\ UNCHANGED client
    <2>1. engine = "nothing" /\ UNCHANGED <<converter, client>>
        BY <1>1 DEF MessageStart
    <2>2. Settled /\ stage = "none" /\ active = NoBlock
        BY <2>1 DEF Inv, Sync, Settled, Answering
    <2>3. /\ out' = <<Message("message_start")>> /\ engine' \in {"role", "usage"}
        BY <1>1 DEF MessageStart
    <2>4. Sync'
        BY <2>1, <2>2, <2>3 DEF Sync, Settled, CaughtUp, converter, client, Message
    <2> QED  BY <2>1, <2>4 DEF Inv, ConverterTypeOK, converter
<1>2. ASSUME NEW b \in {"thinking", "text"}, ReasoningOrText(b) PROVE Inv' /\ UNCHANGED client
    <2>1. b \in Block /\ Send(b, 1) /\ UNCHANGED client
        BY <1>2 DEF ReasoningOrText, Send, Block
    <2>2. CASE active # b  BY <1>2, <2>1, <2>2, SwitchStep DEF ReasoningOrText
    <2>3. CASE active = b  BY <1>2, <2>1, <2>3, ContinueStep DEF ReasoningOrText
    <2> QED  BY <2>1, <2>2, <2>3
<1>3. ASSUME NEW t \in Tool, NEW name \in BOOLEAN, NEW n \in {0, 1}, ToolCallWithId(t, name, n)
      PROVE  Inv' /\ UNCHANGED client
    <2>1. t \in Block /\ n \in Nat /\ Send(t, n) /\ UNCHANGED client
        BY <1>3 DEF ToolCallWithId, Send, Block
    <2>2. CASE OpensBlock(t, name)  BY <1>3, <2>1, <2>2, SwitchStep DEF ToolCallWithId
    <2>3. CASE ~OpensBlock(t, name) /\ n = 1 /\ active = t
        BY <1>3, <2>1, <2>3, ContinueStep DEF ToolCallWithId
    <2>4. CASE ~OpensBlock(t, name) /\ ~(n = 1 /\ active = t)
        BY <1>3, <2>1, <2>4, SilentStep DEF ToolCallWithId
    <2> QED  BY <2>1, <2>2, <2>3, <2>4
<1>4. ASSUME NEW t \in Tool, ToolCallIncremental(t) PROVE Inv' /\ UNCHANGED client
    <2>1. t \in Block /\ Send(t, 1) /\ UNCHANGED client
        BY <1>4 DEF ToolCallIncremental, Send, Block
    <2>2. CASE t \in tool_index_to_id /\ active = t
        BY <1>4, <2>1, <2>2, ContinueStep DEF ToolCallIncremental
    <2>3. CASE ~(t \in tool_index_to_id /\ active = t)
        BY <1>4, <2>1, <2>3, SilentStep DEF ToolCallIncremental
    <2> QED  BY <2>1, <2>2, <2>3
<1>5. ASSUME FinalChunk PROVE Inv' /\ UNCHANGED client
    <2>1. /\ engine = "role" /\ out = <<>> /\ engine' = "usage"
          /\ active' = NoBlock /\ content_block_index' = IndexAfterStop
          /\ out' = Append(StopEvents, Message("message_delta"))
          /\ UNCHANGED client
        BY <1>5 DEF FinalChunk
    <2>2. CaughtUp /\ stage = "open"
        BY <2>1, Uncons DEF Inv, Sync, Settled
    <2>3. CASE active = NoBlock
        <3>1. StopEvents = <<>>  BY <2>3 DEF StopEvents
        <3>2. content_block_index' = content_block_index
            BY <2>1, <3>1 DEF IndexAfterStop, Inv, ConverterTypeOK
        <3>3. out' = <<Message("message_delta")>>  BY <2>1, <3>1, AppendOne
        <3>4. Sync'
            BY <2>1, <2>2, <2>3, <3>2, <3>3 DEF Sync, CaughtUp, client, Message
        <3> QED  BY <2>1, <3>2, <3>4 DEF Inv, ConverterTypeOK
    <2>4. CASE active # NoBlock
        <3>1. StopEvents = <<[kind |-> "block_stop", index |-> content_block_index]>>
            BY <2>4 DEF StopEvents
        <3>2. content_block_index' = content_block_index + 1 /\ content_block_index \in Nat
            BY <2>1, <3>1 DEF IndexAfterStop, Inv, ConverterTypeOK
        <3>3. out' = <<StopEvent', Message("message_delta")>>
            BY <2>1, <3>1, <3>2, AppendOne DEF StopEvent
        <3>4. StopDue'
            <4>1. active \in Block  BY <2>4 DEF Inv, ConverterTypeOK
            <4>2. open' = [index |-> blocks', of |-> active] /\ blocks' = content_block_index
                BY <2>1, <2>2, <2>4 DEF CaughtUp, client
            <4> QED  BY <3>2, <4>1, <4>2 DEF StopDue
        <3>5. Sync'
            BY <2>1, <2>2, <3>3, <3>4 DEF Sync, client, Message
        <3> QED  BY <2>1, <3>2, <3>5 DEF Inv, ConverterTypeOK
    <2> QED  BY <2>1, <2>3, <2>4
<1>6. ASSUME Done PROVE Inv' /\ UNCHANGED client
    <2>1. /\ engine = "usage" /\ out = <<>> /\ engine' = "done"
          /\ out' = <<Message("message_stop")>>
          /\ UNCHANGED <<converter, client>>
        BY <1>6 DEF Done
    <2>2. CaughtUp /\ active = NoBlock /\ stage \in {"open", "summed"}
        BY <2>1, Uncons DEF Inv, Sync, Settled
    <2>3. Sync'
        BY <2>1, <2>2 DEF Sync, CaughtUp, converter, client, Message
    <2> QED  BY <2>1, <2>3 DEF Inv, ConverterTypeOK, converter
<1>7. CASE UNCHANGED vars
    BY <1>7 DEF Inv, ConverterTypeOK, Sync, Settled, CaughtUp, StartDue, StopDue, Answering,
                StartEvent, PieceEvent, StopEvent, vars, answer, converter, client
<1> QED  BY <1>1, <1>2, <1>3, <1>4, <1>5, <1>6, <1>7 DEF Next
-----------------------------------------------------------------------------
LEMMA OpenIsOpen ==
    ASSUME ConverterTypeOK, CaughtUp, active # NoBlock
    PROVE  open # NoBlock /\ open = [index |-> content_block_index, of |-> active]
BY StreamAssumption DEF ConverterTypeOK, CaughtUp, Opened

(* What the client does with an event, by its kind *)
LEMMA TakeMark ==
    ASSUME Receive, NEW kind \in {"message_start", "message_delta", "message_stop"},
           Head(out) = Message(kind)
    PROVE  /\ out' = Tail(out) /\ UNCHANGED <<engine, converter, blocks, open, filled>>
           /\ kind = "message_start" => stage' = "open"
           /\ kind = "message_delta" => stage' = "summed"
           /\ kind = "message_stop" => stage' = "stopped"
BY DEF Receive, Message, answer

LEMMA TakeStart ==
    ASSUME Receive, Head(out) = StartEvent
    PROVE  /\ out' = Tail(out) /\ UNCHANGED <<engine, converter, stage, blocks, filled>>
           /\ open' = [index |-> content_block_index, of |-> active]
BY DEF Receive, StartEvent, answer

LEMMA TakePiece ==
    ASSUME Receive, Head(out) = PieceEvent
    PROVE  /\ out' = Tail(out) /\ UNCHANGED <<engine, converter, stage, blocks, open>>
           /\ filled' = [index |-> content_block_index, of |-> active]
BY DEF Receive, PieceEvent, answer

LEMMA TakeStop ==
    ASSUME Receive, ConverterTypeOK, StopDue, Head(out) = StopEvent
    PROVE  /\ out' = Tail(out) /\ UNCHANGED <<engine, converter, stage, filled>>
           /\ open # NoBlock /\ open' = NoBlock
           /\ blocks' = blocks + 1 /\ blocks' = content_block_index
<1>1. /\ out' = Tail(out) /\ UNCHANGED <<engine, converter, stage, filled>>
      /\ blocks' = blocks + 1
      /\ open' = IF open # NoBlock /\ open.index = content_block_index - 1
                 THEN NoBlock ELSE open
    BY DEF Receive, StopEvent, answer
<1>2. /\ content_block_index \in Nat /\ content_block_index > 0
      /\ blocks = content_block_index - 1 /\ open.index = blocks /\ open \in Opened
    BY DEF StopDue, Opened, ConverterTypeOK
<1> QED  BY <1>1, <1>2, StreamAssumption
-----------------------------------------------------------------------------
(* The client's step leaves it closer behind, and is one that the protocol allows. *)
LEMMA ReceiveStep ==
    ASSUME Inv, Receive
    PROVE  Inv' /\ Protocol!Next
<1> USE DEF Inv
<1>0. out # <<>>  BY DEF Receive
<1>1. CASE out = <<Message("message_start")>> /\ engine \in {"role", "usage"}
           /\ stage = "none" /\ active = NoBlock /\ CaughtUp
    <2>1. /\ out' = <<>> /\ UNCHANGED <<engine, converter, blocks, open, filled>>
          /\ stage' = "open"
        BY <1>1, TakeMark, Uncons
    <2>2. Settled'  BY <1>1, <2>1 DEF Settled, CaughtUp, converter
    <2>3. Protocol!MessageStart  BY <1>1, <2>1 DEF Protocol!MessageStart
    <2> QED  BY <2>1, <2>2, <2>3 DEF Sync, ConverterTypeOK, converter, Protocol!Next
<1>2. CASE out = <<PieceEvent>> /\ Answering /\ active # NoBlock /\ CaughtUp
    <2>1. /\ out' = <<>> /\ UNCHANGED <<engine, converter, stage, blocks, open>>
          /\ filled' = [index |-> content_block_index, of |-> active]
        BY <1>2, TakePiece, Uncons
    <2>2. Settled'  BY <1>2, <2>1 DEF Settled, CaughtUp, Answering, converter
    <2>3. Protocol!BlockDelta  BY <1>2, <2>1, OpenIsOpen DEF Protocol!BlockDelta
    <2> QED  BY <2>1, <2>2, <2>3 DEF Sync, ConverterTypeOK, converter, Protocol!Next
<1>3. CASE /\ out = <<StartEvent>> \/ out = <<StartEvent, PieceEvent>>
           /\ Answering /\ StartDue
    <2>1. /\ out' = <<>> \/ out' = <<PieceEvent>>
          /\ UNCHANGED <<engine, converter, stage, blocks, filled>>
          /\ open' = [index |-> content_block_index, of |-> active]
        <3>1. Head(out) = StartEvent /\ (Tail(out) = <<>> \/ Tail(out) = <<PieceEvent>>)
            <4>1. CASE out = <<StartEvent>>  BY <4>1, Uncons
            <4>2. CASE out = <<StartEvent, PieceEvent>>  BY <4>2, Uncons
            <4> QED  BY <1>3, <4>1, <4>2
        <3> QED  BY <3>1, TakeStart
    <2>2. CaughtUp' /\ Answering' /\ active' # NoBlock /\ PieceEvent' = PieceEvent
        BY <1>3, <2>1 DEF StartDue, CaughtUp, Answering, converter, PieceEvent
    <2>3. Settled'  BY <2>2 DEF Settled, Answering
    <2>4. Protocol!BlockStart(active) /\ active \in Block
        BY <1>3, <2>1 DEF Protocol!BlockStart, StartDue, Answering, ConverterTypeOK
    <2> QED  BY <2>1, <2>2, <2>3, <2>4 DEF Sync, ConverterTypeOK, converter, Protocol!Next
<1>4. CASE /\ out = <<StopEvent, StartEvent>> \/ out = <<StopEvent, StartEvent, PieceEvent>>
           /\ Answering /\ active # NoBlock /\ StopDue
    <2>1. /\ out' = <<StartEvent>> \/ out' = <<StartEvent, PieceEvent>>
          /\ UNCHANGED <<engine, converter, stage, filled>>
          /\ open # NoBlock /\ open' = NoBlock
          /\ blocks' = blocks + 1 /\ blocks' = content_block_index
        <3>1. /\ Head(out) = StopEvent
              /\ Tail(out) = <<StartEvent>> \/ Tail(out) = <<StartEvent, PieceEvent>>
            <4>1. CASE out = <<StopEvent, StartEvent>>  BY <4>1, Uncons
            <4>2. CASE out = <<StopEvent, StartEvent, PieceEvent>>  BY <4>2, Uncons
            <4> QED  BY <1>4, <4>1, <4>2
        <3> QED  BY <1>4, <3>1, TakeStop
    <2>2. /\ StartDue' /\ Answering' /\ StartEvent' = StartEvent /\ PieceEvent' = PieceEvent
        BY <1>4, <2>1 DEF StartDue, Answering, converter, StartEvent, PieceEvent
    <2>3. Protocol!BlockStop  BY <2>1 DEF Protocol!BlockStop
    <2> QED  BY <2>1, <2>2, <2>3 DEF Sync, ConverterTypeOK, converter, Protocol!Next
<1>5. CASE out = <<StopEvent, Message("message_delta")>>
           /\ engine = "usage" /\ stage = "open" /\ active = NoBlock /\ StopDue
    <2>1. /\ out' = <<Message("message_delta")>>
          /\ UNCHANGED <<engine, converter, stage, filled>>
          /\ open # NoBlock /\ open' = NoBlock
          /\ blocks' = blocks + 1 /\ blocks' = content_block_index
        BY <1>5, TakeStop, Uncons
    <2>2. CaughtUp' /\ engine' = "usage" /\ stage' = "open" /\ active' = NoBlock
        BY <1>5, <2>1 DEF CaughtUp, converter
    <2>3. Protocol!BlockStop  BY <2>1 DEF Protocol!BlockStop
    <2> QED  BY <2>1, <2>2, <2>3 DEF Sync, ConverterTypeOK, converter, Message, Protocol!Next
<1>6. CASE out = <<Message("message_delta")>>
           /\ engine = "usage" /\ stage = "open" /\ active = NoBlock /\ CaughtUp
    <2>1. /\ out' = <<>> /\ UNCHANGED <<engine, converter, blocks, open, filled>>
          /\ stage' = "summed"
        BY <1>6, TakeMark, Uncons
    <2>2. Settled'  BY <1>6, <2>1 DEF Settled, CaughtUp, converter
    <2>3. Protocol!MessageDelta  BY <1>6, <2>1 DEF Protocol!MessageDelta, CaughtUp
    <2> QED  BY <2>1, <2>2, <2>3 DEF Sync, ConverterTypeOK, converter, Protocol!Next
<1>7. CASE out = <<Message("message_stop")>>
           /\ engine = "done" /\ stage \in {"open", "summed"} /\ active = NoBlock /\ CaughtUp
    <2>1. /\ out' = <<>> /\ UNCHANGED <<engine, converter, blocks, open, filled>>
          /\ stage' = "stopped"
        BY <1>7, TakeMark, Uncons
    <2>2. Settled'  BY <1>7, <2>1 DEF Settled, CaughtUp, converter
    <2>3. Protocol!MessageStop  BY <1>7, <2>1 DEF Protocol!MessageStop, CaughtUp
    <2> QED  BY <2>1, <2>2, <2>3 DEF Sync, ConverterTypeOK, converter, Protocol!Next
<1> QED  BY <1>0, <1>1, <1>2, <1>3, <1>4, <1>5, <1>6, <1>7 DEF Sync

LEMMA InvInit == Init => Inv
BY StreamAssumption DEF Init, Inv, ConverterTypeOK, Sync, Settled, CaughtUp

LEMMA InvNext == Inv /\ [Next]_vars => Inv' /\ [Protocol!Next]_(Protocol!vars)
<1> SUFFICES ASSUME Inv, [Next]_vars PROVE Inv' /\ [Protocol!Next]_(Protocol!vars)
    OBVIOUS
<1>1. CASE Receive  BY <1>1, ReceiveStep
<1>2. CASE ~Receive  BY <1>2, EngineStep DEF client, Protocol!vars
<1> QED  BY <1>1, <1>2

(* The client is always behind by one of the sequences of events that Sync lists: none
   of them is out of its place (_StreamConverter.feed_bytes_iter and the handlers that it
   calls). *)
THEOREM InvCorrect == Spec => []Inv
<1>1. Init => Inv  BY InvInit
<1>2. Inv /\ [Next]_vars => Inv'  BY InvNext
<1> QED  BY <1>1, <1>2, PTL DEF Spec

(* Whatever order the engine sends its pieces in, and wherever it fails, the client gets
   an Anthropic message: the converter implements AnthropicMessage. *)
THEOREM Implements == Spec => EventsInOrder
<1>1. Init => Protocol!Init  BY DEF Init, Protocol!Init
<1>2. Inv /\ [Next]_vars => [Protocol!Next]_(Protocol!vars)  BY InvNext
<1> QED  BY <1>1, <1>2, InvCorrect, PTL DEF Spec, EventsInOrder, Protocol!Spec
-----------------------------------------------------------------------------
(* What has arrived.  Until the engine goes back to a call it had left, what is missing
   is under way: the piece of the active block, and the start of its block. *)
OnItsWay(kind) == \E i \in 1..Len(out) : out[i].kind = kind

Account ==
    /\ \A b \in Block : owed[b] = IF b = active /\ OnItsWay("block_delta") THEN 1 ELSE 0
    /\ \A t \in Tool :
        started[t] = IF t \in called /\ ~(t = active /\ OnItsWay("block_start")) THEN 1 ELSE 0

(* The block that is active is what the engine's last piece was for. *)
Following ==
    /\ engine = "nothing" => last = NoBlock
    /\ engine = "role" /\ last # NoBlock => active = last

Delivery ==
    /\ owed \in [Block -> Int] /\ started \in [Tool -> Nat]
    /\ called \subseteq tool_index_to_id
    /\ active \in Tool => active \in called
    /\ ~interleaved => Account /\ Following

LEMMA ShortOut ==
    ASSUME NEW kind, NEW x, NEW y, NEW z
    PROVE  /\ out = <<>> => ~OnItsWay(kind)
           /\ out = <<x>> => (OnItsWay(kind) <=> x.kind = kind)
           /\ out = <<x, y>> => (OnItsWay(kind) <=> x.kind = kind \/ y.kind = kind)
           /\ out = <<x, y, z>> =>
                (OnItsWay(kind) <=> x.kind = kind \/ y.kind = kind \/ z.kind = kind)
BY DEF OnItsWay

LEMMA ShortOutNext ==
    ASSUME NEW kind, NEW x, NEW y, NEW z
    PROVE  /\ out' = <<>> => ~OnItsWay(kind)'
           /\ out' = <<x>> => (OnItsWay(kind)' <=> x.kind = kind)
           /\ out' = <<x, y>> => (OnItsWay(kind)' <=> x.kind = kind \/ y.kind = kind)
           /\ out' = <<x, y, z>> =>
                (OnItsWay(kind)' <=> x.kind = kind \/ y.kind = kind \/ z.kind = kind)
BY DEF OnItsWay

LEMMA Kinds ==
    /\ StartEvent.kind = "block_start" /\ StartEvent'.kind = "block_start"
    /\ PieceEvent.kind = "block_delta" /\ PieceEvent'.kind = "block_delta"
    /\ StopEvent.kind = "block_stop" /\ StopEvent'.kind = "block_stop"
    /\ \A kind : Message(kind).kind = kind
BY DEF StartEvent, PieceEvent, StopEvent, Message

(* A piece is sent when nothing is under way. *)
LEMMA SentFromRest ==
    ASSUME Delivery, NEW b \in Block, NEW n \in {0, 1}, Send(b, n)
    PROVE  /\ engine = "role" /\ engine' = "role" /\ last' = b /\ b # NoBlock
           /\ owed' \in [Block -> Int] /\ started' \in [Tool -> Nat] /\ started' = started
           /\ called' = called \cup ({b} \cap Tool)
           /\ ~interleaved' =>
                /\ ~interleaved /\ (b \in called => last = b)
                /\ \A a \in Block : owed'[a] = IF a = b THEN n ELSE 0
                /\ \A t \in Tool : started'[t] = IF t \in called THEN 1 ELSE 0
<1>1. /\ engine = "role" /\ engine' = "role" /\ last' = b /\ b # NoBlock /\ out = <<>>
      /\ called' = called \cup ({b} \cap Tool) /\ started' = started
      /\ interleaved' = (interleaved \/ (b \in called /\ last # b))
      /\ owed' = [owed EXCEPT ![b] = @ + n]
    BY StreamAssumption DEF Send
<1>2. owed' \in [Block -> Int] /\ started' \in [Tool -> Nat]
    BY <1>1 DEF Delivery
<1>3. ASSUME ~interleaved' PROVE ~interleaved /\ (b \in called => last = b)
    BY <1>1, <1>3
<1>4. ASSUME ~interleaved'
      PROVE  /\ \A a \in Block : owed'[a] = IF a = b THEN n ELSE 0
             /\ \A t \in Tool : started'[t] = IF t \in called THEN 1 ELSE 0
    <2>1. ~OnItsWay("block_delta") /\ ~OnItsWay("block_start")
        BY <1>1, ShortOut
    <2>2. Account  BY <1>3, <1>4 DEF Delivery
    <2> QED  BY <1>1, <2>1, <2>2 DEF Account, Delivery
<1> QED  BY <1>1, <1>2, <1>3, <1>4

(* A block is opened for its first piece, or for one after pieces of other blocks. *)
LEMMA DeliverySwitch ==
    ASSUME Inv, Delivery, NEW b \in Block, NEW n \in {0, 1}, Send(b, n), SwitchTo(b, n),
           active # b, called' \subseteq tool_index_to_id'
    PROVE  Delivery'
<1>1. active' = b  BY DEF SwitchTo
<1>2. /\ OnItsWay("block_start")'
      /\ OnItsWay("block_delta")' <=> n = 1
    <2>1. \/ n = 0 /\ (out' = <<StartEvent'>> \/ out' = <<StopEvent', StartEvent'>>)
          \/ /\ n = 1
             /\ out' = <<StartEvent', PieceEvent'>> \/ out' = <<StopEvent', StartEvent', PieceEvent'>>
        BY SwitchOut DEF Inv
    <2> QED  BY <2>1, ShortOutNext, Kinds
<1>3. ASSUME ~interleaved' PROVE b \notin called
    <2>1. ~interleaved /\ (b \in called => last = b) /\ engine = "role" /\ b # NoBlock
        BY <1>3, SentFromRest
    <2> QED  BY <2>1 DEF Delivery, Following
<1>4. ASSUME ~interleaved' PROVE Account' /\ Following'
    <2>1. Following'  BY <1>1, SentFromRest DEF Following
    <2>2. \A a \in Block : owed'[a] = IF a = active' /\ OnItsWay("block_delta")' THEN 1 ELSE 0
        BY <1>1, <1>2, <1>4, SentFromRest
    <2>3. \A t \in Tool : started'[t] = IF t \in called' /\ t # active' THEN 1 ELSE 0
        BY <1>1, <1>3, <1>4, SentFromRest
    <2> QED  BY <1>2, <2>1, <2>2, <2>3 DEF Account
<1> QED  BY <1>1, <1>4, SentFromRest DEF Delivery

LEMMA DeliveryContinue ==
    ASSUME Inv, Delivery, NEW b \in Block, Send(b, 1), Continue(b),
           active = b, called' \subseteq tool_index_to_id'
    PROVE  Delivery'
<1>1. active' = b  BY DEF Continue
<1>2. /\ ~OnItsWay("block_start")' /\ OnItsWay("block_delta")'
    <2>1. out' = <<PieceEvent'>>
        BY DEF Continue, BlockDeltaEvent, PieceEvent
    <2> QED  BY <2>1, ShortOutNext, Kinds
<1>3. b \in Tool => b \in called  BY DEF Delivery
<1>4. ASSUME ~interleaved' PROVE Account' /\ Following'
    <2>1. Following'  BY <1>1, SentFromRest DEF Following
    <2>2. \A a \in Block : owed'[a] = IF a = active' /\ OnItsWay("block_delta")' THEN 1 ELSE 0
        BY <1>1, <1>2, <1>4, SentFromRest
    <2>3. \A t \in Tool : started'[t] = IF t \in called' THEN 1 ELSE 0
        BY <1>3, <1>4, SentFromRest
    <2> QED  BY <1>2, <2>1, <2>2, <2>3 DEF Account
<1> QED  BY <1>1, <1>4, SentFromRest DEF Delivery

(* Nothing is yielded for a piece that says nothing, or for one that is lost; that needs
   an engine that goes back. *)
LEMMA DeliverySilent ==
    ASSUME Inv, Delivery, NEW t \in Tool, NEW n \in {0, 1}, Send(t, n),
           out' = <<>>, active' = active, t \in called \/ active = t,
           n = 1 => active # t, called' \subseteq tool_index_to_id'
    PROVE  Delivery'
<1>1. t \in Block /\ t \in called  BY DEF Block, Delivery
<1>2. called' = called  BY <1>1, SentFromRest
<1>3. ~OnItsWay("block_start")' /\ ~OnItsWay("block_delta")'  BY ShortOutNext
<1>4. ASSUME ~interleaved' PROVE Account' /\ Following'
    <2>1. active = t
        BY <1>1, <1>4, SentFromRest DEF Delivery, Following
    <2>2. n = 0  BY <2>1
    <2>3. Following'  BY <1>1, <2>1, SentFromRest DEF Following
    <2>4. /\ \A a \in Block : owed'[a] = 0
          /\ \A u \in Tool : started'[u] = IF u \in called' THEN 1 ELSE 0
        BY <1>1, <1>2, <1>4, <2>2, SentFromRest
    <2> QED  BY <1>3, <2>3, <2>4 DEF Account
<1> QED  BY <1>1, <1>2, <1>4, SentFromRest DEF Delivery

(* The steps of the converter *)
LEMMA DeliveryFeed ==
    ASSUME Inv, Delivery, [Next]_vars, ~Receive
    PROVE  Delivery'
<1>1. ASSUME MessageStart PROVE Delivery'
    <2>1. /\ engine = "nothing" /\ engine' # "nothing" /\ out' = <<Message("message_start")>>
          /\ UNCHANGED <<called, last, interleaved, active, tool_index_to_id, owed, started>>
        BY <1>1 DEF MessageStart, converter
    <2>2. out = <<>> /\ active = NoBlock
        BY <2>1 DEF Inv, Sync, Settled, Answering
    <2>3. \A kind \in {"block_start", "block_delta"} : ~OnItsWay(kind) /\ ~OnItsWay(kind)'
        BY <2>1, <2>2, ShortOut, ShortOutNext, Kinds
    <2> QED  BY <2>1, <2>2, <2>3 DEF Delivery, Account, Following
<1>2. ASSUME NEW b \in {"thinking", "text"}, ReasoningOrText(b) PROVE Delivery'
    <2>1. b \in Block /\ Send(b, 1) /\ b \notin Tool /\ tool_index_to_id' = tool_index_to_id
        BY <1>2, StreamAssumption DEF ReasoningOrText, Block
    <2>2. called' \subseteq tool_index_to_id'
        BY <2>1, SentFromRest DEF Delivery
    <2>3. CASE active # b  BY <1>2, <2>1, <2>2, <2>3, DeliverySwitch DEF ReasoningOrText
    <2>4. CASE active = b  BY <1>2, <2>1, <2>2, <2>4, DeliveryContinue DEF ReasoningOrText
    <2> QED  BY <2>3, <2>4
<1>3. ASSUME NEW t \in Tool, NEW name \in BOOLEAN, NEW n \in {0, 1}, ToolCallWithId(t, name, n)
      PROVE  Delivery'
    <2>1. t \in Block /\ Send(t, n) /\ tool_index_to_id' = tool_index_to_id \cup {t}
        BY <1>3 DEF ToolCallWithId, Remember, Block
    <2>2. called' \subseteq tool_index_to_id'
        BY <2>1, SentFromRest DEF Delivery
    <2>3. CASE OpensBlock(t, name)
        BY <1>3, <2>1, <2>2, <2>3, DeliverySwitch DEF ToolCallWithId, OpensBlock
    <2>4. CASE ~OpensBlock(t, name) /\ n = 1 /\ active = t
        BY <1>3, <2>1, <2>2, <2>4, DeliveryContinue DEF ToolCallWithId
    <2>5. CASE ~OpensBlock(t, name) /\ ~(n = 1 /\ active = t)
        <3>1. /\ out' = <<>> /\ active' = active
              /\ t \in called \/ active = t
            BY <1>3, <2>5 DEF ToolCallWithId, OpensBlock
        <3> QED  BY <2>1, <2>2, <2>5, <3>1, DeliverySilent
    <2> QED  BY <2>3, <2>4, <2>5
<1>4. ASSUME NEW t \in Tool, ToolCallIncremental(t) PROVE Delivery'
    <2>1. t \in Block /\ t \in called /\ Send(t, 1) /\ tool_index_to_id' = tool_index_to_id
        BY <1>4 DEF ToolCallIncremental, Block
    <2>2. called' \subseteq tool_index_to_id' /\ t \in tool_index_to_id
        BY <2>1, SentFromRest DEF Delivery
    <2>3. CASE active = t
        BY <1>4, <2>1, <2>2, <2>3, DeliveryContinue DEF ToolCallIncremental
    <2>4. CASE active # t
        BY <1>4, <2>1, <2>2, <2>4, DeliverySilent DEF ToolCallIncremental
    <2> QED  BY <2>3, <2>4
<1>5. ASSUME FinalChunk PROVE Delivery'
    <2>1. /\ out = <<>> /\ engine' = "usage" /\ active' = NoBlock
          /\ out' = Append(StopEvents, Message("message_delta"))
          /\ UNCHANGED <<called, last, interleaved, tool_index_to_id, owed, started>>
        BY <1>5 DEF FinalChunk
    <2>2. \/ out' = <<Message("message_delta")>>
          \/ \E i : out' = <<[kind |-> "block_stop", index |-> i], Message("message_delta")>>
        BY <2>1, AppendOne DEF StopEvents
    <2>3. \A kind \in {"block_start", "block_delta"} : ~OnItsWay(kind) /\ ~OnItsWay(kind)'
        BY <2>1, <2>2, ShortOut, ShortOutNext, Kinds
    <2>4. NoBlock \notin Block /\ NoBlock \notin Tool  BY StreamAssumption DEF Block
    <2> QED  BY <2>1, <2>3, <2>4 DEF Delivery, Account, Following
<1>6. ASSUME Done PROVE Delivery'
    <2>1. /\ out = <<>> /\ engine' = "done" /\ out' = <<Message("message_stop")>>
          /\ UNCHANGED <<called, last, interleaved, active, tool_index_to_id, owed, started>>
        BY <1>6 DEF Done, converter
    <2>2. \A kind \in {"block_start", "block_delta"} : ~OnItsWay(kind) /\ ~OnItsWay(kind)'
        BY <2>1, ShortOut, ShortOutNext, Kinds
    <2> QED  BY <2>1, <2>2 DEF Delivery, Account, Following
<1>7. CASE UNCHANGED vars
    BY <1>7 DEF Delivery, Account, Following, OnItsWay, vars, answer, converter
<1> QED  BY <1>1, <1>2, <1>3, <1>4, <1>5, <1>6, <1>7 DEF Next

(* The client's: the start and the piece of a block arrive as what they are. *)
LEMMA DeliveryReceive ==
    ASSUME Inv, Delivery, Receive
    PROVE  Delivery'
<1> DEFINE Same == UNCHANGED <<engine, called, last, interleaved, active, tool_index_to_id>>
<1>0. Same /\ out # <<>> /\ out' = Tail(out)  BY DEF Receive, answer, converter
<1>1. CASE /\ out = <<StartEvent>> \/ out = <<StartEvent, PieceEvent>>
           /\ active \in Block
    <2>1. /\ Head(out) = StartEvent
          /\ OnItsWay("block_start") /\ ~OnItsWay("block_start")'
          /\ OnItsWay("block_delta")' <=> OnItsWay("block_delta")
        <3>1. CASE out = <<StartEvent>>
            BY <1>0, <3>1, Uncons, ShortOut, ShortOutNext, Kinds
        <3>2. CASE out = <<StartEvent, PieceEvent>>
            BY <1>0, <3>2, Uncons, ShortOut, ShortOutNext, Kinds
        <3> QED  BY <1>1, <3>1, <3>2
    <2>2. /\ owed' = owed
          /\ started' = [t \in Tool |-> started[t] + IF t = active THEN 1 ELSE 0]
        BY <2>1 DEF Receive, StartEvent
    <2>3. started' \in [Tool -> Nat]  BY <2>2 DEF Delivery
    <2>4. Account => Account'
        BY <1>0, <2>1, <2>2 DEF Account, Delivery
    <2> QED  BY <1>0, <2>2, <2>3, <2>4 DEF Delivery, Following
<1>2. CASE out = <<PieceEvent>> /\ active \in Block
    <2>1. /\ Head(out) = PieceEvent
          /\ ~OnItsWay("block_start") /\ ~OnItsWay("block_start")'
          /\ OnItsWay("block_delta") /\ ~OnItsWay("block_delta")'
        BY <1>0, <1>2, Uncons, ShortOut, ShortOutNext, Kinds
    <2>2. /\ started' = started
          /\ owed' = [owed EXCEPT ![active] = @ - 1]
        BY <2>1 DEF Receive, PieceEvent
    <2>3. owed' \in [Block -> Int]  BY <1>2, <2>2 DEF Delivery
    <2>4. Account => Account'
        BY <1>0, <1>2, <2>1, <2>2 DEF Account, Delivery
    <2> QED  BY <1>0, <2>2, <2>3, <2>4 DEF Delivery, Following
<1>3. CASE \/ out = <<StopEvent, StartEvent>> \/ out = <<StopEvent, StartEvent, PieceEvent>>
           \/ out = <<StopEvent, Message("message_delta")>>
    <2>1. /\ Head(out) = StopEvent
          /\ OnItsWay("block_start")' <=> OnItsWay("block_start")
          /\ OnItsWay("block_delta")' <=> OnItsWay("block_delta")
        <3>1. CASE out = <<StopEvent, StartEvent>>
            BY <1>0, <3>1, Uncons, ShortOut, ShortOutNext, Kinds
        <3>2. CASE out = <<StopEvent, StartEvent, PieceEvent>>
            BY <1>0, <3>2, Uncons, ShortOut, ShortOutNext, Kinds
        <3>3. CASE out = <<StopEvent, Message("message_delta")>>
            BY <1>0, <3>3, Uncons, ShortOut, ShortOutNext, Kinds
        <3> QED  BY <1>3, <3>1, <3>2, <3>3
    <2>2. owed' = owed /\ started' = started
        BY <2>1 DEF Receive, StopEvent
    <2> QED  BY <1>0, <2>1, <2>2 DEF Delivery, Account, Following
<1>4. CASE \E kind \in {"message_start", "message_delta", "message_stop"} : out = <<Message(kind)>>
    <2>1. PICK kind \in {"message_start", "message_delta", "message_stop"} : out = <<Message(kind)>>
        BY <1>4
    <2>2. /\ Head(out) = Message(kind)
          /\ OnItsWay("block_start")' <=> OnItsWay("block_start")
          /\ OnItsWay("block_delta")' <=> OnItsWay("block_delta")
        BY <1>0, <2>1, Uncons, ShortOut, ShortOutNext, Kinds
    <2>3. owed' = owed /\ started' = started
        BY <2>2 DEF Receive, Message
    <2> QED  BY <1>0, <2>2, <2>3 DEF Delivery, Account, Following
<1>5. active # NoBlock => active \in Block  BY DEF Inv, ConverterTypeOK
<1> QED  BY <1>0, <1>1, <1>2, <1>3, <1>4, <1>5 DEF Inv, Sync, StartDue

LEMMA DeliveryInit == Init => Delivery
BY StreamAssumption, ShortOut DEF Init, Delivery, Account, Following, Block

LEMMA DeliveryCorrect == Spec => []Delivery
<1>1. Init => Delivery  BY DeliveryInit
<1>2. Inv /\ Delivery /\ [Next]_vars => Delivery'
    BY DeliveryFeed, DeliveryReceive
<1> QED  BY <1>1, <1>2, InvCorrect, PTL DEF Spec

(* Whatever an engine that finishes a call before the next one sends, each piece reaches
   the client: no arguments are dropped because of the id or the name they came with
   (_handle_tool_call_with_id, _handle_tool_call_incremental). *)
THEOREM EveryPieceArrives == Spec => []NothingLost
<1>1. Delivery => NothingLost
    BY ShortOut DEF Delivery, Account, NothingLost
<1> QED  BY <1>1, DeliveryCorrect, PTL

(* ... and a call is one block of the message, however often its id and its name are
   repeated. *)
THEOREM OneBlockForEachCall == Spec => []OneBlockPerCall
<1>1. Delivery => OneBlockPerCall
    BY DEF Delivery, Account, OneBlockPerCall
<1> QED  BY <1>1, DeliveryCorrect, PTL
=============================================================================
