---------------------------- MODULE ClaudeStream ----------------------------
(***************************************************************************)
(* The event stream of one Claude call: internal/claude/stream.go.  The    *)
(* server may decline with one model and begin its message again with      *)
(* another; the connection may end or break between any two events, or in  *)
(* the middle of one.  A text is the sequence of its pieces.               *)
(***************************************************************************)
EXTENDS Integers, Sequences

CONSTANTS
  MaxMessages,  \* message_start events of one stream (bound)
  MaxPieces     \* pieces of text in one message (bound)

ASSUME ClaudeStreamAssumption == MaxMessages \in Nat \ {0} /\ MaxPieces \in Nat

VARIABLES
  server,  \* what the server has sent of its present message
  acc,     \* the accumulator
  outcome  \* what parseStream returned: "none" while it reads

streamVars == <<server, acc, outcome>>

\* A snapshot without a message: the zero value of the accumulator.
NoAcc == [started |-> FALSE, stopped |-> FALSE, stop |-> "none", blocks |-> <<>>,
          input |-> 0, output |-> 0]

StreamInit ==
  /\ server = [message |-> 0, pieces |-> 0, phase |-> "before"]
  /\ acc = NoAcc
  /\ outcome = "none"

-----------------------------------------------------------------------------
(* The events, as accumulator.handle takes them.                            *)
\* Mutant: a message that begins again keeps the blocks of the one before.
StartKeepsBlocks(m) ==
  [acc EXCEPT !.started = TRUE, !.stop = "none", !.input = m, !.output = 0]

\* message_start replaces the snapshot: blocks, stop reason and usage.
OnMessageStart(m) ==
  [acc EXCEPT !.started = TRUE, !.stop = "none", !.blocks = <<>>, !.input = m, !.output = 0]

\* content_block_start makes room for the block and gives it its type.
OnBlockStart(type) == [acc EXCEPT !.blocks = Append(@, [type |-> type, text |-> <<>>])]

\* content_block_delta: only text that belongs to a block of text is kept.
OnDelta(i, piece) ==
  [acc EXCEPT !.blocks[i].text = IF acc.blocks[i].type = "text" THEN Append(@, piece) ELSE @]

\* message_delta brings the stop reason and the final usage.
OnMessageDelta(m) == [acc EXCEPT !.stop = "end", !.output = m]

\* The text of the blocks of text, in order.
TextOf(a) ==
  LET all[i \in 0..Len(a.blocks)] ==
        IF i = 0 THEN <<>>
        ELSE all[i - 1] \o (IF a.blocks[i].type = "text" THEN a.blocks[i].text ELSE <<>>)
  IN all[Len(a.blocks)]

\* finish: a stream that ended early is no message.
FinishOf ==
  IF acc.started /\ (acc.stopped \/ acc.stop # "none") THEN "message" ELSE "truncated"

-----------------------------------------------------------------------------
Reading == outcome = "none"

\* The server begins its message, or begins it again with another model.
MessageStart ==
  /\ Reading /\ server.phase # "done" /\ server.message < MaxMessages
  /\ server' = [message |-> server.message + 1, pieces |-> 0, phase |-> "blocks"]
  /\ acc' = OnMessageStart(server.message + 1)
  /\ UNCHANGED outcome

BlockStart ==
  /\ Reading /\ server.phase = "blocks" /\ Len(acc.blocks) < 2 * server.message
  /\ \E type \in {"text", "thinking"} : acc' = OnBlockStart(type)
  /\ UNCHANGED <<server, outcome>>

\* A piece of the last block; only pieces of text are counted.
Delta ==
  /\ Reading /\ server.phase = "blocks" /\ acc.blocks # <<>> /\ server.pieces < MaxPieces
  /\ LET i == Len(acc.blocks) IN
     /\ acc' = OnDelta(i, <<server.message, server.pieces + 1>>)
     /\ server' = [server EXCEPT !.pieces = IF acc.blocks[i].type = "text" THEN @ + 1 ELSE @]
  /\ UNCHANGED outcome

MessageDelta ==
  /\ Reading /\ server.phase = "blocks"
  /\ acc' = OnMessageDelta(server.message)
  /\ server' = [server EXCEPT !.phase = "stopping"]
  /\ UNCHANGED outcome

MessageStop ==
  /\ Reading /\ server.phase = "stopping"
  /\ acc' = [acc EXCEPT !.stopped = TRUE]
  /\ server' = [server EXCEPT !.phase = "done"]
  /\ UNCHANGED outcome

(* An error event, or one that cannot be read, ends the reading.            *)
ErrorEvent ==
  /\ Reading
  /\ outcome' \in {"api", "garbled"}
  /\ UNCHANGED <<server, acc>>

(* The end of the stream: an event that was cut before the end of its line  *)
(* is dropped, one whose lines all arrived was handled.  A connection that  *)
(* breaks is an error even after the last event.                            *)
EndOfStream ==
  /\ Reading
  /\ outcome' \in {FinishOf, "broken"}
  /\ UNCHANGED <<server, acc>>

StreamNext ==
  \/ MessageStart \/ BlockStart \/ Delta \/ MessageDelta \/ MessageStop
  \/ ErrorEvent \/ EndOfStream

StreamSpec == StreamInit /\ [][StreamNext]_streamVars

-----------------------------------------------------------------------------
\* What the server meant to say: every piece of its last message, in order.
WholeText == [n \in 1..server.pieces |-> <<server.message, n>>]

\* "A stream that ended before the message was complete" is an error (errors.go:32):
\* wherever the connection ends, a message that is returned is whole, it is the last
\* one the server began, nothing of a declined one is in its text, and its usage is
\* its own.
WholeMessage ==
  outcome = "message" =>
    /\ server.phase \in {"stopping", "done"}
    /\ TextOf(acc) = WholeText
    /\ acc.input = server.message /\ acc.output = server.message
=============================================================================
