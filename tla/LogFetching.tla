---------------------------- MODULE LogFetching ----------------------------
(***************************************************************************)
(* How logs are read from an RPC node that refuses large answers: the      *)
(* addresses are asked for window by window, and the block range of a      *)
(* window is halved whenever the node finds it too large, down to a single *)
(* block.  The recursion of binary_get_logs is the queue of ranges it      *)
(* still has to visit, leftmost first.                                     *)
(***************************************************************************)
EXTENDS Integers, Sequences

CONSTANTS LastBlock,    \* bound: the highest block number of a request
          LastWindow    \* bound: windows of addresses in one request

ASSUME BoundsAssumption == LastBlock \in Nat /\ LastWindow \in Nat \ {0}

VARIABLES
  from_block,  \* the range of the request
  to_block,
  window,      \* the window of addresses being read
  ranges,      \* the ranges of the window still to be visited
  chunks,      \* the LogsChunks the callback has got, in order
  status       \* how the call stands

vars == <<from_block, to_block, window, ranges, chunks, status>>

Blocks == 0..LastBlock
Windows == 1..LastWindow
Range == [from : Blocks, to : Blocks]
Chunk == [window : Windows, from : Blocks, to : Blocks]

\* A plausible slip: the middle of two blocks is the second.
MiddleBlockRoundedUp(range) == range.from + (range.to - range.from + 1) \div 2

MiddleBlock(range) == range.from + (range.to - range.from) \div 2

\* A plausible slip: both halves hold the middle block.
HalvesSharingTheMiddle(range) ==
  << [from |-> range.from, to |-> MiddleBlock(range)],
     [from |-> MiddleBlock(range), to |-> range.to] >>

\* A plausible slip: the later half is visited first.
HalvesSwapped(range) ==
  << [from |-> MiddleBlock(range) + 1, to |-> range.to],
     [from |-> range.from, to |-> MiddleBlock(range)] >>

\* A plausible slip: the last block of the range is lost.
HalvesShort(range) ==
  << [from |-> range.from, to |-> MiddleBlock(range)],
     [from |-> MiddleBlock(range) + 1,
      to |-> IF MiddleBlock(range) + 1 < range.to THEN range.to - 1 ELSE range.to] >>

Halves(range) ==
  << [from |-> range.from, to |-> MiddleBlock(range)],
     [from |-> MiddleBlock(range) + 1, to |-> range.to] >>

-----------------------------------------------------------------------------
\* The node answers: the callback gets the logs of the range.
Answer ==
  /\ status = "reading"
  /\ ranges # <<>>
  /\ chunks' = Append(chunks, [window |-> window, from |-> Head(ranges).from,
                               to |-> Head(ranges).to])
  /\ ranges' = Tail(ranges)
  /\ UNCHANGED <<from_block, to_block, window, status>>

\* The range that is too large, or took too long, when it can be split.
CanSplit == Head(ranges).to - Head(ranges).from + 1 > 1

TooManyEvents ==
  /\ status = "reading"
  /\ ranges # <<>>
  /\ CanSplit
  /\ ranges' = Halves(Head(ranges)) \o Tail(ranges)
  /\ UNCHANGED <<from_block, to_block, window, chunks, status>>

CannotSplit ==
  /\ status = "reading"
  /\ ranges # <<>>
  /\ ~CanSplit
  /\ status' = "too many"
  /\ UNCHANGED <<from_block, to_block, window, ranges, chunks>>

\* Any other error, of the node or of the callback.
Fail ==
  /\ status = "reading"
  /\ ranges # <<>>
  /\ status' = "failed"
  /\ UNCHANGED <<from_block, to_block, window, ranges, chunks>>

NextWindow ==
  /\ status = "reading"
  /\ ranges = <<>>
  /\ window < LastWindow
  /\ window' = window + 1
  /\ ranges' = << [from |-> from_block, to |-> to_block] >>
  /\ UNCHANGED <<from_block, to_block, chunks, status>>

Done ==
  /\ status = "reading"
  /\ ranges = <<>>
  /\ window = LastWindow
  /\ status' = "done"
  /\ UNCHANGED <<from_block, to_block, window, ranges, chunks>>

-----------------------------------------------------------------------------
Init ==
  /\ from_block \in Blocks
  /\ to_block \in from_block..LastBlock
  /\ window = 1
  /\ ranges = << [from |-> from_block, to |-> to_block] >>
  /\ chunks = <<>>
  /\ status = "reading"

Next == Answer \/ TooManyEvents \/ CannotSplit \/ Fail \/ NextWindow \/ Done

Spec == Init /\ [][Next]_vars

-----------------------------------------------------------------------------
(* Properties *)

\* Every variable has the shape the program gives it, and no request is ever made
\* for an empty range, as the function's debug_assert demands.
TypeOK ==
  /\ from_block \in Blocks
  /\ to_block \in from_block..LastBlock
  /\ window \in Windows
  /\ ranges \in Seq(Range)
  /\ \A i \in 1..Len(ranges) : ranges[i].from <= ranges[i].to
  /\ chunks \in Seq(Chunk)
  /\ status \in {"reading", "done", "failed", "too many"}

\* The block the window's next chunk must start at, the end of the range passed.
Reached ==
  IF chunks # <<>> /\ chunks[Len(chunks)].window = window THEN chunks[Len(chunks)].to + 1
  ELSE from_block

\* The callback sees the blocks of a window in order, none twice and none left out:
\* the owners' logs are replayed as they happened, wherever the ranges were cut.
ChunksAreContiguous ==
  \A i \in 1..Len(chunks) :
    LET starts == i = 1 \/ chunks[i - 1].window # chunks[i].window
    IN  /\ chunks[i].from = IF starts THEN from_block ELSE chunks[i - 1].to + 1
        /\ starts /\ i # 1 => /\ chunks[i - 1].to = to_block
                              /\ chunks[i].window = chunks[i - 1].window + 1

\* A call that succeeds has read every window to the end of the range.
SuccessIsComplete ==
  status = "done" => /\ chunks # <<>>
                     /\ chunks[Len(chunks)].window = LastWindow
                     /\ chunks[Len(chunks)].to = to_block

\* What is left to do at most: a range of n blocks takes at most 2n - 1 requests.
Work ==
  2 * (to_block + 1 - from_block) * (LastWindow - window) + 2 * (to_block + 1 - Reached)
    - Len(ranges) + (IF status = "reading" THEN 1 ELSE 0)

\* The call ends, however often the node refuses a range: every request brings the end
\* nearer ...
WorkShrinks == [][Work' < Work]_vars

\* ... and there is always one left to make until it has ended.
WorkIsBounded == Work \in Nat
=============================================================================
