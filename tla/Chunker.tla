------------------------------ MODULE Chunker ------------------------------
(***************************************************************************)
(* The two sliding-window chunkers of contexide-chunker-impl, as the loop  *)
(* that both are: windows of spec.window tokens, each spec.overlap tokens  *)
(* into the one before, too short ones dropped. A block is its number of   *)
(* tokens and a piece is its block and span; the texts, the tokenizer and  *)
(* the trimming of the text are left out.                                  *)
(***************************************************************************)
EXTENDS Integers

CONSTANTS
  ChunkSpecs,  \* the specifications to consider, valid or not
  Lengths,     \* the lengths of blocks
  BlockCount   \* how many blocks there are

ASSUME ChunkSpecsAssumption ==
  ChunkSpecs \subseteq [window : Nat, overlap : Nat, min : Nat]
ASSUME LengthsAssumption == Lengths \subseteq Nat
ASSUME BlockCountAssumption == BlockCount \in Nat

VARIABLES
  spec,     \* the chunk specification
  impl,     \* which of the two chunkers runs
  tokens,   \* tokens[b]: the number of tokens of block b
  status,   \* "validate", "chunking", "done", or "panic": the spec is invalid
  block,    \* the block being chunked
  start,    \* where its next window starts
  emitted,  \* how many pieces it has yielded
  out       \* the pieces, [block, from, upto], listed by block and position

vars == <<spec, impl, tokens, status, block, start, emitted, out>>

Blocks == 1..BlockCount

Piece == [block : Blocks, from : Nat, upto : Nat]

\* ChunkSpec::validate.
Valid(s) ==
  /\ s.window > 0
  /\ s.overlap < s.window
  /\ s.min > 0 /\ s.min <= s.window

Validate ==
  /\ status = "validate"
  /\ status' = IF Valid(spec) THEN "chunking" ELSE "panic"
  /\ UNCHANGED <<spec, impl, tokens, block, start, emitted, out>>

\* The end of the window.
Upto == IF start + spec.window < tokens[block] THEN start + spec.window ELSE tokens[block]

\* Mutation of Keep: a window of the least length is dropped.
KeepLonger ==
  \/ Upto - start > spec.min
  \/ impl = "sliding_window" /\ emitted = 0 /\ Upto = tokens[block]
  \/ impl = "text" /\ start = 0 /\ Upto = tokens[block]

\* Long enough, or the whole block: each chunker has its own way to tell.
Keep ==
  \/ Upto - start >= spec.min
  \/ impl = "sliding_window" /\ emitted = 0 /\ Upto = tokens[block]
  \/ impl = "text" /\ start = 0 /\ Upto = tokens[block]

\* The end of the block ends its loop.
Advance ==
  IF Upto = tokens[block]
  THEN block' = block + 1 /\ start' = 0
  ELSE block' = block /\ start' = start + (spec.window - spec.overlap)

SkipEmpty ==
  /\ status = "chunking" /\ block \in Blocks
  /\ tokens[block] = 0
  /\ block' = block + 1
  /\ UNCHANGED <<spec, impl, tokens, status, start, emitted, out>>

Emit ==
  /\ status = "chunking" /\ block \in Blocks
  /\ start < tokens[block]
  /\ Keep
  /\ out' = out \cup {[block |-> block, from |-> start, upto |-> Upto]}
  /\ Advance
  /\ emitted' = IF block' = block THEN emitted + 1 ELSE 0
  /\ UNCHANGED <<spec, impl, tokens, status>>

Drop ==
  /\ status = "chunking" /\ block \in Blocks
  /\ start < tokens[block]
  /\ ~Keep
  /\ Advance
  /\ emitted' = IF block' = block THEN emitted ELSE 0
  /\ UNCHANGED <<spec, impl, tokens, status, out>>

Return ==
  /\ status = "chunking" /\ block = BlockCount + 1
  /\ status' = "done"
  /\ UNCHANGED <<spec, impl, tokens, block, start, emitted, out>>

Init ==
  /\ spec \in ChunkSpecs
  /\ impl \in {"sliding_window", "text"}
  /\ tokens \in [Blocks -> Lengths]
  /\ status = "validate"
  /\ block = 1
  /\ start = 0
  /\ emitted = 0
  /\ out = {}

Next == Validate \/ SkipEmpty \/ Emit \/ Drop \/ Return

Spec == Init /\ [][Next]_vars

-----------------------------------------------------------------------------

TypeOK ==
  /\ spec \in ChunkSpecs
  /\ impl \in {"sliding_window", "text"}
  /\ tokens \in [Blocks -> Nat]
  /\ status \in {"validate", "chunking", "done", "panic"}
  /\ block \in 1..(BlockCount + 1)
  /\ start \in Nat
  /\ emitted \in Nat
  /\ out \in SUBSET Piece

Covered(b, t) == \E p \in out : p.block = b /\ p.from <= t /\ t < p.upto

\* Only a tail shorter than the least length is dropped, and of that only what
\* the window before it does not hold: fewer than min - overlap tokens.
LostAtMost(b) == \A t \in 0..(tokens[b] - 1) : Covered(b, t) \/ tokens[b] - t < spec.min - spec.overlap

\* A piece that does not start its block overlaps a piece before it by exactly
\* the overlap asked for.
Overlapping(p) ==
  p.from = 0 \/ \E r \in out : r.block = p.block /\ r.upto = p.from + spec.overlap /\ r.from < p.from

\* No block loses more than that, whatever the specification and whichever
\* chunker; a block with tokens yields a piece; pieces hold a window at most and
\* overlap as specified, so that text across a boundary is whole in one of them.
ChunksCoverBlocks ==
  /\ \A b \in Blocks : b < block /\ tokens[b] > 0 =>
       /\ LostAtMost(b)
       /\ \E p \in out : p.block = b /\ p.from = 0
  /\ \A p \in out :
       /\ p.from < p.upto /\ p.upto - p.from <= spec.window /\ p.upto <= tokens[p.block]
       /\ Overlapping(p)
=============================================================================
