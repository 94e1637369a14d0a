----------------------------- MODULE RulesProofs -----------------------------
(***************************************************************************)
(* Proofs about the rules that MCRules puts side by side. The chunker, by  *)
(* itself, for every set of specifications, any number of blocks and       *)
(* blocks of any length. In the behaviours of MCRules: the retry rules,    *)
(* for any rows and defaults that are natural numbers; the topological     *)
(* sort and the profiles, for any nodes, edges and assets; and the         *)
(* configuration, for any values of the variables.                         *)
(***************************************************************************)
EXTENDS MCRules, Sequences, FiniteSetTheorems, WellFoundedInduction, TLAPS

-----------------------------------------------------------------------------
(* The chunker.                                                            *)

\* A token of the block at work before the next window is in a piece, and so are
\* those of that window that the last piece reaches into.
Reached ==
  start > 0 =>
    /\ emitted > 0
    /\ \E p \in out : p.block = block /\ p.from = 0
    /\ \E p \in out : p.block = block /\ p.upto = start + spec.overlap /\ p.from < start
    /\ \A t \in 0..(start + spec.overlap - 1) : Covered(block, t)

\* Covered and Overlapping of given pieces: of those there are before a step, or after it.
CoveredBy(pieces, k, t) == \E p \in pieces : p.block = k /\ p.from <= t /\ t < p.upto

OverlapsIn(pieces, p) ==
  p.from = 0 \/ \E r \in pieces : r.block = p.block /\ r.upto = p.from + spec.overlap /\ r.from < p.from

\* Where the loop is in the block at work.
Position ==
  /\ emitted > 0 => start > 0
  /\ start > 0 => block \in Blocks /\ start + spec.overlap < tokens[block]
  /\ \A p \in out : p.block < block \/ (p.block = block /\ start > 0)

IInv ==
  /\ TypeOK
  /\ status \in {"chunking", "done"} => Valid(spec)
  /\ status \in {"validate", "panic"} => block = 1 /\ start = 0 /\ out = {}
  /\ Position
  /\ Reached
  /\ ChunksCoverBlocks

LEMMA Constants == /\ BlockCount \in Nat /\ Lengths \subseteq Nat
                   /\ ChunkSpecs \subseteq [window : Nat, overlap : Nat, min : Nat]
  BY BlockCountAssumption, LengthsAssumption, ChunkSpecsAssumption

LEMMA InitIInv == Init => IInv
<1> SUFFICES ASSUME Init PROVE IInv
  OBVIOUS
<1>1. tokens \in [Blocks -> Nat]
  BY Constants DEF Init
<1>2. TypeOK
  BY <1>1, Constants DEF Init, TypeOK
<1>3. Position /\ Reached
  BY DEF Init, Position, Reached
<1>4. ChunksCoverBlocks
  BY Constants DEF Init, ChunksCoverBlocks, Blocks
<1> QED
  BY <1>2, <1>3, <1>4 DEF Init, IInv

\* The numbers the loop works with.
LEMMA Numbers ==
  ASSUME IInv, status = "chunking"
  PROVE  /\ spec.window \in Nat /\ spec.overlap \in Nat /\ spec.min \in Nat
         /\ spec.window > 0 /\ spec.overlap < spec.window
         /\ spec.min > 0 /\ spec.min <= spec.window
         /\ start \in Nat /\ emitted \in Nat /\ block \in Nat
         /\ \A k \in Blocks : tokens[k] \in Nat
  BY Constants DEF IInv, TypeOK, Valid, Blocks

\* The window at work ends at the end of the block, or is a whole one.
LEMMA Window ==
  ASSUME IInv, status = "chunking", block \in Blocks, start < tokens[block]
  PROVE  /\ Upto \in Nat /\ start < Upto /\ Upto <= tokens[block]
         /\ Upto - start <= spec.window
         /\ Upto # tokens[block] => Upto = start + spec.window /\ Keep
         /\ ~Keep => Upto = tokens[block] /\ start > 0 /\ Upto - start < spec.min
<1>1. tokens[block] \in Nat
  BY Numbers
<1>2. /\ Upto \in Nat /\ start < Upto /\ Upto <= tokens[block]
      /\ Upto - start <= spec.window
      /\ Upto # tokens[block] => Upto = start + spec.window
  BY <1>1, Numbers DEF Upto
<1>3. Upto = start + spec.window => Keep
  BY <1>2, Numbers DEF Keep
<1>4. ~Keep => Upto = tokens[block] /\ Upto - start < spec.min
  BY <1>2, <1>3, Numbers DEF Keep
<1>5. ~Keep => start > 0
  BY <1>4, Numbers DEF Keep, IInv, TypeOK, Position
<1> QED
  BY <1>2, <1>3, <1>4, <1>5

\* Pieces are only added, so what is covered stays covered.
LEMMA StaysCovered ==
  ASSUME out \subseteq out', NEW k, NEW t, Covered(k, t) PROVE Covered(k, t)'
  BY DEF Covered

\* A step that leaves the specification and the blocks alone keeps what holds of
\* the blocks that are through and of the pieces there are.
LEMMA BlocksKept ==
  ASSUME ChunksCoverBlocks, out \subseteq out', UNCHANGED <<spec, tokens>>
  PROVE  /\ \A k \in Blocks : k < block /\ tokens[k] > 0 =>
              LostAtMost(k)' /\ \E p \in out' : p.block = k /\ p.from = 0
         /\ \A p \in out :
              /\ p.from < p.upto /\ p.upto - p.from <= spec.window /\ p.upto <= tokens[p.block]
              /\ Overlapping(p)'
<1>1. \A k \in Blocks : k < block /\ tokens[k] > 0 => LostAtMost(k)'
  BY StaysCovered DEF ChunksCoverBlocks, LostAtMost
<1>2. \A p \in out : Overlapping(p)'
  BY DEF ChunksCoverBlocks, Overlapping
<1> QED
  BY <1>1, <1>2 DEF ChunksCoverBlocks

\* A kept window covers its block up to its end, and overlaps as specified.
LEMMA EmitCovers ==
  ASSUME IInv, Emit, NEW piece, piece = [block |-> block, from |-> start, upto |-> Upto]
  PROVE  /\ out' = out \cup {piece} /\ piece \in Piece
         /\ OverlapsIn(out', piece)
         /\ \A t \in 0..(Upto - 1) : CoveredBy(out', block, t)
         /\ \E p \in out' : p.block = block /\ p.from = 0
<1>1. /\ status = "chunking" /\ block \in Blocks /\ start < tokens[block]
      /\ out' = out \cup {piece} /\ UNCHANGED <<spec, tokens>>
  BY DEF Emit
<1>2. Upto \in Nat /\ start < Upto
  BY <1>1, Window
<1>3. piece.block = block /\ piece.from = start /\ piece.upto = Upto /\ piece \in Piece
  BY <1>1, <1>2, Numbers DEF Piece
<1>4. OverlapsIn(out', piece)
  <2>1. CASE start = 0
    BY <1>3, <2>1 DEF OverlapsIn
  <2>2. CASE start > 0
    <3>1. PICK p \in out : p.block = block /\ p.upto = start + spec.overlap /\ p.from < start
      BY <2>2 DEF IInv, Reached
    <3> QED
      BY <1>1, <1>3, <3>1 DEF OverlapsIn
  <2> QED
    BY <1>1, <2>1, <2>2, Numbers
<1>5. ASSUME NEW t \in 0..(Upto - 1) PROVE CoveredBy(out', block, t)
  <2>1. CASE start <= t
    BY <1>1, <1>2, <1>3, <2>1 DEF CoveredBy
  <2>2. CASE t < start
    <3>1. t \in 0..(start + spec.overlap - 1) /\ start > 0
      BY <1>1, <1>2, <2>2, Numbers
    <3>2. Covered(block, t)
      BY <3>1 DEF IInv, Reached
    <3> QED
      BY <1>1, <3>2 DEF Covered, CoveredBy
  <2> QED
    BY <1>1, <1>2, <2>1, <2>2, Numbers
<1>6. \E p \in out' : p.block = block /\ p.from = 0
  <2>1. CASE start = 0
    BY <1>1, <1>3, <2>1
  <2>2. CASE start > 0
    <3>1. PICK p \in out : p.block = block /\ p.from = 0
      BY <2>2 DEF IInv, Reached
    <3> QED
      BY <1>1, <3>1
  <2> QED
    BY <1>1, <2>1, <2>2, Numbers
<1> QED
  BY <1>1, <1>3, <1>4, <1>5, <1>6

LEMMA EmitInv == ASSUME IInv, Emit PROVE IInv'
<1> DEFINE n == tokens[block]
<1>0. PICK piece : piece = [block |-> block, from |-> start, upto |-> Upto]
  OBVIOUS
<1>1. /\ status = "chunking" /\ block \in Blocks /\ start < n
      /\ UNCHANGED <<spec, impl, tokens, status>>
  BY DEF Emit
<1>2. /\ n \in Nat /\ Upto \in Nat /\ start < Upto /\ Upto <= n /\ Upto - start <= spec.window
      /\ Upto # n => Upto = start + spec.window
  BY <1>1, Window, Numbers
<1>3. /\ out' = out \cup {piece} /\ piece \in Piece
      /\ piece.block = block /\ piece.from = start /\ piece.upto = Upto
      /\ OverlapsIn(out', piece)
      /\ \A t \in 0..(Upto - 1) : CoveredBy(out', block, t)
      /\ \E p \in out' : p.block = block /\ p.from = 0
  BY <1>0, EmitCovers
<1>4. \A p \in out' : /\ p.from < p.upto /\ p.upto - p.from <= spec.window /\ p.upto <= tokens[p.block]
                      /\ Overlapping(p)'
  <2>1. ASSUME NEW p \in out
        PROVE  /\ p.from < p.upto /\ p.upto - p.from <= spec.window /\ p.upto <= tokens[p.block]
               /\ Overlapping(p)'
    BY <1>1, <1>3, BlocksKept DEF IInv
  <2>2. ASSUME NEW p, p = piece PROVE Overlapping(p)'
    BY <1>1, <1>3, <2>2 DEF Overlapping, OverlapsIn
  <2> QED
    BY <1>1, <1>2, <1>3, <2>1, <2>2
<1>5. \A k \in Blocks : k < block /\ tokens[k] > 0 =>
         LostAtMost(k)' /\ \E p \in out' : p.block = k /\ p.from = 0
  BY <1>1, <1>3, BlocksKept DEF IInv
<1>6. out' \in SUBSET Piece
  BY <1>3 DEF IInv, TypeOK
<1>7. CASE Upto = n
  <2>1. block' = block + 1 /\ start' = 0
    BY <1>7 DEF Emit, Advance
  <2>2. emitted' = 0
    BY <1>1, <2>1, Numbers DEF Emit
  <2>3. ASSUME NEW k \in Blocks, k = block PROVE LostAtMost(k)'
    BY <1>1, <1>2, <1>3, <1>7, <2>3 DEF LostAtMost, Covered, CoveredBy
  <2>4. TypeOK'
    BY <1>1, <1>6, <2>1, <2>2, Constants DEF IInv, TypeOK, Blocks
  <2>5. Position'
    <3>1. ASSUME NEW p \in out' PROVE p.block < block'
      <4>1. CASE p \in out
        BY <1>1, <2>1, <4>1, Numbers DEF IInv, Position, TypeOK, Piece, Blocks
      <4>2. CASE p = piece
        BY <1>1, <1>3, <2>1, <4>2, Numbers
      <4> QED
        BY <1>3, <4>1, <4>2
    <3> QED
      BY <2>1, <2>2, <3>1 DEF Position
  <2>6. Reached'
    BY <2>1 DEF Reached
  <2>7. ASSUME NEW k \in Blocks, k < block', tokens'[k] > 0
        PROVE  LostAtMost(k)' /\ \E p \in out' : p.block = k /\ p.from = 0
    <3>1. CASE k < block
      BY <1>1, <1>5, <2>7, <3>1
    <3>2. CASE k = block
      BY <1>3, <2>3, <3>2
    <3> QED
      BY <2>1, <2>7, <3>1, <3>2, Numbers, Constants, <1>1 DEF Blocks
  <2>8. ChunksCoverBlocks'
    BY <1>1, <1>4, <2>7 DEF ChunksCoverBlocks
  <2> QED
    BY <1>1, <2>4, <2>5, <2>6, <2>8 DEF IInv
<1>8. CASE Upto # n
  <2>1. block' = block /\ start' = start + (spec.window - spec.overlap)
    BY <1>8 DEF Emit, Advance
  <2>2. emitted' = emitted + 1
    BY <2>1 DEF Emit
  <2>3. start' \in Nat /\ start < start' /\ start' + spec.overlap = Upto /\ Upto < n
    BY <1>1, <1>2, <1>8, <2>1, Numbers
  <2>4. TypeOK'
    BY <1>1, <1>6, <2>1, <2>2, <2>3 DEF IInv, TypeOK
  <2>5. Position'
    <3>1. ASSUME NEW p \in out' PROVE p.block < block \/ p.block = block
      BY <1>3 DEF IInv, Position
    <3>2. start' > 0
      BY <1>1, <2>3, Numbers
    <3> QED
      BY <1>1, <2>1, <2>3, <3>1, <3>2 DEF Position
  <2>6. \E p \in out' : p.block = block /\ p.upto = start' + spec.overlap /\ p.from < start'
    BY <1>3, <2>3
  <2>7. Reached'
    <3>1. emitted' > 0
      BY <1>1, <2>2, Numbers
    <3>2. \A t \in 0..(start' + spec.overlap - 1) : Covered(block, t)'
      <4> HIDE DEF n
      <4>1. start' + spec.overlap - 1 = Upto - 1
        BY <1>1, <1>2, <2>3, Numbers
      <4>2. \A t \in 0..(start' + spec.overlap - 1) : CoveredBy(out', block, t)
        BY <1>3, <4>1
      <4> QED
        BY <2>1, <4>2 DEF Covered, CoveredBy
    <3> QED
      BY <1>1, <1>3, <2>1, <2>6, <3>1, <3>2 DEF Reached
  <2>8. ChunksCoverBlocks'
    BY <1>1, <1>4, <1>5, <2>1 DEF ChunksCoverBlocks
  <2> QED
    BY <1>1, <2>4, <2>5, <2>7, <2>8 DEF IInv
<1> QED
  BY <1>7, <1>8

\* A block ends without another piece when it is empty, or when what the pieces
\* do not reach is too short.
LEMMA NextBlock ==
  ASSUME IInv, status = "chunking", block \in Blocks,
         tokens[block] > 0 => start > 0 /\ tokens[block] - start < spec.min,
         block' = block + 1, start' = 0, emitted' = 0,
         UNCHANGED <<spec, impl, tokens, status, out>>
  PROVE  IInv'
<1>1. TypeOK'
  BY Constants DEF IInv, TypeOK, Blocks
<1>2. Position' /\ Reached'
  <2>1. ASSUME NEW p \in out PROVE p.block < block'
    BY <2>1, Numbers DEF IInv, Position, TypeOK, Piece, Blocks
  <2> QED
    BY <2>1 DEF Position, Reached
<1>3. ASSUME tokens[block] > 0
      PROVE  LostAtMost(block) /\ \E p \in out : p.block = block /\ p.from = 0
  <2>1. \A t \in 0..(start + spec.overlap - 1) : Covered(block, t)
    BY <1>3 DEF IInv, Reached
  <2>2. ASSUME NEW t \in 0..(tokens[block] - 1)
        PROVE  t \in 0..(start + spec.overlap - 1) \/ tokens[block] - t < spec.min - spec.overlap
    <3>1. tokens[block] \in Nat /\ t \in Nat /\ tokens[block] - start < spec.min
      BY <1>3, Numbers
    <3> QED
      BY <3>1, Numbers
  <2> QED
    BY <1>3, <2>1, <2>2 DEF LostAtMost, IInv, Reached
<1>4. ASSUME NEW k \in Blocks, k < block', tokens'[k] > 0
      PROVE  LostAtMost(k)' /\ \E p \in out' : p.block = k /\ p.from = 0
  <2>1. CASE k < block
    BY <1>4, <2>1, BlocksKept DEF IInv
  <2>2. CASE k = block
    BY <1>3, <1>4, <2>2 DEF LostAtMost, Covered
  <2> QED
    BY <1>4, <2>1, <2>2, Numbers, Constants DEF Blocks
<1>5. ChunksCoverBlocks'
  BY <1>4, BlocksKept DEF IInv, ChunksCoverBlocks
<1> QED
  BY <1>1, <1>2, <1>5 DEF IInv

LEMMA SkipEmptyInv == ASSUME IInv, SkipEmpty PROVE IInv'
<1>1. start = 0 /\ emitted = 0
  BY Numbers DEF SkipEmpty, IInv, Position, TypeOK
<1> QED
  BY <1>1, NextBlock DEF SkipEmpty

LEMMA DropInv == ASSUME IInv, Drop PROVE IInv'
<1>1. /\ status = "chunking" /\ block \in Blocks /\ start < tokens[block] /\ ~Keep /\ Advance
      /\ UNCHANGED <<spec, impl, tokens, status, out>>
  BY DEF Drop
<1>2. Upto = tokens[block] /\ start > 0 /\ tokens[block] - start < spec.min
  BY <1>1, Window
<1>3. block' = block + 1 /\ start' = 0
  BY <1>1, <1>2 DEF Advance
<1>4. emitted' = 0
  BY <1>1, <1>3, Numbers DEF Drop
<1> QED
  BY <1>1, <1>2, <1>3, <1>4, NextBlock

\* Steps that only change the status.
LEMMA StatusInv == ASSUME IInv, Validate \/ Return \/ UNCHANGED vars PROVE IInv'
<1>1. UNCHANGED <<spec, impl, tokens, block, start, emitted, out>>
  BY DEF Validate, Return, vars
<1>2. TypeOK'
  BY <1>1 DEF IInv, TypeOK, Validate, Return, vars
<1>3. Position' /\ Reached'
  BY <1>1 DEF IInv, Position, Reached, Covered
<1>4. ChunksCoverBlocks'
  BY <1>1 DEF IInv, ChunksCoverBlocks, LostAtMost, Covered, Overlapping
<1>5. status' \in {"chunking", "done"} => Valid(spec)
  BY DEF IInv, Validate, Return, vars
<1>6. status' \in {"validate", "panic"} => block = 1 /\ start = 0 /\ out = {}
  BY DEF IInv, Validate, Return, vars
<1> QED
  BY <1>1, <1>2, <1>3, <1>4, <1>5, <1>6 DEF IInv, Valid

\* The invariant of the window loop: what is covered, and where the last piece ends.
THEOREM Invariance == Spec => []IInv
<1>1. IInv /\ [Next]_vars => IInv'
  BY EmitInv, SkipEmptyInv, DropInv, StatusInv DEF Next
<1> QED
  BY <1>1, InitIInv, PTL DEF Spec

\* Every variable holds a value of its kind.
THEOREM TypeCorrect == Spec => []TypeOK
<1>1. IInv => TypeOK
  BY DEF IInv
<1> QED
  BY <1>1, Invariance, PTL

\* Neither chunker loses more of a block than a tail too short to be a piece of its
\* own, and its pieces overlap as specified, whatever the specification and the
\* lengths of the blocks.
THEOREM ChunksAlwaysCover == Spec => []ChunksCoverBlocks
<1>1. IInv => ChunksCoverBlocks
  BY DEF IInv
<1> QED
  BY <1>1, Invariance, PTL

-----------------------------------------------------------------------------
(* The retry rules.                                                        *)

Kinds    == {"never", "fixed", "exponential", "infinite_exponential"}
Backoffs == {"exponential", "infinite_exponential"}

RetryTypes ==
  /\ row \in [retry_policy : R!Names, max_attempts : Limits, base : Bases, max : Maxima]
  /\ defaults \in Defaults
  /\ first \in FirstNumbers /\ first \in {0, 1} /\ runs \in Nat \ {0}
  /\ delays \in Seq(Nat)
  /\ fate \in {"running", "waiting", "done", "failed"}

\* Every retry has waited, and as long as the rules have it for the attempt before.
DelaysKnown ==
  /\ Len(delays) = IF fate = "waiting" THEN runs ELSE runs - 1
  /\ \A i \in DOMAIN delays : delays[i] = R!DelayAfter(first + i - 1)

\* The limit bounds the numbers of the attempts, from which the rules decide.
NumbersBounded ==
  /\ R!Limited => runs = 1 \/ first + runs - 1 <= R!Policy.limit
  /\ R!Limited /\ fate = "waiting" => first + runs - 1 < R!Policy.limit
  /\ R!Policy.kind = "never" => runs = 1 /\ fate # "waiting"

RetryInv == RetryTypes /\ DelaysKnown /\ NumbersBounded

Power(n) == 2 ^ n

LEMMA Powers ==
  /\ Power(0) = 1
  /\ \A n \in 0..16 : Power(n) \in Nat /\ Power(n) >= 1
  /\ \A n \in 0..15 : Power(n + 1) = 2 * Power(n)
<1>1. /\ Power(0) = 1 /\ Power(1) = 2 /\ Power(2) = 4 /\ Power(3) = 8 /\ Power(4) = 16
      /\ Power(5) = 32 /\ Power(6) = 64 /\ Power(7) = 128 /\ Power(8) = 256 /\ Power(9) = 512
      /\ Power(10) = 1024 /\ Power(11) = 2048 /\ Power(12) = 4096 /\ Power(13) = 8192
      /\ Power(14) = 16384 /\ Power(15) = 32768 /\ Power(16) = 65536
  BY DEF Power
<1>2. \A n \in 0..16 : n \in {0, 1, 2, 3, 4, 5, 6, 7, 8, 9, 10, 11, 12, 13, 14, 15, 16}
  OBVIOUS
<1>3. \A n \in 0..16 : Power(n) \in Nat /\ Power(n) >= 1
  BY <1>1, <1>2
<1>4. \A n \in 0..15 : Power(n + 1) = 2 * Power(n)
  BY <1>1, <1>2
<1> QED
  BY <1>1, <1>3, <1>4

LEMMA PolicyTypes ==
  ASSUME RetryTypes
  PROVE  /\ R!Policy.kind \in Kinds
         /\ R!Limited => R!Policy.limit \in Nat
         /\ R!Policy.kind # "never" => R!Policy.base \in Nat
         /\ R!Policy.kind \in Backoffs => R!Policy.max \in Nat
<1> DEFINE limit == IF row.max_attempts = Unset THEN defaults.max_attempts ELSE R!AsU32(row.max_attempts)
<1>1. limit \in Nat
  <2>1. row.max_attempts \in Int \cup {Unset} /\ defaults.max_attempts \in Nat /\ MaxRuns \in Nat
    BY RetryAssumption DEF RetryTypes
  <2> QED
    BY <2>1 DEF R!AsU32, R!Beyond
<1>2. /\ \A d \in Nat : R!OrElse(row.base, d) \in Nat
      /\ \A d \in Nat : R!OrElse(row.max, d) \in Nat
  BY RetryAssumption DEF RetryTypes, R!OrElse
<1>3. R!Policy = CASE row.retry_policy = "never" -> [kind |-> "never"]
    [] row.retry_policy = "fixed" ->
         [kind |-> "fixed", limit |-> limit, base |-> R!OrElse(row.base, 30000)]
    [] row.retry_policy = "exponential" ->
         [kind |-> "exponential", limit |-> limit,
          base |-> R!OrElse(row.base, 1000), max |-> R!OrElse(row.max, 600000)]
    [] row.retry_policy = "infinite_exponential" ->
         [kind |-> "infinite_exponential",
          base |-> R!OrElse(row.base, 1000), max |-> R!OrElse(row.max, 600000)]
    [] OTHER -> defaults.policy
  BY DEF R!Policy
<1> HIDE DEF limit
<1>4. CASE row.retry_policy \in Kinds
  BY <1>1, <1>2, <1>3, <1>4 DEF Kinds, Backoffs, R!Limited
<1>5. CASE row.retry_policy \notin Kinds
  <2>1. R!Policy = defaults.policy
    BY <1>3, <1>5 DEF Kinds
  <2>2. defaults \in Defaults
    BY DEF RetryTypes
  <2> QED
    BY <2>1, <2>2, RetryAssumption DEF Kinds, Backoffs, R!Limited
<1> QED
  BY <1>4, <1>5

LEMMA Multiples == ASSUME NEW x \in Nat, NEW y \in Nat, y >= 1 PROVE x <= x * y
  OBVIOUS

\* The exponent of a backoff.
Exponent(no) == R!Min2(IF no > 0 THEN no - 1 ELSE 0, 16)

LEMMA BackoffBounds ==
  ASSUME RetryTypes, R!Policy.kind \in Backoffs, NEW no \in Nat
  PROVE  /\ R!Backoff(no) \in Nat /\ R!Backoff(no) <= R!Policy.max
         /\ R!Min2(R!Policy.base, R!Policy.max) <= R!Backoff(no)
         /\ R!Backoff(no) <= R!Backoff(no + 1) /\ R!Backoff(no + 1) <= 2 * R!Backoff(no)
<1>1. R!Policy.base \in Nat /\ R!Policy.max \in Nat
  BY PolicyTypes DEF Backoffs
<1>2. /\ Exponent(no) \in 0..16
      /\ \/ Exponent(no + 1) = Exponent(no)
         \/ Exponent(no) \in 0..15 /\ Exponent(no + 1) = Exponent(no) + 1
  <2>1. /\ Exponent(no) = IF no = 0 THEN 0 ELSE IF no - 1 < 16 THEN no - 1 ELSE 16
        /\ Exponent(no + 1) = IF no < 16 THEN no ELSE 16
    BY DEF Exponent, R!Min2
  <2> QED
    BY <2>1
<1>3. /\ R!Backoff(no) = R!Min2(R!Policy.max, R!Policy.base * Power(Exponent(no)))
      /\ R!Backoff(no + 1) = R!Min2(R!Policy.max, R!Policy.base * Power(Exponent(no + 1)))
  BY DEF R!Backoff, Exponent, Power
<1> DEFINE p == Power(Exponent(no))  base == R!Policy.base  top == R!Policy.max
<1>4. p \in Nat
  BY <1>2, Powers
<1>5. Power(Exponent(no + 1)) \in {p, 2 * p}
  BY <1>2, Powers
<1>6. base * p \in Nat /\ base * Power(Exponent(no + 1)) \in {base * p, 2 * (base * p)}
  <2>1. ASSUME NEW x \in Nat, NEW y \in Nat PROVE x * y \in Nat /\ x * (2 * y) = 2 * (x * y)
    OBVIOUS
  <2> HIDE DEF p, base
  <2> QED
    BY <1>1, <1>4, <1>5, <2>1 DEF base
<1>7. base <= base * p
  <2>1. p >= 1
    BY <1>2, Powers
  <2> HIDE DEF p, base
  <2> QED
    BY <1>1, <1>4, <2>1, Multiples DEF base
<1> HIDE DEF p
<1> QED
  BY <1>1, <1>3, <1>6, <1>7 DEF R!Min2, p

\* The policy of a task does not change.
LEMMA PolicyStays ==
  ASSUME UNCHANGED <<row, defaults, first>>
  PROVE  /\ R!Policy' = R!Policy /\ (R!Limited' <=> R!Limited)
         /\ \A no : R!DelayAfter(no)' = R!DelayAfter(no)
  BY DEF R!Policy, R!Limited, R!DelayAfter, R!Backoff

LEMMA InitRetry == R!Init => RetryInv
<1> SUFFICES ASSUME R!Init PROVE RetryInv
  OBVIOUS
<1>1. RetryTypes /\ DelaysKnown
  BY RetryAssumption DEF R!Init, RetryTypes, DelaysKnown
<1>2. NumbersBounded
  BY <1>1, PolicyTypes DEF R!Init, NumbersBounded, RetryTypes
<1> QED
  BY <1>1, <1>2 DEF RetryInv

LEMMA StepRetry == ASSUME RetryInv, [R!Next]_(R!vars) PROVE RetryInv'
<1> USE DEF RetryInv
<1>0. RetryTypes /\ DelaysKnown /\ NumbersBounded
  OBVIOUS
<1>1. ASSUME UNCHANGED <<row, defaults, first, runs, delays>>, fate = "running",
             fate' \in {"done", "failed"}
      PROVE  RetryInv'
  <2>1. RetryTypes'
    BY <1>0, <1>1 DEF RetryTypes
  <2>2. DelaysKnown'
    BY <1>0, <1>1, PolicyStays DEF DelaysKnown
  <2>3. NumbersBounded'
    BY <1>0, <1>1, PolicyStays DEF NumbersBounded
  <2> QED
    BY <2>1, <2>2, <2>3
<1>2. CASE fate = "running" /\ \E transient \in BOOLEAN :
             R!Retries(R!AttemptNo, transient) /\ R!AttemptFails(transient)
  <2>1. /\ UNCHANGED <<row, defaults, first, runs>> /\ fate' = "waiting"
        /\ delays' = Append(delays, R!DelayAfter(R!AttemptNo))
        /\ R!Policy.kind # "never" /\ (R!Limited => R!AttemptNo < R!Policy.limit)
    BY <1>2 DEF R!AttemptFails, R!Retries
  <2>2. R!AttemptNo \in Nat /\ R!AttemptNo = first + runs - 1
    BY <1>0 DEF RetryTypes, R!AttemptNo
  <2>3. R!DelayAfter(R!AttemptNo) \in Nat
    BY <1>0, <2>1, <2>2, PolicyTypes, BackoffBounds DEF R!DelayAfter, Kinds, Backoffs
  <2>4. RetryTypes'
    BY <1>0, <2>1, <2>3 DEF RetryTypes
  <2>5. DelaysKnown'
    <3>1. Len(delays) = runs - 1 /\ Len(delays') = runs /\ delays'[runs] = R!DelayAfter(first + runs - 1)
      BY <1>0, <1>2, <2>1, <2>2 DEF DelaysKnown, RetryTypes
    <3>2. \A i \in 1..(runs - 1) : delays'[i] = delays[i] /\ delays[i] = R!DelayAfter(first + i - 1)
      BY <1>0, <2>1, <3>1 DEF DelaysKnown, RetryTypes
    <3>3. DOMAIN delays' = 1..runs
      BY <2>4, <3>1 DEF RetryTypes
    <3>4. ASSUME NEW i \in 1..runs PROVE delays'[i] = R!DelayAfter(first + i - 1)
      <4>1. i = runs \/ i \in 1..(runs - 1)
        BY <1>0 DEF RetryTypes
      <4> QED
        BY <3>1, <3>2, <4>1
    <3> QED
      BY <2>1, <3>1, <3>3, <3>4, PolicyStays DEF DelaysKnown
  <2>6. NumbersBounded'
    BY <1>0, <2>1, <2>2, PolicyStays, PolicyTypes DEF NumbersBounded, RetryTypes
  <2> QED
    BY <2>4, <2>5, <2>6
<1>3. CASE R!NextAttempt
  <2>1. /\ UNCHANGED <<row, defaults, first, delays>> /\ fate = "waiting" /\ fate' = "running"
        /\ runs' = runs + 1
    BY <1>3 DEF R!NextAttempt
  <2>2. RetryTypes'
    BY <1>0, <2>1 DEF RetryTypes
  <2>3. DelaysKnown'
    BY <1>0, <2>1, PolicyStays DEF DelaysKnown, RetryTypes
  <2>4. NumbersBounded'
    BY <1>0, <2>1, PolicyStays, PolicyTypes DEF NumbersBounded, RetryTypes
  <2> QED
    BY <2>2, <2>3, <2>4
<1>4. CASE UNCHANGED R!vars
  BY <1>0, <1>4, PolicyStays DEF R!vars, RetryTypes, DelaysKnown, NumbersBounded
<1>5. ASSUME NEW transient \in BOOLEAN, R!AttemptFails(transient) PROVE RetryInv'
  <2>1. CASE R!Retries(R!AttemptNo, transient)
    BY <1>2, <1>5, <2>1 DEF R!AttemptFails
  <2>2. CASE ~R!Retries(R!AttemptNo, transient)
    BY <1>1, <1>5, <2>2 DEF R!AttemptFails
  <2> QED
    BY <2>1, <2>2
<1>6. CASE R!AttemptSucceeds
  BY <1>1, <1>6 DEF R!AttemptSucceeds
<1> QED
  BY <1>3, <1>4, <1>5, <1>6 DEF R!Next

\* The attempts and delays of a task are those that its policy has for them.
THEOREM RetryInvariance == RulesSpec => []RetryInv
<1>1. RulesInit => RetryInv
  BY InitRetry DEF RulesInit
<1>2. [RulesNext]_<<part, vars, graphVars, retryVars, configVars>> => [R!Next]_(R!vars)
  BY DEF RulesNext, retryVars, R!vars
<1>3. RetryInv /\ [R!Next]_(R!vars) => RetryInv'
  BY StepRetry
<1> QED
  BY <1>1, <1>2, <1>3, PTL DEF RulesSpec

\* Whatever limits and defaults are stored, a task has no more attempts than its policy
\* allows, if its attempts are numbered from 1.
THEOREM RetriesAlwaysBounded ==
  ASSUME FirstNumbers = {1}
  PROVE  RulesSpec => []RetriesBounded
<1>1. RetryInv => RetriesBounded
  <2> SUFFICES ASSUME RetryInv PROVE RetriesBounded
    OBVIOUS
  <2>1. first = 1 /\ runs \in Nat \ {0} /\ (R!Limited => R!Policy.limit \in Nat)
    BY PolicyTypes DEF RetryInv, RetryTypes
  <2> QED
    BY <2>1 DEF RetryInv, NumbersBounded, RetriesBounded, R!RetriesBounded
<1> QED
  BY <1>1, RetryInvariance, PTL

\* Whatever base and maximum are stored, the delays of a backoff are never shorter than
\* the base, never shrink, at most double, and never exceed the maximum.
THEOREM DelaysAlwaysGrow == RulesSpec => []DelaysGrow
<1>1. RetryInv => DelaysGrow
  <2> SUFFICES ASSUME RetryInv, R!Policy.kind \in Backoffs, NEW i \in DOMAIN delays
               PROVE  /\ R!Min2(R!Policy.base, R!Policy.max) <= delays[i]
                      /\ delays[i] <= R!Policy.max
                      /\ i > 1 => delays[i - 1] <= delays[i] /\ delays[i] <= 2 * delays[i - 1]
    BY DEF DelaysGrow, R!DelaysGrow, R!Exponential, Backoffs
  <2>1. i \in Nat \ {0} /\ first \in {0, 1} /\ RetryTypes
    BY DEF RetryInv, RetryTypes
  <2>2. \A no : R!DelayAfter(no) = R!Backoff(no)
    BY DEF R!DelayAfter, Backoffs
  <2>3. delays[i] = R!Backoff(first + i - 1) /\ first + i - 1 \in Nat
    BY <2>1, <2>2 DEF RetryInv, DelaysKnown
  <2>4. ASSUME i > 1 PROVE delays[i - 1] = R!Backoff(first + i - 2) /\ first + i - 2 \in Nat
    <3>1. i - 1 \in DOMAIN delays
      BY <2>1, <2>4 DEF RetryTypes
    <3>2. delays[i - 1] = R!DelayAfter(first + (i - 1) - 1)
      BY <3>1 DEF RetryInv, DelaysKnown
    <3> QED
      BY <2>1, <2>2, <2>4, <3>2
  <2>5. i > 1 => delays[i - 1] <= delays[i] /\ delays[i] <= 2 * delays[i - 1]
    <3> SUFFICES ASSUME i > 1 PROVE delays[i - 1] <= delays[i] /\ delays[i] <= 2 * delays[i - 1]
      OBVIOUS
    <3>1. (first + i - 2) + 1 = first + i - 1
      BY <2>1
    <3> QED
      BY <2>1, <2>3, <2>4, <3>1, BackoffBounds
  <2> QED
    BY <2>1, <2>3, <2>5, BackoffBounds
<1> QED
  BY <1>1, RetryInvariance, PTL

-----------------------------------------------------------------------------
(* The workflow graph: the invariant of Kahn's algorithm.                  *)

StageNames == {"extract", "normalize", "chunk", "embed", "index"}
NodeKeys   == EndPoints \cup (StageNames \X Assets)
Ix         == DOMAIN nodes

Active == phase \in {"edges", "queue", "sort"}

\* The edges that are in the adjacency lists.
Entered == IF phase = "edges" THEN read ELSE Len(edges)

Placed(k) == \E i \in DOMAIN order : order[i] = k

\* Entry p of the list of u has not been taken yet.
Pending(u, p) ==
  Placed(nodes[u]) => nodes[u] = order[Len(order)] /\ p > Len(adj[u]) - Len(scan)

\* The entries that lead to v and have not been taken yet.
Into(v) ==
  UNION {{<<u, p>> : p \in {p \in DOMAIN adj[u] : adj[u][p] = v /\ Pending(u, p)}} : u \in Ix}

\* The nodes that are sorted, followed by those queued.
LineLen == Len(order) + Len(q)
Line(i) == IF i <= Len(order) THEN order[i] ELSE nodes[q[i - Len(order)]]
InLine(v) == \E i \in 1..LineLen : Line(i) = nodes[v]

\* No edge leads to v.
IsRoot(v) == \A u \in Ix : \A p \in DOMAIN adj[u] : adj[u][p] # v

\* A node the loops have come to, of those that go over the nodes in their order.
Looked(v) == phase = "sort" \/ (phase = "queue" /\ v <= read)

GraphTypes ==
  /\ input \in G!Graphs \cup G!ProfileInputs
  /\ nodes \in Seq(NodeKeys) /\ edges \in Seq([from : NodeKeys, to : NodeKeys])
  /\ phase \in {"build", "index", "edges", "queue", "sort", "done"}
  /\ phase \in {"build", "index"} => q = <<>> /\ scan = <<>> /\ order = <<>> /\ read = 0
  /\ Active =>
       /\ nodes # <<>> /\ G!Distinct(nodes)
       /\ adj \in [Ix -> Seq(Ix)] /\ indegree \in [Ix -> Nat]
       /\ q \in Seq(Ix) /\ scan \in Seq(Ix) /\ order \in Seq(G!NodeSet)
       /\ read \in Nat /\ read <= IF phase = "edges" THEN Len(edges) ELSE Len(nodes)
       /\ phase # "sort" => order = <<>> /\ scan = <<>>
       /\ phase = "edges" => q = <<>>

\* The lists hold the edges entered, and those only.
ListsOK ==
  /\ \A i \in 1..Entered : \E u \in Ix : \E p \in DOMAIN adj[u] :
       nodes[u] = edges[i].from /\ nodes[adj[u][p]] = edges[i].to
  /\ \A u \in Ix : \A p \in DOMAIN adj[u] : \E i \in 1..Entered :
       edges[i] = [from |-> nodes[u], to |-> nodes[adj[u][p]]]

\* The loop takes the last entries of the list of the node sorted last.
ScanOK ==
  /\ scan # <<>> => order # <<>>
  /\ order # <<>> => \E u \in Ix :
       /\ nodes[u] = order[Len(order)]
       /\ Len(scan) <= Len(adj[u])
       /\ \A i \in 1..Len(scan) : scan[i] = adj[u][Len(adj[u]) - Len(scan) + i]

DegreesOK == \A v \in Ix : IsFiniteSet(Into(v)) /\ indegree[v] = Cardinality(Into(v))

\* A node is in the line once, when nothing leads to it any more.
LineOK ==
  /\ \A i, j \in 1..LineLen : Line(i) = Line(j) => i = j
  /\ \A v \in Ix : InLine(v) <=> Looked(v) /\ indegree[v] = 0

\* What leads to a node in the line is sorted, before it.
DependsOK ==
  \A u \in Ix : \A p \in DOMAIN adj[u] : \A i \in 1..LineLen :
    Line(i) = nodes[adj[u][p]] => \E j \in 1..Len(order) : j < i /\ Line(j) = nodes[u]

\* The roots come first, in the order of the nodes.
RootsOK ==
  \A v \in Ix : \A w \in Ix \ {v} : \A i \in 1..LineLen :
    (IsRoot(v) /\ Looked(v) /\ (IsRoot(w) => v < w) /\ Line(i) = nodes[w])
      => \E j \in 1..LineLen : j < i /\ Line(j) = nodes[v]

KahnOK == ListsOK /\ ScanOK /\ DegreesOK /\ LineOK /\ DependsOK /\ RootsOK

\* The chains of a profile: where the stages of its assets are among the nodes, and
\* the order in which the algorithm comes to them.
Stages     == G!ProfileStages(input.profile)
StageCount == Len(Stages)
AssetCount == Len(input.assets)
Goal(i)    == <<Stages[((i - 1) \div AssetCount) + 1], input.assets[((i - 1) % AssetCount) + 1]>>

ChainsBuilt ==
  phase \notin {"build", "done"} =>
    /\ AssetCount > 0 /\ input.hasDoc
    /\ nodes = G!ChainNodes(Stages, input.assets)
    /\ edges = G!ChainEdges(Stages, input.assets)

ChainLists ==
  Active =>
    \A x \in 1..AssetCount : \A s \in 1..StageCount :
      adj[(x - 1) * StageCount + s] =
        IF s < StageCount /\ (x - 1) * (StageCount - 1) + s <= Entered
        THEN <<(x - 1) * StageCount + s + 1>> ELSE <<>>

ChainHeads ==
  phase = "queue" =>
    /\ (Len(q) - 1) * StageCount < read /\ read <= Len(q) * StageCount
    /\ \A i \in 1..Len(q) : q[i] = (i - 1) * StageCount + 1

StageByStage ==
  phase = "sort" =>
    /\ \A i \in 1..LineLen : Line(i) = Goal(i)
    /\ LineLen = IF Len(order) <= AssetCount * (StageCount - 1)
                 THEN AssetCount + Len(order) - Len(scan) ELSE AssetCount * StageCount
    /\ ~(Len(order) <= AssetCount * (StageCount - 1)) => scan = <<>>

ChainsOK ==
  input.profile # "none" => ChainsBuilt /\ ChainLists /\ ChainHeads /\ StageByStage

GraphInv ==
  /\ GraphTypes
  /\ Active => KahnOK
  /\ ChainsOK /\ G!OrderIsTopological /\ G!ProfilesRunInStages

-----------------------------------------------------------------------------
(* The workflow graph: what the steps leave alone.                         *)

\* What a sequence is, as the provers need it.
LEMMA SeqShape ==
  ASSUME NEW S, NEW s \in Seq(S)
  PROVE  DOMAIN s = 1..Len(s) /\ Len(s) \in Nat /\ \A i \in DOMAIN s : s[i] \in S
OBVIOUS

\* The shapes of what is read only.
LEMMA GraphShape ==
  ASSUME GraphTypes
  PROVE  /\ Ix = 1..Len(nodes) /\ Len(nodes) \in Nat /\ \A i \in Ix : nodes[i] \in NodeKeys
         /\ DOMAIN edges = 1..Len(edges) /\ Len(edges) \in Nat
         /\ \A i \in DOMAIN edges : edges[i] \in [from : NodeKeys, to : NodeKeys]
         /\ G!NodeSet = {nodes[i] : i \in Ix}
<1>1. nodes \in Seq(NodeKeys) /\ edges \in Seq([from : NodeKeys, to : NodeKeys])
  BY DEF GraphTypes
<1>2. Ix = 1..Len(nodes) /\ Len(nodes) \in Nat /\ \A i \in Ix : nodes[i] \in NodeKeys
  BY <1>1 DEF Ix
<1>3. /\ DOMAIN edges = 1..Len(edges) /\ Len(edges) \in Nat
      /\ \A i \in DOMAIN edges : edges[i] \in [from : NodeKeys, to : NodeKeys]
  BY <1>1, SeqShape
<1>4. G!NodeSet = {nodes[i] : i \in Ix}
  BY DEF Ix, G!NodeSet
<1> QED
  BY <1>2, <1>3, <1>4

\* The shapes of what the algorithm works on.
LEMMA ActiveShape ==
  ASSUME GraphTypes, Active
  PROVE  /\ \A u, v \in Ix : nodes[u] = nodes[v] => u = v
         /\ \A u \in Ix : adj[u] \in Seq(Ix) /\ DOMAIN adj[u] = 1..Len(adj[u]) /\ Len(adj[u]) \in Nat
         /\ \A u \in Ix : \A p \in DOMAIN adj[u] : adj[u][p] \in Ix
         /\ \A u \in Ix : indegree[u] \in Nat
         /\ DOMAIN q = 1..Len(q) /\ Len(q) \in Nat /\ \A i \in 1..Len(q) : q[i] \in Ix
         /\ DOMAIN order = 1..Len(order) /\ Len(order) \in Nat
         /\ \A i \in 1..Len(order) : order[i] \in G!NodeSet
         /\ DOMAIN scan = 1..Len(scan) /\ Len(scan) \in Nat /\ \A i \in 1..Len(scan) : scan[i] \in Ix
<1>1. /\ G!Distinct(nodes)
      /\ adj \in [Ix -> Seq(Ix)] /\ indegree \in [Ix -> Nat]
      /\ q \in Seq(Ix) /\ scan \in Seq(Ix) /\ order \in Seq(G!NodeSet)
  BY DEF GraphTypes
<1>2. \A u, v \in Ix : nodes[u] = nodes[v] => u = v
  BY <1>1 DEF G!Distinct, Ix
<1>3. \A u \in Ix : adj[u] \in Seq(Ix)
  BY <1>1
<1>4. \A u \in Ix : /\ DOMAIN adj[u] = 1..Len(adj[u]) /\ Len(adj[u]) \in Nat
                   /\ \A p \in DOMAIN adj[u] : adj[u][p] \in Ix
  BY <1>3
<1>5. \A u \in Ix : indegree[u] \in Nat
  BY <1>1
<1>6. /\ DOMAIN q = 1..Len(q) /\ Len(q) \in Nat /\ \A i \in 1..Len(q) : q[i] \in Ix
      /\ DOMAIN scan = 1..Len(scan) /\ Len(scan) \in Nat /\ \A i \in 1..Len(scan) : scan[i] \in Ix
  BY <1>1
<1>7. /\ DOMAIN order = 1..Len(order) /\ Len(order) \in Nat
      /\ \A i \in 1..Len(order) : order[i] \in G!NodeSet
  BY <1>1
<1> QED
  BY <1>2, <1>3, <1>4, <1>5, <1>6, <1>7

\* What is in Into.
LEMMA IntoElements ==
  \A v, s : s \in Into(v) <=>
    \E u \in Ix : \E p \in DOMAIN adj[u] : s = <<u, p>> /\ adj[u][p] = v /\ Pending(u, p)
BY DEF Into

\* Every element of the line is a node, and none is there twice.
LEMMA LineShape ==
  ASSUME GraphTypes, Active
  PROVE  /\ LineLen \in Nat /\ LineLen = Len(order) + Len(q)
         /\ \A i \in 1..LineLen : \E v \in Ix : Line(i) = nodes[v]
         /\ \A i \in 1..Len(order) : i \in 1..LineLen /\ Line(i) = order[i]
         /\ \A i \in 1..Len(q) : Len(order) + i \in 1..LineLen /\ Line(Len(order) + i) = nodes[q[i]]
<1>1. LineLen \in Nat /\ LineLen = Len(order) + Len(q)
  BY ActiveShape DEF LineLen
<1>2. \A i \in 1..Len(order) : i \in 1..LineLen /\ Line(i) = order[i]
  BY <1>1, ActiveShape DEF Line
<1>3. ASSUME NEW i \in 1..Len(q)
      PROVE  Len(order) + i \in 1..LineLen /\ Line(Len(order) + i) = nodes[q[i]]
  <2>1. (Len(order) + i) - Len(order) = i /\ ~(Len(order) + i <= Len(order)) /\ Len(order) + i \in 1..LineLen
    BY <1>1, <1>3, ActiveShape
  <2> QED
    BY <2>1 DEF Line
<1>4. ASSUME NEW i \in 1..LineLen PROVE \E v \in Ix : Line(i) = nodes[v]
  <2>1. CASE i <= Len(order)
    <3>1. order[i] \in G!NodeSet
      BY <1>1, <2>1, ActiveShape
    <3> QED
      BY <2>1, <3>1, GraphShape DEF Line
  <2>2. CASE ~(i <= Len(order))
    <3>1. i - Len(order) \in 1..Len(q)
      BY <1>1, <2>2, ActiveShape
    <3>2. q[i - Len(order)] \in Ix
      BY <3>1, ActiveShape
    <3> QED
      BY <2>2, <3>2 DEF Line
  <2> QED
    BY <2>1, <2>2
<1> QED
  BY <1>1, <1>2, <1>3, <1>4

\* Until the sort, nothing is taken.
LEMMA NothingTaken ==
  ASSUME GraphTypes, Active, order = <<>> PROVE \A u, p : Pending(u, p)
BY DEF Pending, Placed

\* Without a step of the algorithm nothing of this changes.
LEMMA KahnStays ==
  ASSUME Active <=> Active', Active, UNCHANGED <<nodes, edges, adj, indegree, q, scan, order>>,
         Entered' = Entered, \A v \in Ix : Looked(v)' <=> Looked(v), KahnOK
  PROVE  KahnOK'
<1>1. /\ \A u, p : Pending(u, p)' <=> Pending(u, p)
      /\ \A v : Into(v)' = Into(v)
      /\ LineLen' = LineLen /\ \A i : Line(i)' = Line(i)
      /\ Ix' = Ix
      /\ \A v : IsRoot(v)' <=> IsRoot(v)
  BY DEF Pending, Placed, Into, LineLen, Line, Ix, IsRoot
<1>2. \A v : InLine(v)' <=> InLine(v)
  BY <1>1 DEF InLine
<1>3. ListsOK'
  BY <1>1 DEF KahnOK, ListsOK
<1>4. ScanOK'
  BY <1>1 DEF KahnOK, ScanOK
<1>5. DegreesOK'
  BY <1>1 DEF KahnOK, DegreesOK
<1>6. LineOK'
  BY <1>1, <1>2 DEF KahnOK, LineOK
<1>7. DependsOK'
  BY <1>1 DEF KahnOK, DependsOK
<1>8. RootsOK'
  BY <1>1 DEF KahnOK, RootsOK
<1> QED
  BY <1>3, <1>4, <1>5, <1>6, <1>7, <1>8 DEF KahnOK

-----------------------------------------------------------------------------
(* The workflow graph: reading the edges.                                  *)

\* The index has every key that is present.
LEMMA IndexOfNode ==
  ASSUME NEW k, G!Present(k) PROVE G!IndexOf(k) \in Ix /\ nodes[G!IndexOf(k)] = k
BY DEF G!Present, G!IndexOf, Ix

\* The lists begin empty and the indegrees zero: nothing leads anywhere yet.
LEMMA BuildIndexKeeps ==
  ASSUME GraphTypes, G!BuildIndex PROVE GraphTypes' /\ (Active' => KahnOK')
<1>1. /\ UNCHANGED <<input, nodes, edges, q, scan, order, read>> /\ phase = "index"
      /\ adj' = [i \in Ix |-> <<>>] /\ indegree' = [i \in Ix |-> 0]
      /\ q = <<>> /\ scan = <<>> /\ order = <<>> /\ read = 0 /\ nodes # <<>>
      /\ \/ G!Distinct(nodes) /\ phase' = "edges"
         \/ ~G!Distinct(nodes) /\ phase' = "done"
  BY DEF G!BuildIndex, GraphTypes, G!Stop, Ix
<1>2. Ix' = Ix /\ (G!Distinct(nodes)' <=> G!Distinct(nodes)) /\ G!NodeSet' = G!NodeSet
  BY <1>1 DEF Ix, G!Distinct, G!NodeSet
<1>3. adj' \in [Ix -> Seq(Ix)] /\ indegree' \in [Ix -> Nat]
  BY <1>1
<1>4. GraphTypes'
  <2>1. CASE phase' = "edges"
    BY <1>1, <1>2, <1>3, <2>1, GraphShape DEF GraphTypes
  <2>2. CASE phase' = "done"
    BY <1>1, <2>2 DEF GraphTypes, Active
  <2> QED
    BY <1>1, <2>1, <2>2
<1>5. ASSUME Active' PROVE KahnOK'
  <2>1. phase' = "edges" /\ Entered' = 0 /\ LineLen' = 0 /\ \A v : ~Looked(v)'
    BY <1>1, <1>5 DEF Active, Entered, LineLen, Looked
  <2>2. \A v : Into(v)' = {}
    BY <1>1, <1>2 DEF Into
  <2>3. ListsOK'
    BY <1>1, <1>2, <2>1 DEF ListsOK
  <2>4. ScanOK'
    BY <1>1 DEF ScanOK
  <2>5. DegreesOK'
    BY <1>1, <1>2, <2>2, FS_EmptySet DEF DegreesOK
  <2>6. LineOK'
    BY <2>1 DEF LineOK, InLine
  <2>7. DependsOK' /\ RootsOK'
    BY <2>1 DEF DependsOK, RootsOK
  <2> QED
    BY <2>3, <2>4, <2>5, <2>6, <2>7 DEF KahnOK
<1> QED
  BY <1>4, <1>5

\* An edge adds one entry to one list, and so one to what leads to its target.
LEMMA ReadEdgeKeeps ==
  ASSUME GraphTypes, Active => KahnOK, G!ReadEdge PROVE GraphTypes' /\ (Active' => KahnOK')
<1> DEFINE e == edges[read + 1]
<1>1. /\ phase = "edges" /\ read < Len(edges) /\ read' = read + 1
      /\ UNCHANGED <<input, nodes, edges, q, scan, order>>
  BY DEF G!ReadEdge
<1>2. Active /\ KahnOK /\ order = <<>> /\ scan = <<>> /\ q = <<>> /\ read \in Nat
  BY <1>1 DEF Active, GraphTypes
<1>3. Ix' = Ix /\ G!NodeSet' = G!NodeSet /\ (G!Distinct(nodes)' <=> G!Distinct(nodes))
  BY <1>1 DEF Ix, G!NodeSet, G!Distinct
<1>4. CASE ~(G!Present(e.from) /\ G!Present(e.to))
  <2>1. phase' = "done"
    BY <1>4 DEF G!ReadEdge, G!Stop
  <2> QED
    BY <1>1, <2>1 DEF GraphTypes, Active
<1>5. CASE G!Present(e.from) /\ G!Present(e.to)
  <2>14. PICK u \in Ix : u = G!IndexOf(e.from) /\ nodes[u] = e.from
    BY <1>5, IndexOfNode
  <2>13. PICK v \in Ix : v = G!IndexOf(e.to) /\ nodes[v] = e.to
    BY <1>5, IndexOfNode
  <2>1. /\ adj' = [adj EXCEPT ![u] = Append(@, v)]
        /\ indegree' = [indegree EXCEPT ![v] = @ + 1] /\ phase' = phase
    BY <1>5, <2>14, <2>13 DEF G!ReadEdge
  <2>2. u \in Ix /\ nodes[u] = e.from /\ v \in Ix /\ nodes[v] = e.to
    BY <2>14, <2>13
  <2>3. /\ adj \in [Ix -> Seq(Ix)] /\ indegree \in [Ix -> Nat] /\ Len(edges) \in Nat
    BY <1>2, GraphShape DEF GraphTypes
  <2>4. adj' \in [Ix -> Seq(Ix)] /\ indegree' \in [Ix -> Nat]
    BY <2>1, <2>2, <2>3
  <2>5. GraphTypes'
    BY <1>1, <1>2, <1>3, <2>1, <2>3, <2>4 DEF GraphTypes, Active
  <2>6. Active'
    BY <2>1, <1>1 DEF Active
  <2> DEFINE s == <<u, Len(adj[u]) + 1>>
  <2>7. /\ Len(adj[u]) + 1 \in DOMAIN adj'[u] /\ adj'[u][Len(adj[u]) + 1] = v
        /\ \A p \in DOMAIN adj[u] : p \in DOMAIN adj'[u] /\ adj'[u][p] = adj[u][p]
        /\ \A p \in DOMAIN adj'[u] : p \in DOMAIN adj[u] \/ p = Len(adj[u]) + 1
        /\ \A w \in Ix : w # u => adj'[w] = adj[w]
        /\ Len(adj[u]) + 1 \notin DOMAIN adj[u]
    <3>1. adj[u] \in Seq(Ix) /\ adj'[u] = Append(adj[u], v) /\ \A w \in Ix : w # u => adj'[w] = adj[w]
      BY <2>1, <2>2, <2>3
    <3> QED
      BY <2>2, <3>1
  <2>8. \A w, p : Pending(w, p) /\ Pending(w, p)'
    BY <1>1, <1>2 DEF Pending, Placed
  <2>9. \A w \in Ix : Into(w)' = IF w = v THEN Into(w) \cup {s} ELSE Into(w)
    <3> SUFFICES ASSUME NEW w \in Ix, NEW t
                 PROVE  t \in Into(w)' <=> t \in Into(w) \/ (w = v /\ t = s)
      OBVIOUS
    <3>1. t \in Into(w) <=> \E x \in Ix : \E p \in DOMAIN adj[x] : t = <<x, p>> /\ adj[x][p] = w
      BY <2>8, IntoElements
    <3>2. t \in Into(w)' <=> \E x \in Ix : \E p \in DOMAIN adj'[x] : t = <<x, p>> /\ adj'[x][p] = w
      BY <1>3, <2>8 DEF Into
    <3>3. ASSUME t \in Into(w) \/ (w = v /\ t = s) PROVE t \in Into(w)'
      BY <2>2, <2>7, <3>1, <3>2, <3>3
    <3>4. ASSUME t \in Into(w)' PROVE t \in Into(w) \/ (w = v /\ t = s)
      <4>0. PICK x \in Ix : \E p \in DOMAIN adj'[x] : t = <<x, p>> /\ adj'[x][p] = w
        BY <3>2, <3>4
      <4>1. PICK p \in DOMAIN adj'[x] : t = <<x, p>> /\ adj'[x][p] = w
        BY <4>0
      <4>2. CASE x = u
        BY <2>7, <3>1, <4>1, <4>2
      <4>3. CASE x # u
        BY <2>7, <3>1, <4>1, <4>3
      <4> QED
        BY <4>2, <4>3
    <3> QED
      BY <3>3, <3>4
  <2>10. DegreesOK'
    <3>1. s \notin Into(v)
      BY <2>7, IntoElements
    <3>2. \A w \in Ix : IsFiniteSet(Into(w)) /\ indegree[w] = Cardinality(Into(w))
      BY <1>2 DEF KahnOK, DegreesOK
    <3>3. IsFiniteSet(Into(v)') /\ indegree'[v] = Cardinality(Into(v)')
      <4>1. Into(v)' = Into(v) \cup {s}
        BY <2>2, <2>9
      <4>2. /\ IsFiniteSet(Into(v) \cup {s})
            /\ Cardinality(Into(v) \cup {s}) = Cardinality(Into(v)) + 1
        BY <2>2, <3>1, <3>2, FS_AddElement
      <4>3. indegree'[v] = indegree[v] + 1
        BY <2>1, <2>2, <2>3
      <4> QED
        BY <2>2, <3>2, <4>1, <4>2, <4>3
    <3>4. \A w \in Ix \ {v} : IsFiniteSet(Into(w)') /\ indegree'[w] = Cardinality(Into(w)')
      BY <2>1, <2>2, <2>3, <2>9, <3>2
    <3> QED
      BY <1>3, <3>3, <3>4 DEF DegreesOK
  <2>11. ListsOK'
    <3>1. Entered = read /\ Entered' = read + 1
      BY <1>1, <2>1 DEF Entered
    <3>2. ASSUME NEW i \in 1..(read + 1)
          PROVE  \E x \in Ix : \E p \in DOMAIN adj'[x] :
                   nodes[x] = edges[i].from /\ nodes[adj'[x][p]] = edges[i].to
      <4>1. CASE i = read + 1
        BY <2>2, <2>7, <4>1
      <4>2. CASE i # read + 1
        <5>1. i \in 1..read
          BY <1>2, <4>2
        <5>0. PICK x \in Ix : \E p \in DOMAIN adj[x] :
                nodes[x] = edges[i].from /\ nodes[adj[x][p]] = edges[i].to
          BY <1>2, <3>1, <5>1 DEF KahnOK, ListsOK
        <5>2. PICK p \in DOMAIN adj[x] : nodes[x] = edges[i].from /\ nodes[adj[x][p]] = edges[i].to
          BY <5>0
        <5>3. p \in DOMAIN adj'[x] /\ adj'[x][p] = adj[x][p]
          BY <2>7, <5>2
        <5> QED
          BY <5>2, <5>3
      <4> QED
        BY <4>1, <4>2
    <3>3. ASSUME NEW x \in Ix, NEW p \in DOMAIN adj'[x]
          PROVE  \E i \in 1..(read + 1) : edges[i] = [from |-> nodes[x], to |-> nodes[adj'[x][p]]]
      <4>1. CASE p \in DOMAIN adj[x] /\ adj'[x][p] = adj[x][p]
        <5>1. PICK i \in 1..read : edges[i] = [from |-> nodes[x], to |-> nodes[adj[x][p]]]
          BY <1>2, <3>1, <4>1 DEF KahnOK, ListsOK
        <5>2. i \in 1..(read + 1)
          BY <1>2, <5>1
        <5> QED
          BY <4>1, <5>1, <5>2
      <4>2. CASE x = u /\ p = Len(adj[u]) + 1
        <5>0. read + 1 \in 1..Len(edges) /\ read + 1 \in 1..(read + 1)
          BY <1>1, <1>2, <2>3
        <5>1. e \in [from : NodeKeys, to : NodeKeys]
          BY <5>0, GraphShape
        <5>2. e = [from |-> nodes[u], to |-> nodes[v]]
          <6> HIDE DEF e
          <6> QED
            BY <2>2, <5>1
        <5> QED
          BY <2>7, <4>2, <5>0, <5>2
      <4> QED
        BY <2>7, <4>1, <4>2
    <3> QED
      BY <1>1, <1>3, <3>1, <3>2, <3>3 DEF ListsOK
  <2>12. ScanOK' /\ LineOK' /\ DependsOK' /\ RootsOK'
    <3>1. LineLen' = 0 /\ order' = <<>> /\ scan' = <<>> /\ \A w : ~Looked(w)'
      BY <1>1, <1>2, <2>1 DEF LineLen, Looked
    <3>2. ScanOK'
      BY <3>1 DEF ScanOK
    <3>3. LineOK'
      BY <3>1 DEF LineOK, InLine
    <3>4. DependsOK' /\ RootsOK'
      BY <3>1 DEF DependsOK, RootsOK
    <3> QED
      BY <3>2, <3>3, <3>4
  <2> QED
    BY <2>5, <2>10, <2>11, <2>12 DEF KahnOK
<1> QED
  BY <1>4, <1>5

-----------------------------------------------------------------------------
(* The workflow graph: queueing a node.                                    *)

\* Nothing has been looked at yet, and the line is empty.
LEMMA EdgesReadKeeps ==
  ASSUME GraphTypes, Active => KahnOK, G!EdgesRead PROVE GraphTypes' /\ (Active' => KahnOK')
<1>1. /\ phase = "edges" /\ read = Len(edges) /\ phase' = "queue" /\ read' = 0
      /\ UNCHANGED <<input, nodes, edges, adj, indegree, q, scan, order>>
  BY DEF G!EdgesRead
<1>2. Active /\ Active' /\ Len(nodes) \in Nat /\ Ix = 1..Len(nodes)
  BY <1>1, GraphShape DEF Active
<1>3. Ix' = Ix /\ G!NodeSet' = G!NodeSet /\ (G!Distinct(nodes)' <=> G!Distinct(nodes))
  BY <1>1 DEF Ix, G!NodeSet, G!Distinct
<1>4. GraphTypes'
  BY <1>1, <1>2, <1>3 DEF GraphTypes
<1>5. Entered' = Entered /\ \A v \in Ix : Looked(v)' <=> Looked(v)
  BY <1>1, <1>2 DEF Entered, Looked
<1>6. KahnOK'
  BY <1>1, <1>2, <1>5, KahnStays
<1> QED
  BY <1>4, <1>6

\* All nodes have been looked at.
LEMMA StartKeeps ==
  ASSUME GraphTypes, Active => KahnOK, G!Start PROVE GraphTypes' /\ (Active' => KahnOK')
<1>1. /\ phase = "queue" /\ read = Len(nodes) /\ phase' = "sort"
      /\ UNCHANGED <<input, nodes, edges, adj, indegree, q, scan, order, read>>
  BY DEF G!Start
<1>2. Active /\ Active' /\ Len(nodes) \in Nat /\ Ix = 1..Len(nodes)
  BY <1>1, GraphShape DEF Active
<1>3. Ix' = Ix /\ G!NodeSet' = G!NodeSet /\ (G!Distinct(nodes)' <=> G!Distinct(nodes))
  BY <1>1 DEF Ix, G!NodeSet, G!Distinct
<1>4. GraphTypes'
  BY <1>1, <1>2, <1>3 DEF GraphTypes
<1>5. Entered' = Entered /\ \A v \in Ix : Looked(v)' <=> Looked(v)
  BY <1>1, <1>2 DEF Entered, Looked
<1>6. KahnOK'
  BY <1>1, <1>2, <1>5, KahnStays
<1> QED
  BY <1>4, <1>6

\* A root has no edges to wait for.
LEMMA RootIsFree ==
  ASSUME GraphTypes, Active, DegreesOK, NEW v \in Ix, IsRoot(v) PROVE Into(v) = {} /\ indegree[v] = 0
<1>1. Into(v) = {}
  BY DEF Into, IsRoot
<1>2. indegree[v] = Cardinality(Into(v))
  BY DEF DegreesOK
<1> QED
  BY <1>1, <1>2, FS_EmptySet

\* The line after one more node is queued.
LEMMA LineGrows ==
  ASSUME GraphTypes, Active, NEW r \in Ix, q' = Append(q, r), UNCHANGED <<nodes, order>>,
         NEW n, n = LineLen + 1
  PROVE  /\ LineLen' = n /\ LineLen \in Nat
         /\ \A i \in 1..LineLen : Line(i)' = Line(i)
         /\ Line(n)' = nodes[r]
         /\ \A w \in Ix : InLine(w)' <=> InLine(w) \/ w = r
<1>1. LineLen \in Nat /\ LineLen = Len(order) + Len(q) /\ Len(order) \in Nat /\ Len(q) \in Nat
  BY LineShape, ActiveShape
<1>2. /\ Len(q') = Len(q) + 1 /\ q'[Len(q) + 1] = r
      /\ \A i \in 1..Len(q) : q'[i] = q[i]
  <2>1. q \in Seq(Ix)
    BY DEF GraphTypes
  <2> QED
    BY <2>1
<1>3. LineLen' = n
  BY <1>1, <1>2 DEF LineLen
<1>4. ASSUME NEW i \in 1..LineLen PROVE Line(i)' = Line(i)
  <2>1. CASE i <= Len(order)
    BY <2>1 DEF Line
  <2>2. CASE ~(i <= Len(order))
    <3>1. i - Len(order) \in 1..Len(q)
      BY <1>1, <2>2
    <3> QED
      BY <1>2, <2>2, <3>1 DEF Line
  <2> QED
    BY <2>1, <2>2
<1>5. Line(n)' = nodes[r]
  <2>1. ~(n <= Len(order)) /\ n - Len(order) = Len(q) + 1
    BY <1>1
  <2> QED
    BY <1>2, <2>1 DEF Line
<1>6. ASSUME NEW w \in Ix PROVE InLine(w)' <=> InLine(w) \/ w = r
  <2>1. ASSUME InLine(w)' PROVE InLine(w) \/ w = r
    <3>1. PICK i \in 1..n : Line(i)' = nodes[w]
      BY <1>3, <2>1 DEF InLine
    <3>2. CASE i = n
      BY <1>5, <3>1, <3>2, ActiveShape
    <3>3. CASE i # n
      <4>1. i \in 1..LineLen
        BY <1>1, <3>3
      <4> QED
        BY <1>4, <3>1, <4>1 DEF InLine
    <3> QED
      BY <3>2, <3>3
  <2>2. ASSUME InLine(w) PROVE InLine(w)'
    <3>1. PICK i \in 1..LineLen : Line(i) = nodes[w]
      BY <2>2 DEF InLine
    <3>2. i \in 1..LineLen' /\ Line(i)' = nodes'[w]
      BY <1>1, <1>3, <1>4, <3>1
    <3> QED
      BY <3>2 DEF InLine
  <2>3. ASSUME w = r PROVE InLine(w)'
    <3>1. n \in 1..LineLen' /\ Line(n)' = nodes'[w]
      BY <1>1, <1>3, <1>5, <2>3
    <3> QED
      BY <3>1 DEF InLine
  <2> QED
    BY <2>1, <2>2, <2>3
<1> QED
  BY <1>1, <1>3, <1>4, <1>5, <1>6

\* A node that nothing leads to any more, and that is not in the line, may join it.
LEMMA NodeQueued ==
  ASSUME GraphTypes, Active, LineOK, DependsOK,
         NEW r \in Ix, q' = Append(q, r), UNCHANGED <<nodes, adj, order>>,
         ~InLine(r), Into(r)' = {}
  PROVE  /\ \A i, j \in 1..LineLen' : Line(i)' = Line(j)' => i = j
         /\ DependsOK'
<1>0. PICK n : n = LineLen + 1
  OBVIOUS
<1>1. /\ LineLen' = n /\ LineLen \in Nat /\ Ix' = Ix
      /\ \A i \in 1..LineLen : Line(i)' = Line(i)
      /\ Line(n)' = nodes[r]
  BY <1>0, LineGrows DEF Ix
<1>2. \A i \in 1..LineLen : Line(i) # nodes[r]
  BY DEF InLine
<1>3. \A i \in 1..n : i \in 1..LineLen \/ i = n
  BY <1>0, <1>1
<1>4. ASSUME NEW i \in 1..n, NEW j \in 1..n, Line(i)' = Line(j)'
      PROVE  i = j
  <2>1. CASE i \in 1..LineLen /\ j \in 1..LineLen
    BY <1>1, <1>4, <2>1 DEF LineOK
  <2>2. CASE i = n /\ j \in 1..LineLen
    BY <1>1, <1>2, <1>4, <2>2
  <2>3. CASE j = n /\ i \in 1..LineLen
    BY <1>1, <1>2, <1>4, <2>3
  <2> QED
    BY <1>3, <2>1, <2>2, <2>3
<1>5. ASSUME NEW u \in Ix, NEW p \in DOMAIN adj[u], NEW i \in 1..n,
             Line(i)' = nodes[adj[u][p]]
      PROVE  \E j \in 1..Len(order) : j < i /\ Line(j)' = nodes[u]
  <2>1. CASE i \in 1..LineLen
    <3>1. PICK j \in 1..Len(order) : j < i /\ Line(j) = nodes[u]
      BY <1>1, <1>5, <2>1 DEF DependsOK
    <3>2. j \in 1..LineLen
      BY <3>1, LineShape
    <3> QED
      BY <1>1, <3>1, <3>2
  <2>2. CASE i = n
    <3>1. adj[u][p] = r
      BY <1>1, <1>5, <2>2, ActiveShape
    <3>2. ~Pending(u, p)'
      <4>1. UNION {{<<x, y>> : y \in {y \in DOMAIN adj'[x] : adj'[x][y] = r /\ Pending(x, y)'}} : x \in Ix'} = {}
        BY DEF Into
      <4>2. Pending(u, p)' => <<u, p>> \in
              UNION {{<<x, y>> : y \in {y \in DOMAIN adj'[x] : adj'[x][y] = r /\ Pending(x, y)'}} : x \in Ix'}
        BY <1>1, <3>1
      <4> QED
        BY <4>1, <4>2
    <3>3. PICK j \in DOMAIN order : order[j] = nodes[u]
      BY <3>2 DEF Pending, Placed
    <3>4. j \in 1..Len(order) /\ j \in 1..LineLen /\ Line(j) = nodes[u]
      BY <3>3, ActiveShape, LineShape
    <3>5. j < i /\ Line(j)' = nodes[u]
      BY <1>0, <1>1, <2>2, <3>4
    <3> QED
      BY <3>4, <3>5
  <2> QED
    BY <1>3, <2>1, <2>2
<1>6. DependsOK'
  BY <1>1, <1>5 DEF DependsOK
<1> QED
  BY <1>1, <1>4, <1>6

\* A node is queued exactly when nothing leads to it.
LEMMA QueueNodeKeeps ==
  ASSUME GraphTypes, Active => KahnOK, G!QueueNode PROVE GraphTypes' /\ (Active' => KahnOK')
<1>1. /\ phase = "queue" /\ phase' = "queue" /\ read < Len(nodes) /\ read' = read + 1
      /\ UNCHANGED <<input, nodes, edges, adj, indegree, scan, order>>
      /\ q' = IF indegree[read + 1] = 0 THEN Append(q, read + 1) ELSE q
  BY DEF G!QueueNode
<1>2. /\ Active /\ Active' /\ KahnOK /\ order = <<>> /\ scan = <<>> /\ read \in Nat
      /\ Len(nodes) \in Nat /\ Ix = 1..Len(nodes) /\ q \in Seq(Ix)
  BY <1>1, GraphShape DEF GraphTypes, Active
<1>0. PICK r : r = read + 1
  OBVIOUS
<1>3. r \in Ix
  BY <1>1, <1>2, <1>0
<1>4. Ix' = Ix /\ G!NodeSet' = G!NodeSet /\ (G!Distinct(nodes)' <=> G!Distinct(nodes))
  BY <1>1 DEF Ix, G!NodeSet, G!Distinct
<1>5. q' \in Seq(Ix)
  <2>1. q' = q \/ q' = Append(q, r)
    BY <1>1, <1>0
  <2>2. q \in Seq(Ix)
    BY <1>2
  <2> QED
    BY <1>3, <2>1, <2>2
<1>6. GraphTypes'
  BY <1>1, <1>2, <1>4, <1>5 DEF GraphTypes
<1>7. /\ \A w \in Ix : Looked(w) <=> w < r
      /\ \A w \in Ix : Looked(w)' <=> w < r \/ w = r
      /\ Entered' = Entered
  BY <1>1, <1>2, <1>0 DEF Looked, Entered
<1>8. /\ \A u, p : Pending(u, p)' <=> Pending(u, p)
      /\ \A v : Into(v)' = Into(v)
      /\ \A v : IsRoot(v)' <=> IsRoot(v)
  BY <1>1 DEF Pending, Placed, Into, IsRoot, Ix
<1>9. ListsOK' /\ ScanOK' /\ DegreesOK'
  <2>1. ListsOK'
    BY <1>1, <1>2, <1>4, <1>7 DEF KahnOK, ListsOK
  <2>2. ScanOK'
    BY <1>1, <1>2, <1>4 DEF KahnOK, ScanOK
  <2>3. DegreesOK'
    BY <1>1, <1>2, <1>4, <1>8 DEF KahnOK, DegreesOK
  <2> QED
    BY <2>1, <2>2, <2>3
<1>10. /\ \A w \in Ix : InLine(w) <=> w < r /\ indegree[w] = 0
       /\ ~InLine(r)
  BY <1>2, <1>3, <1>7 DEF KahnOK, LineOK
<1>11. \A w \in Ix : IsRoot(w) => indegree[w] = 0
  BY <1>2, RootIsFree DEF KahnOK
<1>12. \A w \in Ix : indegree[w] = 0 => IsRoot(w) /\ Into(w) = {}
  <2> SUFFICES ASSUME NEW w \in Ix, indegree[w] = 0 PROVE IsRoot(w) /\ Into(w) = {}
    OBVIOUS
  <2>1. IsFiniteSet(Into(w)) /\ Cardinality(Into(w)) = 0
    BY <1>2 DEF KahnOK, DegreesOK
  <2>2. Into(w) = {}
    BY <2>1, FS_EmptySet
  <2>3. \A u, p : Pending(u, p)
    BY <1>2, NothingTaken
  <2>4. IsRoot(w)
    BY <2>2, <2>3, IntoElements DEF IsRoot
  <2> QED
    BY <2>2, <2>4
<1>13. CASE indegree[r] # 0
  <2>1. q' = q
    BY <1>1, <1>13, <1>0
  <2>2. LineLen' = LineLen /\ \A i : Line(i)' = Line(i)
    BY <1>1, <2>1 DEF LineLen, Line
  <2>3. \A v \in Ix : InLine(v)' <=> InLine(v)
    BY <1>1, <2>2 DEF InLine
  <2>4. LineOK'
    <3>1. \A i, j \in 1..LineLen : Line(i) = Line(j) => i = j
      BY <1>2 DEF KahnOK, LineOK
    <3>2. \A v \in Ix : InLine(v)' <=> Looked(v)' /\ indegree'[v] = 0
      BY <1>1, <1>7, <1>10, <1>13, <2>3
    <3> QED
      BY <1>4, <2>2, <3>1, <3>2 DEF LineOK
  <2>5. DependsOK'
    BY <1>1, <1>2, <1>4, <2>2 DEF KahnOK, DependsOK
  <2>6. RootsOK'
    <3>1. RootsOK
      BY <1>2 DEF KahnOK
    <3>2. \A v \in Ix : IsRoot(v) /\ Looked(v)' => Looked(v)
      BY <1>7, <1>11, <1>13
    <3> QED
      BY <1>1, <1>4, <1>8, <2>2, <3>1, <3>2 DEF RootsOK
  <2> QED
    BY <1>6, <1>9, <2>4, <2>5, <2>6 DEF KahnOK
<1>14. CASE indegree[r] = 0
  <2>1. q' = Append(q, r)
    BY <1>1, <1>14, <1>0
  <2>2. Into(r)' = {}
    BY <1>3, <1>8, <1>12, <1>14
  <2>7. PICK n : n = LineLen + 1
    OBVIOUS
  <2>3. /\ LineLen' = n /\ LineLen \in Nat
        /\ \A i \in 1..LineLen : Line(i)' = Line(i)
        /\ Line(n)' = nodes[r]
        /\ \A w \in Ix : InLine(w)' <=> InLine(w) \/ w = r
    BY <1>1, <1>2, <1>3, <2>1, <2>7, LineGrows
  <2>4. /\ \A i, j \in 1..LineLen' : Line(i)' = Line(j)' => i = j
        /\ DependsOK'
    BY <1>1, <1>2, <1>3, <1>10, <2>1, <2>2, NodeQueued DEF KahnOK
  <2>5. LineOK'
    <3>1. \A v \in Ix : InLine(v)' <=> Looked(v)' /\ indegree'[v] = 0
      BY <1>1, <1>7, <1>10, <1>14, <2>3
    <3> QED
      BY <1>4, <2>4, <3>1 DEF LineOK
  <2>6. RootsOK'
    <3> SUFFICES ASSUME NEW v \in Ix, NEW w \in Ix \ {v}, NEW i \in 1..LineLen',
                        IsRoot(v), Looked(v)', IsRoot(w) => v < w, Line(i)' = nodes[w]
                 PROVE  \E j \in 1..LineLen' : j < i /\ Line(j)' = nodes[v]
      BY <1>1, <1>4, <1>8 DEF RootsOK
    <3>1. i \in 1..LineLen \/ i = n
      BY <2>3, <2>7
    <3>2. v < r \/ v = r
      BY <1>7
    <3>3. CASE i \in 1..LineLen
      <4>1. InLine(w) /\ Line(i) = nodes[w]
        BY <2>3, <3>3 DEF InLine
      <4>2. w < r /\ IsRoot(w)
        BY <1>10, <1>12, <4>1
      <4>3. v < r
        BY <1>2, <3>2, <4>2
      <4>4. PICK j \in 1..LineLen : j < i /\ Line(j) = nodes[v]
        BY <1>2, <1>7, <3>3, <4>1, <4>3 DEF KahnOK, RootsOK
      <4> QED
        BY <2>3, <2>7, <4>4
    <3>4. CASE i = n
      <4>1. w = r
        BY <1>2, <1>3, <2>3, <3>4, ActiveShape
      <4>2. v < r /\ indegree[v] = 0
        BY <1>11, <3>2, <4>1
      <4>3. PICK j \in 1..LineLen : Line(j) = nodes[v]
        BY <1>10, <4>2 DEF InLine
      <4> QED
        BY <2>3, <2>7, <3>4, <4>3
    <3> QED
      BY <3>1, <3>3, <3>4
  <2> QED
    BY <1>6, <1>9, <2>4, <2>5, <2>6 DEF KahnOK
<1> QED
  BY <1>13, <1>14

-----------------------------------------------------------------------------
(* The workflow graph: the sort.                                           *)

\* Taking a node out of the queue moves the border between sorted and queued.
LEMMA PopLine ==
  ASSUME GraphTypes, G!Pop
  PROVE  \E u \in Ix :
           /\ u = q[1]
           /\ order' = Append(order, nodes[u]) /\ scan' = adj[u]
           /\ nodes[u] \in G!NodeSet /\ adj[u] \in Seq(Ix) /\ Len(q) > 0
           /\ order' \in Seq(G!NodeSet) /\ q' \in Seq(Ix) /\ scan' \in Seq(Ix) /\ order' # <<>>
           /\ Len(order') = Len(order) + 1 /\ order'[Len(order) + 1] = nodes[u]
           /\ \A i \in 1..Len(order) : order'[i] = order[i]
           /\ Len(q') = Len(q) - 1 /\ Len(q) \in Nat /\ Len(order) \in Nat
           /\ DOMAIN order' = 1..(Len(order) + 1)
           /\ LineLen' = LineLen /\ LineLen = Len(order) + Len(q)
           /\ \A i \in 1..LineLen : Line(i)' = Line(i)
<1>1. /\ phase = "sort" /\ scan = <<>> /\ q # <<>>
      /\ UNCHANGED <<input, nodes, edges, phase, adj, indegree, read>>
      /\ order' = Append(order, nodes[Head(q)]) /\ scan' = adj[Head(q)] /\ q' = Tail(q)
  BY DEF G!Pop
<1>2. Active
  BY <1>1 DEF Active
<1>3. q \in Seq(Ix) /\ order \in Seq(G!NodeSet) /\ adj \in [Ix -> Seq(Ix)]
  BY <1>2 DEF GraphTypes
<1>4. PICK u \in Ix : u = Head(q) /\ u = q[1]
  BY <1>1, <1>3
<1>5. /\ order' = Append(order, nodes[u]) /\ scan' = adj[u]
      /\ nodes[u] \in G!NodeSet /\ adj[u] \in Seq(Ix) /\ Len(q) > 0
  <2>1. nodes[u] \in G!NodeSet
    BY <1>4, GraphShape
  <2> QED
    BY <1>1, <1>3, <1>4, <2>1
<1>6. /\ order' \in Seq(G!NodeSet) /\ q' \in Seq(Ix) /\ scan' \in Seq(Ix) /\ order' # <<>>
      /\ Len(order') = Len(order) + 1 /\ order'[Len(order) + 1] = nodes[u]
      /\ \A i \in 1..Len(order) : order'[i] = order[i]
      /\ Len(q') = Len(q) - 1 /\ \A i \in 1..Len(q') : q'[i] = q[i + 1]
      /\ Len(q) \in Nat /\ Len(order) \in Nat
      /\ DOMAIN order' = 1..(Len(order) + 1)
  <2>1. /\ order' \in Seq(G!NodeSet) /\ order' # <<>>
        /\ Len(order') = Len(order) + 1 /\ order'[Len(order) + 1] = nodes[u]
        /\ Len(order) \in Nat /\ DOMAIN order' = 1..(Len(order) + 1)
    BY <1>3, <1>5
  <2>2. \A i \in 1..Len(order) : order'[i] = order[i]
    BY <1>3, <1>5
  <2>3. /\ q' \in Seq(Ix) /\ Len(q) \in Nat
        /\ Len(q') = Len(q) - 1 /\ \A i \in 1..Len(q') : q'[i] = q[i + 1]
    BY <1>1, <1>3
  <2>4. scan' \in Seq(Ix)
    BY <1>5
  <2> QED
    BY <2>1, <2>2, <2>3, <2>4
<1>7. LineLen' = LineLen /\ LineLen = Len(order) + Len(q)
  BY <1>6 DEF LineLen
<1>8. ASSUME NEW i \in 1..LineLen PROVE Line(i)' = Line(i)
  <2>1. CASE i <= Len(order)
    BY <1>6, <2>1 DEF Line
  <2>2. CASE i = Len(order) + 1
    <3>1. ~(i <= Len(order)) /\ i <= Len(order) + 1 /\ i - Len(order) = 1
      BY <1>6, <2>2
    <3> QED
      BY <1>4, <1>6, <2>2, <3>1 DEF Line
  <2>3. CASE i > Len(order) + 1
    <3>1. ~(i <= Len(order)) /\ ~(i <= Len(order'))
      BY <1>6, <2>3
    <3>2. i - Len(order') \in 1..Len(q') /\ (i - Len(order')) + 1 = i - Len(order)
      BY <1>6, <1>7, <2>3
    <3>3. q'[i - Len(order')] = q[i - Len(order)]
      BY <1>6, <3>2
    <3> QED
      BY <1>1, <3>1, <3>3 DEF Line
  <2> QED
    BY <1>6, <1>7, <2>1, <2>2, <2>3
<1> QED
  BY <1>4, <1>5, <1>6, <1>7, <1>8

\* The line stays as it is when its head is sorted: the lists begin to be taken.
LEMMA PopKeeps ==
  ASSUME GraphTypes, Active => KahnOK, G!Pop PROVE GraphTypes' /\ (Active' => KahnOK')
<1>1. /\ phase = "sort" /\ scan = <<>> /\ q # <<>>
      /\ UNCHANGED <<input, nodes, edges, phase, adj, indegree, read>>
      /\ order' = Append(order, nodes[Head(q)]) /\ scan' = adj[Head(q)] /\ q' = Tail(q)
  BY DEF G!Pop
<1>2. /\ Active /\ Active' /\ KahnOK /\ Ix' = Ix /\ G!NodeSet' = G!NodeSet /\ Entered' = Entered
      /\ (G!Distinct(nodes)' <=> G!Distinct(nodes))
      /\ \A w : Looked(w)' <=> Looked(w)
  BY <1>1 DEF Active, Ix, G!NodeSet, Entered, Looked, G!Distinct
<1>3. q \in Seq(Ix) /\ order \in Seq(G!NodeSet) /\ adj \in [Ix -> Seq(Ix)]
  BY <1>2 DEF GraphTypes
<1>4. PICK u \in Ix :
           /\ u = q[1]
           /\ order' = Append(order, nodes[u]) /\ scan' = adj[u]
           /\ nodes[u] \in G!NodeSet /\ adj[u] \in Seq(Ix) /\ Len(q) > 0
           /\ order' \in Seq(G!NodeSet) /\ q' \in Seq(Ix) /\ scan' \in Seq(Ix) /\ order' # <<>>
           /\ Len(order') = Len(order) + 1 /\ order'[Len(order) + 1] = nodes[u]
           /\ \A i \in 1..Len(order) : order'[i] = order[i]
           /\ Len(q') = Len(q) - 1 /\ Len(q) \in Nat /\ Len(order) \in Nat
           /\ DOMAIN order' = 1..(Len(order) + 1)
           /\ LineLen' = LineLen /\ LineLen = Len(order) + Len(q)
           /\ \A i \in 1..LineLen : Line(i)' = Line(i)
  BY PopLine
<1>5. u = q[1] /\ order' = Append(order, nodes[u]) /\ scan' = adj[u] /\ adj[u] \in Seq(Ix) /\ Len(q) > 0
  BY <1>4
<1>6. /\ order' \in Seq(G!NodeSet) /\ q' \in Seq(Ix) /\ scan' \in Seq(Ix) /\ order' # <<>>
      /\ Len(order') = Len(order) + 1 /\ order'[Len(order) + 1] = nodes[u]
      /\ \A i \in 1..Len(order) : order'[i] = order[i]
      /\ Len(q) \in Nat /\ Len(order) \in Nat
      /\ DOMAIN order' = 1..(Len(order) + 1)
  BY <1>4
<1>7. GraphTypes'
  <2>1. adj' \in [Ix -> Seq(Ix)] /\ indegree' \in [Ix -> Nat]
    BY <1>1, <1>2 DEF GraphTypes
  <2>2. read' \in Nat /\ read' <= Len(nodes) /\ nodes # <<>> /\ G!Distinct(nodes)
    BY <1>1, <1>2 DEF GraphTypes
  <2>3. nodes \in Seq(NodeKeys) /\ edges \in Seq([from : NodeKeys, to : NodeKeys])
        /\ input \in G!Graphs \cup G!ProfileInputs
    BY DEF GraphTypes
  <2> QED
    BY <1>1, <1>2, <1>6, <2>1, <2>2, <2>3 DEF GraphTypes
<1>8. LineLen' = LineLen /\ LineLen = Len(order) + Len(q)
  BY <1>4
<1>9. \A i \in 1..LineLen : Line(i)' = Line(i)
  BY <1>4
<1>10. \A w \in Ix : InLine(w)' <=> InLine(w)
  BY <1>1, <1>8, <1>9 DEF InLine
\* The node was queued, so it is not sorted yet.
<1>11. \A i \in 1..Len(order) : order[i] # nodes[u]
  <2> SUFFICES ASSUME NEW i \in 1..Len(order), order[i] = nodes[u] PROVE FALSE
    OBVIOUS
  <2>1. i \in 1..LineLen /\ Line(i) = nodes[u]
    BY <1>2, LineShape
  <2>2. 1 \in 1..Len(q)
    BY <1>5, <1>6
  <2>3. Len(order) + 1 \in 1..LineLen /\ Line(Len(order) + 1) = nodes[u]
    BY <1>2, <1>4, <2>2, LineShape
  <2>4. i = Len(order) + 1
    BY <1>2, <2>1, <2>3 DEF KahnOK, LineOK
  <2> QED
    BY <1>6, <2>4
<1>12. /\ DOMAIN order = 1..Len(order)
       /\ \A k : Placed(k)' <=> Placed(k) \/ k = nodes[u]
       /\ ~Placed(nodes[u])
  <2>1. DOMAIN order = 1..Len(order)
    BY <1>3
  <2>2. ~Placed(nodes[u])
    BY <1>11, <2>1 DEF Placed
  <2>3. ASSUME NEW k PROVE Placed(k)' <=> Placed(k) \/ k = nodes[u]
    <3>1. ASSUME Placed(k)' PROVE Placed(k) \/ k = nodes[u]
      <4>1. PICK i \in 1..(Len(order) + 1) : order'[i] = k
        BY <1>6, <3>1 DEF Placed
      <4>2. CASE i = Len(order) + 1
        BY <1>6, <4>1, <4>2
      <4>3. CASE i # Len(order) + 1
        <5>1. i \in 1..Len(order)
          BY <1>6, <4>3
        <5> QED
          BY <1>6, <2>1, <4>1, <5>1 DEF Placed
      <4> QED
        BY <4>2, <4>3
    <3>2. ASSUME Placed(k) PROVE Placed(k)'
      <4>1. PICK i \in 1..Len(order) : order[i] = k
        BY <2>1, <3>2 DEF Placed
      <4>2. i \in DOMAIN order' /\ order'[i] = k
        BY <1>6, <4>1
      <4> QED
        BY <4>2 DEF Placed
    <3>3. ASSUME k = nodes[u] PROVE Placed(k)'
      <4>1. Len(order) + 1 \in DOMAIN order' /\ order'[Len(order) + 1] = k
        BY <1>6, <3>3
      <4> QED
        BY <4>1 DEF Placed
    <3> QED
      BY <3>1, <3>2, <3>3
  <2> QED
    BY <2>1, <2>2, <2>3
<1>13. ASSUME NEW x \in Ix, NEW p \in DOMAIN adj[x] PROVE Pending(x, p)' <=> Pending(x, p)
  <2>0. p \in 1..Len(adj[x]) /\ Len(adj[x]) \in Nat
    BY <1>2, ActiveShape
  <2>1. Pending(x, p) <=> ~Placed(nodes[x])
    <3>1. ASSUME Placed(nodes[x]), Pending(x, p) PROVE FALSE
      <4>1. p > Len(adj[x]) - Len(scan)
        BY <3>1 DEF Pending
      <4> QED
        BY <1>1, <2>0, <4>1
    <3> QED
      BY <3>1 DEF Pending
  <2>1a. Pending(x, p)' <=> (Placed(nodes[x])' => nodes[x] = nodes[u] /\ p > Len(adj[x]) - Len(adj[u]))
    BY <1>1, <1>5, <1>6 DEF Pending
  <2>2. CASE x = u
    <3>1. p > Len(adj[x]) - Len(adj[u])
      BY <2>0, <2>2
    <3> QED
      BY <1>12, <2>1, <2>1a, <2>2, <3>1
  <2>3. CASE x # u
    <3>1. nodes[x] # nodes[u]
      BY <1>2, <2>3, ActiveShape
    <3>2. Placed(nodes[x])' <=> Placed(nodes[x])
      BY <1>1, <1>12, <3>1
    <3> QED
      BY <2>1, <2>1a, <3>1, <3>2
  <2> QED
    BY <2>2, <2>3
<1>14. \A w : Into(w)' = Into(w)
  BY <1>1, <1>2, <1>13 DEF Into
<1>15. ListsOK'
  BY <1>1, <1>2 DEF KahnOK, ListsOK
<1>16. ScanOK'
  <2>1. nodes'[u] = order'[Len(order')]
    BY <1>1, <1>6
  <2>2. Len(scan') = Len(adj[u]) /\ Len(adj[u]) \in Nat
    BY <1>5
  <2>3. \A i \in 1..Len(scan') : scan'[i] = adj'[u][Len(adj'[u]) - Len(scan') + i]
    BY <1>1, <1>5, <2>2
  <2>4. order' # <<>> /\ Len(scan') <= Len(adj'[u])
    BY <1>1, <1>6, <2>2
  <2> QED
    BY <1>2, <2>1, <2>3, <2>4 DEF ScanOK
<1>17. DegreesOK'
  BY <1>1, <1>2, <1>14 DEF KahnOK, DegreesOK
<1>18. LineOK'
  <2>1. LineOK
    BY <1>2 DEF KahnOK
  <2> QED
    BY <1>1, <1>2, <1>8, <1>9, <1>10, <2>1 DEF LineOK
<1>19. DependsOK'
  <2> SUFFICES ASSUME NEW x \in Ix, NEW p \in DOMAIN adj[x], NEW i \in 1..LineLen,
                      Line(i)' = nodes[adj[x][p]]
               PROVE  \E j \in 1..Len(order') : j < i /\ Line(j)' = nodes[x]
    BY <1>1, <1>2, <1>8 DEF DependsOK
  <2>1. PICK j \in 1..Len(order) : j < i /\ Line(j) = nodes[x]
    BY <1>2, <1>9 DEF KahnOK, DependsOK
  <2>2. j \in 1..Len(order') /\ j \in 1..LineLen
    BY <1>6, <1>8, <2>1
  <2> QED
    BY <1>9, <2>1, <2>2
<1>20. RootsOK'
  <2>1. \A w : IsRoot(w)' <=> IsRoot(w)
    BY <1>1, <1>2 DEF IsRoot
  <2>2. RootsOK
    BY <1>2 DEF KahnOK
  <2> QED
    BY <1>1, <1>2, <1>8, <1>9, <2>1, <2>2 DEF RootsOK
<1> QED
  BY <1>7, <1>15, <1>16, <1>17, <1>18, <1>19, <1>20 DEF KahnOK

\* The entry the loop takes next, and what leads to its target then.
LEMMA RelaxTakes ==
  ASSUME GraphTypes, Active, ListsOK, ScanOK, DegreesOK, G!Relax
  PROVE  \E u \in Ix : \E p \in DOMAIN adj[u] : \E v \in Ix :
           /\ v = Head(scan) /\ adj[u][p] = v /\ <<u, p>> \in Into(v)
           /\ \A w \in Ix : Into(w)' = Into(w) \ {<<u, p>>}
           /\ nodes[u] = order[Len(order)] /\ p = Len(adj[u]) - Len(scan) + 1
           /\ Len(scan) <= Len(adj[u])
           /\ \A i \in 1..Len(scan) : scan[i] = adj[u][Len(adj[u]) - Len(scan) + i]
<1>1. /\ scan # <<>> /\ scan' = Tail(scan)
      /\ UNCHANGED <<nodes, edges, adj, order>>
  BY DEF G!Relax
<1>2. scan \in Seq(Ix) /\ order \in Seq(G!NodeSet)
  BY DEF GraphTypes
<1>3. /\ Len(scan) \in Nat /\ Len(scan) > 0 /\ Len(scan') = Len(scan) - 1
      /\ Head(scan) = scan[1] /\ scan[1] \in Ix
  BY <1>1, <1>2
<1>4. order # <<>> /\ Len(order) \in DOMAIN order
  BY <1>1, <1>2 DEF ScanOK
<1>5. PICK u \in Ix :
        /\ nodes[u] = order[Len(order)]
        /\ Len(scan) <= Len(adj[u])
        /\ \A i \in 1..Len(scan) : scan[i] = adj[u][Len(adj[u]) - Len(scan) + i]
  BY <1>4 DEF ScanOK
<1>6. Len(adj[u]) \in Nat /\ DOMAIN adj[u] = 1..Len(adj[u])
  BY ActiveShape
<1>7. PICK p \in DOMAIN adj[u] : p = Len(adj[u]) - Len(scan) + 1
  <2>1. Len(adj[u]) - Len(scan) + 1 \in 1..Len(adj[u])
    <3>1. \A x, y \in Nat : y > 0 /\ y <= x => x - y + 1 \in 1..x
      OBVIOUS
    <3> QED
      BY <1>3, <1>5, <1>6, <3>1
  <2> QED
    BY <1>6, <2>1
<1>8. PICK v \in Ix : v = Head(scan) /\ adj[u][p] = v
  <2>1. scan[1] = adj[u][Len(adj[u]) - Len(scan) + 1]
    BY <1>3, <1>5
  <2> QED
    BY <1>3, <1>7, <2>1
<1>9. /\ \A k : Placed(k)' <=> Placed(k)
      /\ Placed(nodes[u])
  BY <1>1, <1>4, <1>5 DEF Placed
<1>10. Pending(u, p)
  BY <1>3, <1>5, <1>6, <1>7 DEF Pending
<1>11. ASSUME NEW x \in Ix, NEW r \in DOMAIN adj[x]
       PROVE  Pending(x, r)' <=> Pending(x, r) /\ <<x, r>> # <<u, p>>
  <2>1. Pending(x, r)' <=> (Placed(nodes[x]) => nodes[x] = nodes[u] /\ r > Len(adj[x]) - Len(scan'))
    BY <1>1, <1>5, <1>9 DEF Pending
  <2>2. Pending(x, r) <=> (Placed(nodes[x]) => nodes[x] = nodes[u] /\ r > Len(adj[x]) - Len(scan))
    BY <1>5 DEF Pending
  <2>3. CASE x # u
    <3>1. nodes[x] # nodes[u]
      BY <2>3, ActiveShape
    <3> QED
      BY <2>1, <2>2, <2>3, <3>1
  <2>4. CASE x = u
    <3>1. r > Len(adj[u]) - Len(scan') <=> r > Len(adj[u]) - Len(scan) /\ r # p
      BY <1>3, <1>6, <1>7, <2>4
    <3> QED
      BY <1>9, <2>1, <2>2, <2>4, <3>1
  <2> QED
    BY <2>3, <2>4
<1>12. <<u, p>> \in Into(v)
  BY <1>8, <1>10, IntoElements
<1>13. ASSUME NEW w \in Ix PROVE Into(w)' = Into(w) \ {<<u, p>>}
  <2> SUFFICES ASSUME NEW t PROVE t \in Into(w)' <=> t \in Into(w) /\ t # <<u, p>>
    OBVIOUS
  <2>0. Ix' = Ix
    BY <1>1 DEF Ix
  <2>1. t \in Into(w)' <=> \E x \in Ix : \E r \in DOMAIN adj[x] :
                             t = <<x, r>> /\ adj[x][r] = w /\ Pending(x, r)'
    BY <1>1, <2>0 DEF Into
  <2>2. t \in Into(w) <=> \E x \in Ix : \E r \in DOMAIN adj[x] :
                            t = <<x, r>> /\ adj[x][r] = w /\ Pending(x, r)
    BY IntoElements
  <2> QED
    BY <1>11, <2>1, <2>2
<1> QED
  BY <1>5, <1>7, <1>8, <1>12, <1>13

\* An edge that is taken releases its target, which is queued when it was the last.
LEMMA RelaxKeeps ==
  ASSUME GraphTypes, Active => KahnOK, G!Relax PROVE GraphTypes' /\ (Active' => KahnOK')
<1>1. /\ phase = "sort" /\ scan # <<>> /\ scan' = Tail(scan)
      /\ UNCHANGED <<input, nodes, edges, phase, adj, order, read>>
  BY DEF G!Relax
<1>2. /\ Active /\ Active' /\ KahnOK /\ Ix' = Ix /\ G!NodeSet' = G!NodeSet /\ Entered' = Entered
      /\ (G!Distinct(nodes)' <=> G!Distinct(nodes))
      /\ \A w \in Ix : Looked(w) /\ Looked(w)'
  BY <1>1 DEF Active, Ix, G!NodeSet, Entered, Looked, G!Distinct
<1>3. /\ scan \in Seq(Ix) /\ q \in Seq(Ix) /\ indegree \in [Ix -> Nat] /\ adj \in [Ix -> Seq(Ix)]
      /\ order \in Seq(G!NodeSet)
  BY <1>2 DEF GraphTypes
<1>4. PICK u \in Ix : \E p \in DOMAIN adj[u] : \E v \in Ix :
           /\ v = Head(scan) /\ adj[u][p] = v /\ <<u, p>> \in Into(v)
           /\ \A w \in Ix : Into(w)' = Into(w) \ {<<u, p>>}
           /\ nodes[u] = order[Len(order)] /\ p = Len(adj[u]) - Len(scan) + 1
           /\ Len(scan) <= Len(adj[u])
           /\ \A i \in 1..Len(scan) : scan[i] = adj[u][Len(adj[u]) - Len(scan) + i]
  BY <1>2, RelaxTakes DEF KahnOK
<1>5. PICK p \in DOMAIN adj[u] : \E v \in Ix :
           /\ v = Head(scan) /\ adj[u][p] = v /\ <<u, p>> \in Into(v)
           /\ \A w \in Ix : Into(w)' = Into(w) \ {<<u, p>>}
  BY <1>4
<1>6. PICK v \in Ix :
           /\ v = Head(scan) /\ adj[u][p] = v /\ <<u, p>> \in Into(v)
           /\ \A w \in Ix : Into(w)' = Into(w) \ {<<u, p>>}
  BY <1>5
<1>7. /\ indegree' = [indegree EXCEPT ![v] = @ - 1]
      /\ q' = IF indegree'[v] = 0 THEN Append(q, v) ELSE q
  BY <1>6 DEF G!Relax
<1>8. \A w \in Ix : IsFiniteSet(Into(w)) /\ indegree[w] = Cardinality(Into(w))
  BY <1>2 DEF KahnOK, DegreesOK
<1>9. /\ IsFiniteSet(Into(v)') /\ Cardinality(Into(v)') = indegree[v] - 1
      /\ indegree[v] \in Nat \ {0}
  <2>1. Into(v)' = Into(v) \ {<<u, p>>}
    BY <1>6
  <2>2. /\ IsFiniteSet(Into(v) \ {<<u, p>>})
        /\ Cardinality(Into(v) \ {<<u, p>>}) = Cardinality(Into(v)) - 1
    BY <1>6, <1>8, FS_RemoveElement
  <2>3. Cardinality(Into(v) \ {<<u, p>>}) \in Nat
    BY <2>2, FS_CardinalityType
  <2>4. indegree[v] \in Nat
    BY <1>3
  <2> QED
    BY <1>8, <2>1, <2>2, <2>3, <2>4
<1>10. ASSUME NEW w \in Ix \ {v} PROVE Into(w)' = Into(w) /\ indegree'[w] = indegree[w]
  <2>1. <<u, p>> \notin Into(w)
    <3>1. \A x, y, z, t : <<x, y>> = <<z, t>> => x = z /\ y = t
      OBVIOUS
    <3> QED
      BY <1>6, <3>1, IntoElements
  <2>2. Into(w)' = Into(w) \ {<<u, p>>}
    BY <1>6
  <2> QED
    BY <1>3, <1>7, <2>1, <2>2
<1>11. indegree'[v] = indegree[v] - 1 /\ indegree'[v] \in Nat
  BY <1>3, <1>7, <1>9
<1>12. indegree' \in [Ix -> Nat]
  BY <1>3, <1>7, <1>11
<1>13. scan' \in Seq(Ix) /\ q' \in Seq(Ix)
  BY <1>1, <1>3, <1>7
<1>14. GraphTypes'
  <2>1. read' \in Nat /\ read' <= Len(nodes) /\ nodes # <<>> /\ G!Distinct(nodes)
    BY <1>1, <1>2 DEF GraphTypes
  <2>2. nodes \in Seq(NodeKeys) /\ edges \in Seq([from : NodeKeys, to : NodeKeys])
        /\ input \in G!Graphs \cup G!ProfileInputs
    BY DEF GraphTypes
  <2> QED
    BY <1>1, <1>2, <1>3, <1>12, <1>13, <2>1, <2>2 DEF GraphTypes
<1>15. ListsOK'
  BY <1>1, <1>2 DEF KahnOK, ListsOK
<1>16. ScanOK'
  <2>0. /\ Len(scan) \in Nat /\ Len(scan') = Len(scan) - 1 /\ Len(adj[u]) \in Nat
        /\ \A i \in 1..Len(scan') : scan'[i] = scan[i + 1]
    BY <1>1, <1>2, <1>3, ActiveShape
  <2>1. /\ nodes[u] = order[Len(order)] /\ Len(scan) <= Len(adj[u])
        /\ \A i \in 1..Len(scan) : scan[i] = adj[u][Len(adj[u]) - Len(scan) + i]
    BY <1>4
  <2>2. ASSUME NEW i \in 1..Len(scan') PROVE scan'[i] = adj[u][Len(adj[u]) - Len(scan') + i]
    <3>1. i + 1 \in 1..Len(scan) /\ Len(adj[u]) - Len(scan) + (i + 1) = Len(adj[u]) - Len(scan') + i
      <4>1. \A x, y, z \in Int : x - y + (z + 1) = x - (y - 1) + z
        OBVIOUS
      <4>2. /\ i \in Int /\ i + 1 \in 1..Len(scan)
            /\ Len(scan) \in Int /\ Len(adj[u]) \in Int /\ Len(scan') = Len(scan) - 1
        BY <2>0
      <4>3. Len(adj[u]) - Len(scan) + (i + 1) = Len(adj[u]) - (Len(scan) - 1) + i
        BY <4>1, <4>2
      <4> QED
        BY <4>2, <4>3
    <3>2. scan[i + 1] = adj[u][Len(adj[u]) - Len(scan) + (i + 1)]
      BY <2>1, <3>1
    <3> QED
      BY <2>0, <3>1, <3>2
  <2>3. Len(scan') <= Len(adj[u])
    BY <2>0, <2>1
  <2>4. order # <<>>
    BY <1>1, <1>2 DEF KahnOK, ScanOK
  <2> QED
    BY <1>1, <1>2, <2>1, <2>2, <2>3, <2>4 DEF ScanOK
<1>17. DegreesOK'
  <2>1. IsFiniteSet(Into(v)') /\ indegree'[v] = Cardinality(Into(v)')
    BY <1>9, <1>11
  <2>2. \A w \in Ix \ {v} : IsFiniteSet(Into(w)') /\ indegree'[w] = Cardinality(Into(w)')
    BY <1>8, <1>10
  <2> QED
    BY <1>2, <2>1, <2>2 DEF DegreesOK
<1>18. \A w : IsRoot(w)' <=> IsRoot(w)
  BY <1>1, <1>2 DEF IsRoot
<1>19. /\ \A w \in Ix : InLine(w) <=> indegree[w] = 0
       /\ ~InLine(v)
  BY <1>2, <1>9 DEF KahnOK, LineOK
<1>20. CASE indegree'[v] # 0
  <2>1. q' = q
    BY <1>7, <1>20
  <2>2. LineLen' = LineLen /\ \A i : Line(i)' = Line(i)
    BY <1>1, <2>1 DEF LineLen, Line
  <2>3. \A w \in Ix : InLine(w)' <=> InLine(w)
    BY <1>1, <2>2 DEF InLine
  <2>4. \A w \in Ix : InLine(w)' <=> indegree'[w] = 0
    BY <1>9, <1>10, <1>19, <1>20, <2>3
  <2>5. LineOK'
    <3>1. \A i, j \in 1..LineLen : Line(i) = Line(j) => i = j
      BY <1>2 DEF KahnOK, LineOK
    <3> QED
      BY <1>2, <2>2, <2>4, <3>1 DEF LineOK
  <2>6. DependsOK'
    BY <1>1, <1>2, <2>2 DEF KahnOK, DependsOK
  <2>7. RootsOK'
    <3>1. RootsOK
      BY <1>2 DEF KahnOK
    <3> QED
      BY <1>1, <1>2, <1>18, <2>2, <3>1 DEF RootsOK
  <2> QED
    BY <1>14, <1>15, <1>16, <1>17, <2>5, <2>6, <2>7 DEF KahnOK
<1>21. CASE indegree'[v] = 0
  <2>1. q' = Append(q, v)
    BY <1>7, <1>21
  <2>2. Into(v)' = {}
    BY <1>9, <1>11, <1>21, FS_EmptySet
  <2>3. PICK n : n = LineLen + 1
    OBVIOUS
  <2>4. /\ LineLen' = n /\ LineLen \in Nat
        /\ \A i \in 1..LineLen : Line(i)' = Line(i)
        /\ Line(n)' = nodes[v]
        /\ \A w \in Ix : InLine(w)' <=> InLine(w) \/ w = v
    BY <1>1, <1>2, <2>1, <2>3, LineGrows
  <2>5. /\ \A i, j \in 1..LineLen' : Line(i)' = Line(j)' => i = j
        /\ DependsOK'
    BY <1>1, <1>2, <1>19, <2>1, <2>2, NodeQueued DEF KahnOK
  <2>6. LineOK'
    <3>1. \A w \in Ix : InLine(w)' <=> indegree'[w] = 0
      BY <1>10, <1>19, <1>21, <2>4
    <3> QED
      BY <1>2, <2>5, <3>1 DEF LineOK
  <2>7. RootsOK'
    <3> SUFFICES ASSUME NEW x \in Ix, NEW w \in Ix \ {x}, NEW i \in 1..LineLen',
                        IsRoot(x), IsRoot(w) => x < w, Line(i)' = nodes[w]
                 PROVE  \E j \in 1..LineLen' : j < i /\ Line(j)' = nodes[x]
      BY <1>1, <1>2, <1>18 DEF RootsOK
    <3>1. i \in 1..LineLen \/ i = n
      BY <2>3, <2>4
    <3>2. CASE i \in 1..LineLen
      <4>1. PICK j \in 1..LineLen : j < i /\ Line(j) = nodes[x]
        BY <1>2, <2>4, <3>2 DEF KahnOK, RootsOK
      <4> QED
        BY <2>3, <2>4, <4>1
    <3>3. CASE i = n
      <4>1. indegree[x] = 0
        BY <1>2, RootIsFree DEF KahnOK
      <4>2. PICK j \in 1..LineLen : Line(j) = nodes[x]
        BY <1>19, <4>1 DEF InLine
      <4> QED
        BY <2>3, <2>4, <3>3, <4>2
    <3> QED
      BY <3>1, <3>2, <3>3
  <2> QED
    BY <1>14, <1>15, <1>16, <1>17, <2>5, <2>6, <2>7 DEF KahnOK
<1> QED
  BY <1>20, <1>21

-----------------------------------------------------------------------------
(* The workflow graph: the verdict.                                        *)

\* A function on 1..k is a sequence.
LEMMA SeqOf ==
  ASSUME NEW S, NEW k \in Nat, NEW f \in [1..k -> S]
  PROVE  f \in Seq(S) /\ Len(f) = k
OBVIOUS

\* The other steps: into the loops, or to an error before them.
LEMMA InChainRange ==
  ASSUME NEW m \in 2..5, NEW n \in Nat, NEW i \in 1..(m * n)
  PROVE  G!InChain(i, m) \in 1..m /\ ((i - 1) \div m) + 1 \in 1..n
<1>1. CASE m = 2
  BY <1>1 DEF G!InChain
<1>2. CASE m = 3
  BY <1>2 DEF G!InChain
<1>3. CASE m = 4
  BY <1>3 DEF G!InChain
<1>4. CASE m = 5
  BY <1>4 DEF G!InChain
<1> QED
  BY <1>1, <1>2, <1>3, <1>4

\* A profile has three stages or five.
LEMMA StagesShape ==
  ASSUME NEW p
  PROVE  /\ Len(G!ProfileStages(p)) \in {3, 5} /\ G!ProfileStages(p) \in Seq(StageNames)
         /\ DOMAIN G!ProfileStages(p) = 1..Len(G!ProfileStages(p))
         /\ \A i \in 1..Len(G!ProfileStages(p)) : G!ProfileStages(p)[i] \in StageNames
         /\ \A i, j \in 1..Len(G!ProfileStages(p)) : G!ProfileStages(p)[i] = G!ProfileStages(p)[j] => i = j
<1>1. CASE p = "ingest_only"
  BY <1>1 DEF G!ProfileStages, StageNames
<1>2. CASE p # "ingest_only"
  BY <1>2 DEF G!ProfileStages, StageNames
<1> QED
  BY <1>1, <1>2

\* The shape of what a profile is given.
LEMMA ProfileShape ==
  ASSUME input \in G!Graphs \cup G!ProfileInputs, input.profile # "none"
  PROVE  /\ input.profile \in {"ingest_only", "full_rag_index"} /\ input.hasDoc \in BOOLEAN
         /\ input.assets \in Seq(Assets) /\ Len(input.assets) \in Nat
         /\ DOMAIN input.assets = 1..Len(input.assets)
         /\ \A i \in 1..Len(input.assets) : input.assets[i] \in Assets
<1>1. input \in G!ProfileInputs
  BY DEF G!Graphs
<1>2. /\ input.profile \in {"ingest_only", "full_rag_index"} /\ input.hasDoc \in BOOLEAN
      /\ input.assets \in G!Seqs(Assets, MaxAssets)
  BY <1>1 DEF G!ProfileInputs
<1>3. PICK k \in 0..MaxAssets : input.assets \in [1..k -> Assets]
  BY <1>2 DEF G!Seqs
<1>4. k \in Nat
  BY GraphAssumption
<1>5. input.assets \in Seq(Assets)
  BY <1>3, <1>4
<1> QED
  BY <1>2, <1>5

\* The chains are nodes and edges as a graph has them.
LEMMA ChainTypes ==
  ASSUME NEW st \in Seq(StageNames), Len(st) \in {3, 5}, NEW xs \in Seq(Assets)
  PROVE  /\ G!ChainNodes(st, xs) \in Seq(NodeKeys)
         /\ G!ChainEdges(st, xs) \in Seq([from : NodeKeys, to : NodeKeys])
         /\ DOMAIN G!ChainNodes(st, xs) = 1..(Len(st) * Len(xs))
         /\ DOMAIN G!ChainEdges(st, xs) = 1..((Len(st) - 1) * Len(xs))
         /\ Len(G!ChainNodes(st, xs)) = Len(st) * Len(xs)
         /\ Len(G!ChainEdges(st, xs)) = (Len(st) - 1) * Len(xs)
<1>1. Len(xs) \in Nat /\ \A i \in 1..Len(xs) : xs[i] \in Assets
  OBVIOUS
<1>2. \A i \in 1..Len(st) : st[i] \in StageNames
  OBVIOUS
<1>3. Len(st) * Len(xs) \in Nat /\ (Len(st) - 1) * Len(xs) \in Nat
  <2>1. CASE Len(st) = 3
    BY <1>1, <2>1
  <2>2. CASE Len(st) = 5
    BY <1>1, <2>2
  <2> QED
    BY <2>1, <2>2
<1>4. ASSUME NEW i \in 1..(Len(st) * Len(xs))
      PROVE  <<st[G!InChain(i, Len(st))], G!OfAsset(i, Len(st), xs)>> \in NodeKeys
  <2>1. G!InChain(i, Len(st)) \in 1..Len(st) /\ ((i - 1) \div Len(st)) + 1 \in 1..Len(xs)
    <3>1. Len(st) \in 2..5
      OBVIOUS
    <3> QED
      BY <1>1, <3>1, InChainRange
  <2> QED
    BY <1>1, <1>2, <2>1 DEF NodeKeys, G!OfAsset
<1>5. ASSUME NEW i \in 1..((Len(st) - 1) * Len(xs))
      PROVE  /\ <<st[G!InChain(i, Len(st) - 1)], G!OfAsset(i, Len(st) - 1, xs)>> \in NodeKeys
             /\ <<st[G!InChain(i, Len(st) - 1) + 1], G!OfAsset(i, Len(st) - 1, xs)>> \in NodeKeys
  <2>1. G!InChain(i, Len(st) - 1) \in 1..(Len(st) - 1) /\ ((i - 1) \div (Len(st) - 1)) + 1 \in 1..Len(xs)
    <3>1. Len(st) - 1 \in 2..5
      OBVIOUS
    <3> QED
      BY <1>1, <3>1, InChainRange
  <2>2. G!InChain(i, Len(st) - 1) \in 1..Len(st) /\ G!InChain(i, Len(st) - 1) + 1 \in 1..Len(st)
    BY <2>1
  <2> QED
    BY <1>1, <1>2, <2>1, <2>2 DEF NodeKeys, G!OfAsset
<1> DEFINE N == Len(st) * Len(xs)  E == (Len(st) - 1) * Len(xs)
           f == G!ChainNodes(st, xs)  g == G!ChainEdges(st, xs)
<1>6. DOMAIN f = 1..N /\ \A i \in 1..N : f[i] \in NodeKeys
  BY <1>4 DEF G!ChainNodes
<1>7. DOMAIN g = 1..E /\ \A i \in 1..E : g[i] \in [from : NodeKeys, to : NodeKeys]
  BY <1>5 DEF G!ChainEdges
<1>8. f = [i \in 1..N |-> f[i]] /\ g = [i \in 1..E |-> g[i]]
  BY <1>6, <1>7 DEF G!ChainNodes, G!ChainEdges
<1>9. N \in Nat /\ E \in Nat
  BY <1>3
<1> HIDE DEF N, E, f, g
<1>10. f \in [1..N -> NodeKeys] /\ g \in [1..E -> [from : NodeKeys, to : NodeKeys]]
  BY <1>6, <1>7, <1>8
<1>11. f \in Seq(NodeKeys) /\ Len(f) = N
  BY <1>9, <1>10, SeqOf
<1>12. g \in Seq([from : NodeKeys, to : NodeKeys]) /\ Len(g) = E
  <2> DEFINE EdgeRecords == [from : NodeKeys, to : NodeKeys]
  <2>1. g \in [1..E -> EdgeRecords]
    BY <1>10
  <2> HIDE DEF EdgeRecords
  <2>2. g \in Seq(EdgeRecords) /\ Len(g) = E
    BY <1>9, <2>1, SeqOf
  <2> QED
    BY <2>2 DEF EdgeRecords
<1> QED
  BY <1>6, <1>7, <1>11, <1>12 DEF N, E, f, g

LEMMA InitTypes ==
  ASSUME G!Init PROVE GraphTypes /\ ~Active
<1>1. nodes \in Seq(NodeKeys) /\ edges \in Seq([from : NodeKeys, to : NodeKeys])
  BY DEF G!Init
<1> QED
  BY <1>1 DEF G!Init, GraphTypes, Active

LEMMA BuildTypes ==
  ASSUME GraphTypes, G!RejectInput \/ G!BuildDag \/ G!TakeGraph \/ G!Empty
  PROVE  GraphTypes' /\ ~Active'
<1>1. CASE G!RejectInput
  BY <1>1 DEF G!RejectInput, G!Stop, GraphTypes, Active
<1>2. CASE G!Empty
  BY <1>2 DEF G!Empty, G!Stop, GraphTypes, Active
<1>3. CASE G!BuildDag
  <2>1. /\ nodes' = G!ChainNodes(G!ProfileStages(input.profile), input.assets)
        /\ edges' = G!ChainEdges(G!ProfileStages(input.profile), input.assets)
        /\ UNCHANGED <<input, q, scan, order, read>> /\ phase = "build" /\ phase' = "index"
        /\ input.profile # "none"
    BY <1>3 DEF G!BuildDag
  <2>2. input.assets \in Seq(Assets)
    BY <2>1, ProfileShape DEF GraphTypes
  <2>3. nodes' \in Seq(NodeKeys) /\ edges' \in Seq([from : NodeKeys, to : NodeKeys])
    BY <2>1, <2>2, StagesShape, ChainTypes
  <2> QED
    BY <2>1, <2>3 DEF GraphTypes, Active
<1>4. CASE G!TakeGraph
  <2>1. /\ nodes' = input.nodes /\ edges' = input.edges
        /\ UNCHANGED <<input, q, scan, order, read>> /\ phase = "build" /\ phase' = "index"
        /\ input.profile = "none"
    BY <1>4 DEF G!TakeGraph
  <2>2. input \in G!Graphs
    BY <2>1 DEF GraphTypes, G!ProfileInputs
  <2>3. input.nodes \in Seq(EndPoints)
    BY <2>2, GraphAssumption DEF G!Graphs
  <2>4. PICK k \in 0..MaxEdges : input.edges \in [1..k -> [from : EndPoints, to : EndPoints]]
    BY <2>2 DEF G!Graphs, G!Seqs
  <2>5. k \in Nat /\ [from : EndPoints, to : EndPoints] \subseteq [from : NodeKeys, to : NodeKeys]
    BY GraphAssumption DEF NodeKeys
  <2>6. input.edges \in [1..k -> [from : NodeKeys, to : NodeKeys]]
    BY <2>4, <2>5
  <2> DEFINE E == [from : NodeKeys, to : NodeKeys]
  <2> HIDE DEF E
  <2>7. input.edges \in Seq(E)
    BY <2>5, <2>6, SeqOf DEF E
  <2>8. nodes' \in Seq(NodeKeys)
    BY <2>1, <2>3 DEF NodeKeys
  <2> QED
    BY <2>1, <2>7, <2>8 DEF GraphTypes, Active, E
<1> QED
  BY <1>1, <1>2, <1>3, <1>4

LEMMA FinishTypes ==
  ASSUME GraphTypes, G!Finish PROVE GraphTypes' /\ ~Active'
BY DEF G!Finish, G!Stop, GraphTypes, Active

\* A nonempty set of numbers has a least.
LEMMA LeastNatural ==
  ASSUME NEW S \in SUBSET Nat, S # {} PROVE \E m \in S : \A k \in S : m <= k
<1> DEFINE F == {1..n : n \in S}
<1>1. F \subseteq FiniteSubsetsOf(Nat) /\ F # {}
  <2>1. ASSUME NEW n \in S PROVE IsFiniteSet(1..n) /\ 1..n \subseteq Nat
    BY FS_Interval
  <2> QED
    BY <2>1 DEF FiniteSubsetsOf
<1>2. PICK L \in F : \A M \in F : <<M, L>> \notin StrictSubsetOrdering(Nat)
  <2> HIDE DEF F
  <2> QED
    BY <1>1, FS_StrictSubsetOrderingWellFounded, WFMin
<1>3. PICK m \in S : L = 1..m
  OBVIOUS
<1>4. ASSUME NEW k \in S, k < m PROVE FALSE
  <2>1. 1..k \subseteq 1..m /\ m \in 1..m /\ m \notin 1..k /\ 1..k \subseteq Nat /\ 1..m \subseteq Nat
    BY <1>4
  <2>2. <<1..k, 1..m>> \in StrictSubsetOrdering(Nat)
    BY <2>1 DEF StrictSubsetOrdering
  <2> QED
    BY <1>2, <1>3, <2>2
<1> QED
  BY <1>4

LEMMA CountTo ==
  ASSUME NEW n \in Nat PROVE IsFiniteSet(1..n) /\ Cardinality(1..n) = n
BY FS_Interval

\* With an empty queue, every node is sorted exactly when as many are as there are.
LEMMA AllPlaced ==
  ASSUME GraphTypes, Active, LineOK, q = <<>>
  PROVE  Len(order) = Len(nodes) <=> \A v \in Ix : Placed(nodes[v])
<1>1. /\ Ix = 1..Len(nodes) /\ Len(nodes) \in Nat /\ G!NodeSet = {nodes[i] : i \in Ix}
      /\ Len(order) \in Nat /\ \A i \in 1..Len(order) : order[i] \in G!NodeSet
      /\ DOMAIN order = 1..Len(order)
  BY GraphShape, ActiveShape
<1>2. \A i, j \in 1..Len(order) : order[i] = order[j] => i = j
  <2>1. LineLen = Len(order) /\ \A i \in 1..Len(order) : Line(i) = order[i]
    BY <1>1 DEF LineLen, Line
  <2> QED
    BY <2>1 DEF LineOK
<1> DEFINE F == [i \in Ix |-> nodes[i]]  O == [i \in 1..Len(order) |-> order[i]]
<1>3. F \in Bijection(Ix, G!NodeSet)
  BY <1>1, ActiveShape DEF Bijection, Injection, Surjection, IsInjective
<1>4. IsFiniteSet(Ix) /\ Cardinality(Ix) = Len(nodes)
  BY <1>1, CountTo
<1>5. IsFiniteSet(G!NodeSet) /\ Cardinality(G!NodeSet) = Len(nodes)
  <2>1. ExistsBijection(Ix, G!NodeSet)
    BY <1>3 DEF ExistsBijection
  <2> QED
    BY <1>4, <2>1, FS_Bijection
<1>6. O \in Injection(1..Len(order), G!NodeSet)
  BY <1>1, <1>2 DEF Injection, IsInjective
<1>7. Cardinality(1..Len(order)) = Len(order)
  BY <1>1, CountTo
<1>8. Len(order) = Len(nodes) <=> O \in Surjection(1..Len(order), G!NodeSet)
  <2> HIDE DEF O
  <2> QED
    BY <1>5, <1>6, <1>7, FS_Injection
<1>9. O \in [1..Len(order) -> G!NodeSet]
  BY <1>1
<1>10. O \in Surjection(1..Len(order), G!NodeSet) <=> \A k \in G!NodeSet : \E i \in 1..Len(order) : O[i] = k
  <2> HIDE DEF O
  <2> QED
    BY <1>9 DEF Surjection
<1>11. (\A k \in G!NodeSet : \E i \in 1..Len(order) : O[i] = k) <=> \A v \in Ix : Placed(nodes[v])
  <2>1. \A i \in 1..Len(order) : O[i] = order[i]
    OBVIOUS
  <2> HIDE DEF O
  <2>2. \A k : Placed(k) <=> \E i \in 1..Len(order) : O[i] = k
    BY <1>1, <2>1 DEF Placed
  <2>3. \A k \in G!NodeSet : \E v \in Ix : k = nodes[v]
    BY <1>1
  <2>4. \A v \in Ix : nodes[v] \in G!NodeSet
    BY <1>1
  <2> QED
    BY <2>2, <2>3, <2>4
<1> QED
  BY <1>8, <1>10, <1>11

\* Which edges there are, in terms of the lists.
LEMMA EdgesListed ==
  ASSUME GraphTypes, Active, ListsOK, phase = "sort", NEW v \in Ix, NEW w \in Ix
  PROVE  G!EdgeOf(nodes[v], nodes[w]) <=> \E p \in DOMAIN adj[v] : adj[v][p] = w
<1>1. Entered = Len(edges) /\ DOMAIN edges = 1..Len(edges)
  BY GraphShape DEF Entered
<1>2. ASSUME G!EdgeOf(nodes[v], nodes[w]) PROVE \E p \in DOMAIN adj[v] : adj[v][p] = w
  <2>1. PICK i \in 1..Len(edges) : edges[i] = [from |-> nodes[v], to |-> nodes[w]]
    BY <1>1, <1>2 DEF G!EdgeOf
  <2>2. PICK u \in Ix : \E p \in DOMAIN adj[u] : nodes[u] = edges[i].from /\ nodes[adj[u][p]] = edges[i].to
    BY <1>1 DEF ListsOK
  <2>3. PICK p \in DOMAIN adj[u] : nodes[u] = nodes[v] /\ nodes[adj[u][p]] = nodes[w]
    BY <2>1, <2>2
  <2>4. u = v /\ adj[u][p] = w
    BY <2>3, ActiveShape
  <2> QED
    BY <2>3, <2>4
<1>3. ASSUME NEW p \in DOMAIN adj[v], adj[v][p] = w PROVE G!EdgeOf(nodes[v], nodes[w])
  <2>1. PICK i \in 1..Entered : edges[i] = [from |-> nodes[v], to |-> nodes[adj[v][p]]]
    BY DEF ListsOK
  <2> QED
    BY <1>1, <1>3, <2>1 DEF G!EdgeOf
<1> QED
  BY <1>2, <1>3

\* A graph that comes to be sorted is well formed.
LEMMA EdgesBetweenNodes ==
  ASSUME GraphTypes, Active, ListsOK, phase = "sort"
  PROVE  G!WellFormed
<1>1. Entered = Len(edges) /\ DOMAIN edges = 1..Len(edges) /\ G!NodeSet = {nodes[i] : i \in Ix}
  BY GraphShape DEF Entered
<1>2. ASSUME NEW i \in DOMAIN edges PROVE edges[i].from \in G!NodeSet /\ edges[i].to \in G!NodeSet
  <2>1. PICK u \in Ix : \E p \in DOMAIN adj[u] : nodes[u] = edges[i].from /\ nodes[adj[u][p]] = edges[i].to
    BY <1>1 DEF ListsOK
  <2>2. PICK p \in DOMAIN adj[u] : nodes[u] = edges[i].from /\ nodes[adj[u][p]] = edges[i].to
    BY <2>1
  <2>3. adj[u][p] \in Ix
    BY ActiveShape
  <2> QED
    BY <1>1, <2>2, <2>3
<1>3. G!Distinct(nodes)
  BY DEF GraphTypes
<1> QED
  BY <1>2, <1>3 DEF G!WellFormed

\* When all nodes are sorted there is no cycle: of any of them, nothing leads to the first.
LEMMA SortedAcyclic ==
  ASSUME GraphTypes, Active, phase = "sort", KahnOK, \A v \in Ix : Placed(nodes[v])
  PROVE  G!Acyclic
<1> SUFFICES ASSUME NEW S \in SUBSET G!NodeSet, S # {}
             PROVE  \E k \in S : \A j \in S : ~G!EdgeOf(j, k)
  <2>1. \A S \in (SUBSET G!NodeSet) \ {{}} : S \in SUBSET G!NodeSet /\ S # {}
    OBVIOUS
  <2> QED
    BY <2>1 DEF G!Acyclic
<1>1. /\ Len(order) \in Nat /\ DOMAIN order = 1..Len(order) /\ G!NodeSet = {nodes[i] : i \in Ix}
      /\ \A i \in 1..Len(order) : i \in 1..LineLen /\ Line(i) = order[i]
  BY GraphShape, ActiveShape, LineShape
<1> DEFINE P == {i \in 1..Len(order) : order[i] \in S}
<1>2. P \in SUBSET Nat /\ P # {}
  BY <1>1 DEF Placed
<1>3. PICK m \in P : \A i \in P : m <= i
  <2> HIDE DEF P
  <2> QED
    BY <1>2, LeastNatural
<1>4. PICK w \in Ix : nodes[w] = order[m]
  BY <1>1
<1>5. ASSUME NEW j \in S, G!EdgeOf(j, order[m]) PROVE FALSE
  <2>1. PICK v \in Ix : nodes[v] = j
    BY <1>1
  <2>2. PICK p \in DOMAIN adj[v] : adj[v][p] = w
    BY <1>4, <1>5, <2>1, EdgesListed DEF KahnOK
  <2>3. m \in 1..LineLen /\ Line(m) = nodes[adj[v][p]]
    BY <1>1, <1>4, <2>2
  <2>4. PICK i \in 1..Len(order) : i < m /\ Line(i) = nodes[v]
    BY <2>3 DEF KahnOK, DependsOK
  <2>5. i \in P
    BY <1>1, <2>1, <2>4
  <2> QED
    BY <1>1, <1>3, <2>4, <2>5
<1> QED
  BY <1>5

\* When some are not, to each of them leads one of them.
LEMMA UnsortedCycle ==
  ASSUME GraphTypes, Active, phase = "sort", KahnOK, q = <<>>, scan = <<>>,
         NEW x \in Ix, ~Placed(nodes[x])
  PROVE  ~G!Acyclic
<1>1. /\ G!NodeSet = {nodes[i] : i \in Ix} /\ DOMAIN order = 1..Len(order) /\ Len(order) \in Nat
      /\ LineLen = Len(order) /\ \A i \in 1..Len(order) : Line(i) = order[i]
  BY GraphShape, ActiveShape, LineShape
<1> DEFINE S == {k \in G!NodeSet : ~Placed(k)}
<1>2. S \in (SUBSET G!NodeSet) \ {{}}
  <2>1. nodes[x] \in S
    BY <1>1
  <2>2. S \in SUBSET G!NodeSet /\ S # {}
    BY <2>1
  <2> HIDE DEF S
  <2> QED
    BY <2>2
<1>3. ASSUME NEW k \in S PROVE \E j \in S : G!EdgeOf(j, k)
  <2>1. PICK w \in Ix : nodes[w] = k
    BY <1>1
  <2>2. ~InLine(w)
    BY <1>1, <1>3, <2>1 DEF InLine, Placed
  <2>3. indegree[w] # 0
    BY <2>2 DEF KahnOK, LineOK, Looked
  <2>4. Into(w) # {}
    BY <2>3, FS_EmptySet DEF KahnOK, DegreesOK
  <2>5. PICK u \in Ix : \E p \in DOMAIN adj[u] : adj[u][p] = w /\ Pending(u, p)
    BY <2>4, IntoElements
  <2>6. PICK p \in DOMAIN adj[u] : adj[u][p] = w /\ Pending(u, p)
    BY <2>5
  <2>7. ~Placed(nodes[u])
    <3>1. p \in 1..Len(adj[u]) /\ Len(adj[u]) \in Nat /\ Len(scan) = 0
      BY ActiveShape
    <3> QED
      BY <2>6, <3>1 DEF Pending
  <2>8. G!EdgeOf(nodes[u], nodes[w])
    BY <2>6, EdgesListed DEF KahnOK
  <2> QED
    BY <1>1, <2>1, <2>7, <2>8
<1> QED
  BY <1>2, <1>3 DEF G!Acyclic

\* The index of a node is its place, since no key is there twice.
LEMMA NodeIndex ==
  ASSUME GraphTypes, Active, NEW v \in Ix PROVE G!IndexOf(nodes[v]) = v
<1>1. G!IndexOf(nodes[v]) \in Ix /\ nodes[G!IndexOf(nodes[v])] = nodes[v]
  BY IndexOfNode DEF G!Present, Ix
<1> QED
  BY <1>1, ActiveShape

\* Without an edge to it a node is one of the roots, and the other way round.
LEMMA RootsListed ==
  ASSUME GraphTypes, Active, ListsOK, phase = "sort", NEW v \in Ix
  PROVE  nodes[v] \in G!Roots <=> IsRoot(v)
<1>1. /\ Entered = Len(edges) /\ DOMAIN edges = 1..Len(edges) /\ G!NodeSet = {nodes[i] : i \in Ix}
      /\ G!Distinct(nodes)
  BY GraphShape DEF Entered, GraphTypes
<1>2. nodes[v] \in G!Roots <=> \A i \in DOMAIN edges : edges[i].to # nodes[v]
  BY <1>1 DEF G!Roots
<1>3. ASSUME IsRoot(v), NEW i \in DOMAIN edges PROVE edges[i].to # nodes[v]
  <2>1. PICK u \in Ix : \E p \in DOMAIN adj[u] : nodes[u] = edges[i].from /\ nodes[adj[u][p]] = edges[i].to
    BY <1>1 DEF ListsOK
  <2>2. PICK p \in DOMAIN adj[u] : nodes[adj[u][p]] = edges[i].to
    BY <2>1
  <2>3. adj[u][p] # v /\ adj[u][p] \in Ix
    BY <1>3, ActiveShape DEF IsRoot
  <2> QED
    BY <2>2, <2>3, ActiveShape
<1>4. ASSUME \A i \in DOMAIN edges : edges[i].to # nodes[v], NEW u \in Ix, NEW p \in DOMAIN adj[u],
             adj[u][p] = v
      PROVE  FALSE
  <2>1. PICK i \in 1..Entered : edges[i] = [from |-> nodes[u], to |-> nodes[adj[u][p]]]
    BY DEF ListsOK
  <2> QED
    BY <1>1, <1>4, <2>1
<1> QED
  BY <1>2, <1>3, <1>4 DEF IsRoot

\* What the order then says.
LEMMA SortedOrder ==
  ASSUME GraphTypes, Active, phase = "sort", KahnOK, q = <<>>, \A v \in Ix : Placed(nodes[v])
  PROVE  /\ G!Distinct(order)
         /\ \A j, k \in G!NodeSet : G!EdgeOf(j, k) => G!Before(j, k)
         /\ \A j \in G!Roots : \A k \in G!NodeSet \ {j} :
              k \notin G!Roots \/ G!IndexOf(j) < G!IndexOf(k) => G!Before(j, k)
<1>1. /\ G!NodeSet = {nodes[i] : i \in Ix} /\ DOMAIN order = 1..Len(order) /\ Len(order) \in Nat
      /\ LineLen = Len(order) /\ \A i \in 1..Len(order) : Line(i) = order[i]
  BY GraphShape, ActiveShape, LineShape
<1>2. G!Distinct(order)
  BY <1>1 DEF G!Distinct, KahnOK, LineOK
<1>3. ASSUME NEW j \in G!NodeSet, NEW k \in G!NodeSet, G!EdgeOf(j, k) PROVE G!Before(j, k)
  <2>1. PICK v \in Ix : nodes[v] = j
    BY <1>1
  <2>2. PICK w \in Ix : nodes[w] = k
    BY <1>1
  <2>3. PICK p \in DOMAIN adj[v] : adj[v][p] = w
    BY <1>3, <2>1, <2>2, EdgesListed DEF KahnOK
  <2>4. PICK i \in DOMAIN order : order[i] = k
    BY <2>2 DEF Placed
  <2>5. PICK h \in 1..Len(order) : h < i /\ Line(h) = j
    BY <1>1, <2>1, <2>2, <2>3, <2>4 DEF KahnOK, DependsOK
  <2> QED
    BY <1>1, <2>4, <2>5 DEF G!Before
<1>4. ASSUME NEW j \in G!Roots, NEW k \in G!NodeSet \ {j}, k \notin G!Roots \/ G!IndexOf(j) < G!IndexOf(k)
      PROVE  G!Before(j, k)
  <2>1. PICK v \in Ix : nodes[v] = j
    BY <1>1 DEF G!Roots
  <2>2. PICK w \in Ix : nodes[w] = k
    BY <1>1
  <2>3. v # w /\ IsRoot(v) /\ (IsRoot(w) => v < w)
    BY <1>4, <2>1, <2>2, NodeIndex, RootsListed DEF KahnOK
  <2>4. PICK i \in DOMAIN order : order[i] = k
    BY <2>2 DEF Placed
  <2>5. PICK h \in 1..LineLen : h < i /\ Line(h) = j
    <3>1. Looked(v) /\ i \in 1..LineLen /\ Line(i) = nodes[w]
      BY <1>1, <2>2, <2>4 DEF Looked
    <3> QED
      BY <2>1, <2>3, <3>1 DEF KahnOK, RootsOK
  <2> QED
    BY <1>1, <2>4, <2>5 DEF G!Before
<1> QED
  BY <1>2, <1>3, <1>4

\* The verdict is what it is about when the loops end, with or without an error.
LEMMA VerdictRight ==
  ASSUME GraphTypes, Active => KahnOK, G!Next, phase # "done" PROVE G!OrderIsTopological'
<1>1. CASE G!RejectInput
  BY <1>1 DEF G!RejectInput, G!Stop, G!OrderIsTopological
<1>2. CASE G!Empty
  BY <1>2 DEF G!Empty, G!Stop, G!OrderIsTopological
<1>3. CASE G!BuildDag \/ G!TakeGraph \/ G!EdgesRead \/ G!QueueNode \/ G!Start \/ G!Pop \/ G!Relax
  <2>1. phase' # "done"
    BY <1>3 DEF G!BuildDag, G!TakeGraph, G!EdgesRead, G!QueueNode, G!Start, G!Pop, G!Relax
  <2> QED
    BY <2>1 DEF G!OrderIsTopological
<1>4. CASE G!BuildIndex
  <2>1. CASE G!Distinct(nodes)
    BY <1>4, <2>1 DEF G!BuildIndex, G!OrderIsTopological
  <2>2. CASE ~G!Distinct(nodes)
    <3>1. verdict' = "DuplicateNodeKey" /\ nodes' = nodes /\ nodes # <<>>
      BY <1>4, <2>2 DEF G!BuildIndex, G!Stop
    <3>2. ~G!WellFormed'
      BY <2>2, <3>1 DEF G!WellFormed, G!Distinct
    <3> QED
      BY <3>1, <3>2 DEF G!OrderIsTopological
  <2> QED
    BY <2>1, <2>2
<1>5. CASE G!ReadEdge
  <2> DEFINE e == edges[read + 1]
  <2>1. CASE G!Present(e.from) /\ G!Present(e.to)
    <3>1. phase' = "edges"
      BY <1>5, <2>1 DEF G!ReadEdge
    <3> QED
      BY <3>1 DEF G!OrderIsTopological
  <2>2. CASE ~(G!Present(e.from) /\ G!Present(e.to))
    <3>1. verdict' = "MissingNode" /\ nodes' = nodes /\ edges' = edges /\ nodes # <<>>
      BY <1>5, <2>2 DEF G!ReadEdge, G!Stop, GraphTypes, Active
    <3>2. read + 1 \in DOMAIN edges
      BY <1>5, GraphShape DEF G!ReadEdge, GraphTypes, Active
    <3>3. e.from \notin G!NodeSet \/ e.to \notin G!NodeSet
      BY <2>2 DEF G!Present, G!NodeSet
    <3>4. ~G!WellFormed
      BY <3>2, <3>3 DEF G!WellFormed
    <3>5. G!WellFormed' <=> G!WellFormed
      BY <3>1 DEF G!WellFormed, G!Distinct, G!NodeSet
    <3> QED
      BY <3>1, <3>4, <3>5 DEF G!OrderIsTopological
  <2> QED
    BY <2>1, <2>2
<1>6. CASE G!Finish
  <2>1. /\ phase = "sort" /\ scan = <<>> /\ q = <<>>
        /\ verdict' = IF Len(order) = Len(nodes) THEN "Ok" ELSE "Cycle"
        /\ UNCHANGED <<nodes, edges, order>>
    BY <1>6 DEF G!Finish, G!Stop
  <2>2. Active /\ KahnOK /\ nodes # <<>>
    BY <2>1 DEF Active, GraphTypes
  <2>3. Len(order) = Len(nodes) <=> \A v \in Ix : Placed(nodes[v])
    BY <2>1, <2>2, AllPlaced DEF KahnOK
  <2>4. G!WellFormed
    BY <2>1, <2>2, EdgesBetweenNodes DEF KahnOK
  <2>5. /\ G!WellFormed' <=> G!WellFormed
        /\ G!Acyclic' <=> G!Acyclic
        /\ G!NodeSet' = G!NodeSet /\ G!Roots' = G!Roots /\ (G!Distinct(order)' <=> G!Distinct(order))
        /\ \A j, k : G!EdgeOf(j, k)' <=> G!EdgeOf(j, k)
        /\ \A j, k : G!Before(j, k)' <=> G!Before(j, k)
        /\ \A k : G!IndexOf(k)' = G!IndexOf(k)
    BY <2>1 DEF G!WellFormed, G!Acyclic, G!NodeSet, G!Roots, G!Distinct, G!EdgeOf, G!Before, G!IndexOf
  <2>6. CASE \A v \in Ix : Placed(nodes[v])
    <3>1. verdict' = "Ok" /\ G!Acyclic
      BY <2>1, <2>2, <2>3, <2>6, SortedAcyclic
    <3>2. /\ Len(order) = Len(nodes) /\ G!Distinct(order)
          /\ \A j, k \in G!NodeSet : G!EdgeOf(j, k) => G!Before(j, k)
          /\ \A j \in G!Roots : \A k \in G!NodeSet \ {j} :
               k \notin G!Roots \/ G!IndexOf(j) < G!IndexOf(k) => G!Before(j, k)
      BY <2>1, <2>2, <2>3, <2>6, SortedOrder
    <3> QED
      BY <2>1, <2>4, <2>5, <3>1, <3>2 DEF G!OrderIsTopological
  <2>7. CASE ~(\A v \in Ix : Placed(nodes[v]))
    <3>1. verdict' = "Cycle" /\ ~G!Acyclic
      BY <2>1, <2>2, <2>3, <2>7, UnsortedCycle
    <3> QED
      BY <2>1, <2>2, <2>5, <3>1 DEF G!OrderIsTopological
  <2> QED
    BY <2>6, <2>7
<1> QED
  BY <1>1, <1>2, <1>3, <1>4, <1>5, <1>6 DEF G!Next

-----------------------------------------------------------------------------
(* The chains of a profile.                                                *)

\* Quotient and remainder are what they are divided from.
LEMMA DivUnique ==
  ASSUME NEW n \in Nat, n > 0, NEW k \in 0..4, NEW r \in 0..(n - 1)
  PROVE  (k * n + r) \div n = k /\ (k * n + r) % n = r
<1>1. CASE k = 0
  BY <1>1
<1>2. CASE k = 1
  BY <1>2
<1>3. CASE k = 2
  BY <1>3
<1>4. CASE k = 3
  BY <1>4
<1>5. CASE k = 4
  BY <1>5
<1> QED
  BY <1>1, <1>2, <1>3, <1>4, <1>5

\* A profile that builds a graph: what its numbers are.
Chained ==
  /\ input.profile # "none" /\ phase \notin {"build", "done"}
  /\ GraphTypes /\ ChainsOK

\* The numbers of stages and assets, with what is built of them.
LEMMA ChainNumbers ==
  ASSUME Chained
  PROVE  /\ StageCount \in {3, 5} /\ AssetCount \in Nat /\ AssetCount > 0
         /\ nodes = G!ChainNodes(Stages, input.assets) /\ edges = G!ChainEdges(Stages, input.assets)
         /\ Ix = 1..(StageCount * AssetCount) /\ Len(nodes) = StageCount * AssetCount
         /\ DOMAIN edges = 1..((StageCount - 1) * AssetCount)
         /\ Len(edges) = (StageCount - 1) * AssetCount
         /\ \A i, j \in 1..StageCount : Stages[i] = Stages[j] => i = j
<1>1. /\ StageCount \in {3, 5} /\ Stages \in Seq(StageNames)
      /\ \A i, j \in 1..StageCount : Stages[i] = Stages[j] => i = j
  BY StagesShape DEF Stages, StageCount
<1>2. /\ AssetCount > 0
      /\ nodes = G!ChainNodes(Stages, input.assets) /\ edges = G!ChainEdges(Stages, input.assets)
  BY DEF Chained, ChainsOK, ChainsBuilt
<1>3. input.assets \in Seq(Assets) /\ AssetCount \in Nat
  BY ProfileShape DEF Chained, GraphTypes, AssetCount
<1>4. /\ DOMAIN nodes = 1..(StageCount * AssetCount) /\ Len(nodes) = StageCount * AssetCount
      /\ DOMAIN edges = 1..((StageCount - 1) * AssetCount)
      /\ Len(edges) = (StageCount - 1) * AssetCount
  BY <1>1, <1>2, <1>3, ChainTypes DEF StageCount, AssetCount
<1> QED
  BY <1>1, <1>2, <1>3, <1>4 DEF Ix

ChainNo(i, m) == ((i - 1) \div m) + 1

\* Entry s of chain x of chains of m, for any numbers.
LEMMA ChainPlace ==
  ASSUME NEW m \in 2..5, NEW n \in Nat, NEW x \in 1..n, NEW s \in 1..m,
         NEW u \in Int, u = (x - 1) * m + s
  PROVE  u \in 1..(m * n) /\ G!InChain(u, m) = s /\ ChainNo(u, m) = x
<1>1. CASE m = 2
  BY <1>1 DEF G!InChain, ChainNo
<1>2. CASE m = 3
  BY <1>2 DEF G!InChain, ChainNo
<1>3. CASE m = 4
  BY <1>3 DEF G!InChain, ChainNo
<1>4. CASE m = 5
  BY <1>4 DEF G!InChain, ChainNo
<1> QED
  BY <1>1, <1>2, <1>3, <1>4

\* Every place is in a chain.
LEMMA ChainSplit ==
  ASSUME NEW m \in 2..5, NEW n \in Nat, NEW i \in 1..(m * n)
  PROVE  \E x \in 1..n : \E s \in 1..m : i = (x - 1) * m + s
<1> DEFINE x == ((i - 1) \div m) + 1  s == G!InChain(i, m)
<1>1. s \in 1..m /\ x \in 1..n
  BY InChainRange
<1>2. i = (x - 1) * m + s
  <2>1. CASE m = 2
    BY <2>1 DEF G!InChain
  <2>2. CASE m = 3
    BY <2>2 DEF G!InChain
  <2>3. CASE m = 4
    BY <2>3 DEF G!InChain
  <2>4. CASE m = 5
    BY <2>4 DEF G!InChain
  <2> QED
    BY <2>1, <2>2, <2>3, <2>4
<1> HIDE DEF x, s
<1> QED
  BY <1>1, <1>2

\* Where the stages of an asset are among the nodes.
LEMMA ChainNode ==
  ASSUME Chained, NEW x \in 1..AssetCount, NEW s \in 1..StageCount
  PROVE  /\ (x - 1) * StageCount + s \in Ix
         /\ nodes[(x - 1) * StageCount + s] = <<Stages[s], input.assets[x]>>
<1>1. /\ StageCount \in 2..5 /\ AssetCount \in Nat /\ Ix = 1..(StageCount * AssetCount)
      /\ nodes = G!ChainNodes(Stages, input.assets)
  BY ChainNumbers
<1>2. PICK u \in Ix : u = (x - 1) * StageCount + s
  BY <1>1, ChainPlace
<1>3. G!InChain(u, StageCount) = s /\ ChainNo(u, StageCount) = x
  <2>1. u \in Int
    BY <1>1
  <2>2. u = (x - 1) * StageCount + s /\ StageCount \in 2..5 /\ AssetCount \in Nat
    BY <1>1, <1>2
  <2>3. ASSUME NEW m \in 2..5, NEW n \in Nat, x \in 1..n, s \in 1..m, u = (x - 1) * m + s
        PROVE  G!InChain(u, m) = s /\ ChainNo(u, m) = x
    BY <2>1, <2>3, ChainPlace
  <2> QED
    BY <2>2, <2>3
<1>4. nodes[u] = <<Stages[G!InChain(u, StageCount)], G!OfAsset(u, StageCount, input.assets)>>
  BY <1>1 DEF G!ChainNodes, StageCount, AssetCount
<1>5. G!OfAsset(u, StageCount, input.assets) = input.assets[x]
  BY <1>3 DEF G!OfAsset, ChainNo
<1> QED
  BY <1>2, <1>3, <1>4, <1>5

\* Where the edges of an asset are among the edges.
LEMMA ChainEdge ==
  ASSUME Chained, NEW x \in 1..AssetCount, NEW s \in 1..(StageCount - 1)
  PROVE  /\ (x - 1) * (StageCount - 1) + s \in DOMAIN edges
         /\ edges[(x - 1) * (StageCount - 1) + s] =
              [from |-> <<Stages[s], input.assets[x]>>, to |-> <<Stages[s + 1], input.assets[x]>>]
<1>1. /\ StageCount - 1 \in 2..5 /\ AssetCount \in Nat
      /\ DOMAIN edges = 1..((StageCount - 1) * AssetCount)
      /\ edges = G!ChainEdges(Stages, input.assets)
  BY ChainNumbers
<1>2. PICK i \in DOMAIN edges : i = (x - 1) * (StageCount - 1) + s
  BY <1>1, ChainPlace
<1>3. G!InChain(i, StageCount - 1) = s /\ ChainNo(i, StageCount - 1) = x
  <2>1. i \in Int
    BY <1>1
  <2>2. i = (x - 1) * (StageCount - 1) + s /\ StageCount - 1 \in 2..5 /\ AssetCount \in Nat
    BY <1>1, <1>2
  <2>3. ASSUME NEW m \in 2..5, NEW n \in Nat, x \in 1..n, s \in 1..m, i = (x - 1) * m + s
        PROVE  G!InChain(i, m) = s /\ ChainNo(i, m) = x
    BY <2>1, <2>3, ChainPlace
  <2> QED
    BY <2>2, <2>3
<1>4. edges[i] =
        [from |-> <<Stages[G!InChain(i, StageCount - 1)], G!OfAsset(i, StageCount - 1, input.assets)>>,
         to   |-> <<Stages[G!InChain(i, StageCount - 1) + 1], G!OfAsset(i, StageCount - 1, input.assets)>>]
  BY <1>1 DEF G!ChainEdges, StageCount, AssetCount
<1>5. G!OfAsset(i, StageCount - 1, input.assets) = input.assets[x]
  BY <1>3 DEF G!OfAsset, ChainNo
<1> QED
  BY <1>2, <1>3, <1>4, <1>5

\* Entry x of stage s in the order that goes through the stages one after the other.
LEMMA GoalPlace ==
  ASSUME NEW m \in 2..5, NEW n \in Nat, NEW x \in 1..n, NEW s \in 1..m
  PROVE  /\ (s - 1) * n + x \in 1..(n * m)
         /\ (((s - 1) * n + x - 1) \div n) + 1 = s /\ (((s - 1) * n + x - 1) % n) + 1 = x
<1>1. (s - 1) * n + x - 1 = (s - 1) * n + (x - 1) /\ s - 1 \in 0..4 /\ x - 1 \in 0..(n - 1) /\ n > 0
  BY Z3
<1>2. ((s - 1) * n + (x - 1)) \div n = s - 1 /\ ((s - 1) * n + (x - 1)) % n = x - 1
  BY <1>1, DivUnique
<1>3. (s - 1) * n + x \in 1..(n * m)
  <2>1. s \in {1, 2, 3, 4, 5} /\ m \in {2, 3, 4, 5}
    OBVIOUS
  <2>2. CASE m = 2
    BY <2>1, <2>2
  <2>3. CASE m = 3
    BY <2>1, <2>3
  <2>4. CASE m = 4
    BY <2>1, <2>4
  <2>5. CASE m = 5
    BY <2>1, <2>5
  <2> QED
    BY <2>1, <2>2, <2>3, <2>4, <2>5
<1> QED
  BY <1>1, <1>2, <1>3

\* Every place of the order is in a stage.
LEMMA GoalSplit ==
  ASSUME NEW m \in 2..5, NEW n \in Nat, NEW i \in 1..(n * m)
  PROVE  \E s \in 1..m : \E x \in 1..n : i = (s - 1) * n + x
<1>1. CASE i <= n
  <2>1. 1 \in 1..m /\ i \in 1..n /\ i = (1 - 1) * n + i
    BY <1>1
  <2> QED
    BY <2>1
<1>2. CASE n < i /\ i <= 2 * n
  <2>1. 2 \in 1..m /\ i - n \in 1..n /\ i = (2 - 1) * n + (i - n)
    BY <1>2
  <2> QED
    BY <2>1
<1>3. CASE 2 * n < i /\ i <= 3 * n
  <2>1. 3 \in 1..m
    BY <1>3
  <2>2. i - 2 * n \in 1..n /\ i = (3 - 1) * n + (i - 2 * n)
    BY <1>3
  <2> QED
    BY <2>1, <2>2
<1>4. CASE 3 * n < i /\ i <= 4 * n
  <2>1. 4 \in 1..m
    BY <1>4
  <2>2. i - 3 * n \in 1..n /\ i = (4 - 1) * n + (i - 3 * n)
    BY <1>4
  <2> QED
    BY <2>1, <2>2
<1>5. CASE 4 * n < i
  <2>1. m = 5
    BY <1>5
  <2>2. i - 4 * n \in 1..n /\ i = (5 - 1) * n + (i - 4 * n)
    BY <1>5, <2>1
  <2> QED
    BY <2>1, <2>2
<1> QED
  BY <1>1, <1>2, <1>3, <1>4, <1>5

\* What is at a place of the order.
LEMMA GoalAt ==
  ASSUME StageCount \in {3, 5}, AssetCount \in Nat, NEW x \in 1..AssetCount, NEW s \in 1..StageCount,
         NEW i, i = (s - 1) * AssetCount + x
  PROVE  i \in 1..(AssetCount * StageCount) /\ Goal(i) = <<Stages[s], input.assets[x]>>
<1>1. /\ i \in 1..(AssetCount * StageCount)
      /\ ((i - 1) \div AssetCount) + 1 = s /\ ((i - 1) % AssetCount) + 1 = x
  <2>1. StageCount \in 2..5
    OBVIOUS
  <2> QED
    BY <2>1, GoalPlace
<1> QED
  BY <1>1 DEF Goal

\* Places in the chains are the same only when chain and entry are.
LEMMA PlaceUnique ==
  ASSUME NEW m \in 2..5, NEW n \in Nat, NEW x \in 1..n, NEW y \in 1..n, NEW s \in 1..m, NEW t \in 1..m,
         (x - 1) * m + s = (y - 1) * m + t
  PROVE  x = y /\ s = t
<1>1. CASE m = 2
  BY <1>1
<1>2. CASE m = 3
  BY <1>2
<1>3. CASE m = 4
  BY <1>3
<1>4. CASE m = 5
  BY <1>4
<1> QED
  BY <1>1, <1>2, <1>3, <1>4

\* The nodes, taken as n chains of m entries.
ChainFacts(m, n) ==
  /\ m \in {3, 5} /\ m \in 2..5 /\ m - 1 \in 2..5 /\ n \in Nat /\ n > 0
  /\ Ix = 1..(m * n) /\ Len(nodes) = m * n /\ Len(edges) = (m - 1) * n
  /\ \A u \in Ix : \E x \in 1..n : \E s \in 1..m : u = (x - 1) * m + s
  /\ \A x \in 1..n : \A s \in 1..m :
       (x - 1) * m + s \in Ix /\ nodes[(x - 1) * m + s] = <<Stages[s], input.assets[x]>>

\* All of that, for given numbers.
LEMMA ChainSteps ==
  ASSUME Chained, NEW m, NEW n, m = StageCount, n = AssetCount PROVE ChainFacts(m, n)
<1>1. m \in {3, 5} /\ n \in Nat /\ n > 0 /\ m \in 2..5 /\ m - 1 \in 2..5
  BY ChainNumbers
<1>2. Ix = 1..(m * n) /\ Len(nodes) = m * n /\ Len(edges) = (m - 1) * n
  BY ChainNumbers
<1>3. ASSUME NEW u \in Ix PROVE \E x \in 1..n : \E s \in 1..m : u = (x - 1) * m + s
  <2>1. u \in 1..(m * n)
    BY <1>2
  <2> QED
    BY <1>1, <2>1, ChainSplit
<1>4. ASSUME NEW x \in 1..n, NEW s \in 1..m
      PROVE  (x - 1) * m + s \in Ix /\ nodes[(x - 1) * m + s] = <<Stages[s], input.assets[x]>>
  BY ChainNode
<1> QED
  BY <1>1, <1>2, <1>3, <1>4 DEF ChainFacts

\* The chains depend on the input only.
LEMMA SameChains ==
  ASSUME input' = input
  PROVE  /\ Stages' = Stages /\ StageCount' = StageCount /\ AssetCount' = AssetCount
         /\ \A i : Goal(i)' = Goal(i)
BY DEF Stages, StageCount, AssetCount, Goal

\* Steps that build the graph, and those that end with a verdict.
LEMMA ChainsBuild ==
  ASSUME GraphTypes, ChainsOK, G!RejectInput \/ G!BuildDag \/ G!TakeGraph \/ G!Empty \/ G!Finish
  PROVE  ChainsOK'
<1>1. CASE G!RejectInput \/ G!Empty \/ G!Finish
  <2>1. phase' = "done"
    BY <1>1 DEF G!RejectInput, G!Empty, G!Finish, G!Stop
  <2> QED
    BY <2>1 DEF ChainsOK, ChainsBuilt, ChainLists, ChainHeads, StageByStage, Active
<1>2. CASE G!TakeGraph
  BY <1>2 DEF G!TakeGraph, ChainsOK
<1>3. CASE G!BuildDag
  <2>1. /\ input' = input /\ phase' = "index" /\ input.profile # "none"
        /\ input.assets # <<>> /\ input.hasDoc
        /\ nodes' = G!ChainNodes(Stages, input.assets) /\ edges' = G!ChainEdges(Stages, input.assets)
    BY <1>3 DEF G!BuildDag, Stages
  <2>2. input.assets \in Seq(Assets)
    BY <2>1, ProfileShape DEF GraphTypes
  <2>3. AssetCount > 0
    BY <2>1, <2>2 DEF AssetCount
  <2> QED
    BY <2>1, <2>3, SameChains DEF ChainsOK, ChainsBuilt, ChainLists, ChainHeads, StageByStage, Active
<1> QED
  BY <1>1, <1>2, <1>3

\* No list has an entry yet.
LEMMA ChainsIndex ==
  ASSUME GraphTypes, ChainsOK, G!BuildIndex PROVE ChainsOK'
<1>1. /\ UNCHANGED <<input, nodes, edges, q, scan, order, read>> /\ phase = "index" /\ read = 0
      /\ adj' = [i \in Ix |-> <<>>] /\ phase' \in {"edges", "done"}
  BY DEF G!BuildIndex, GraphTypes, G!Stop, Ix
<1> SUFFICES ASSUME input.profile # "none", phase' = "edges" PROVE ChainsOK'
  BY <1>1 DEF ChainsOK, ChainsBuilt, ChainLists, ChainHeads, StageByStage, Active
<1>2. Chained
  BY <1>1 DEF Chained
<1>3. PICK m : m = StageCount
  OBVIOUS
<1>4. PICK n : n = AssetCount
  OBVIOUS
<1>5. m \in {3, 5} /\ n \in Nat /\ \A x \in 1..n : \A s \in 1..m : (x - 1) * m + s \in Ix
  <2>1. ChainFacts(m, n)
    BY <1>2, <1>3, <1>4, ChainSteps
  <2> QED
    BY <2>1 DEF ChainFacts
<1>6. Stages' = Stages /\ StageCount' = m /\ AssetCount' = n /\ Entered' = 0
  BY <1>1, <1>3, <1>4, SameChains DEF Entered
<1>7. ChainsBuilt'
  BY <1>1, <1>3, <1>4, <1>6 DEF ChainsOK, ChainsBuilt
<1>8. ASSUME NEW x \in 1..n, NEW s \in 1..m
      PROVE  /\ adj'[(x - 1) * m + s] = <<>>
             /\ ~((x - 1) * (m - 1) + s <= 0)
  <2>1. (x - 1) * m + s \in Ix
    BY <1>5
  <2>2. ~((x - 1) * (m - 1) + s <= 0)
    <3>1. m = 3 \/ m = 5
      BY <1>5
    <3>2. CASE m = 3
      BY <1>5, <3>2
    <3>3. CASE m = 5
      BY <1>5, <3>3
    <3> QED
      BY <3>1, <3>2, <3>3
  <2> QED
    BY <1>1, <2>1, <2>2
<1>9. ChainLists'
  BY <1>6, <1>8 DEF ChainLists
<1> QED
  BY <1>1, <1>7, <1>9 DEF ChainsOK, ChainHeads, StageByStage

\* An edge of a chain goes from a node to the next.
LEMMA ChainsRead ==
  ASSUME GraphTypes, Active => KahnOK, ChainsOK, G!ReadEdge PROVE ChainsOK'
<1>1. /\ phase = "edges" /\ read < Len(edges) /\ read' = read + 1
      /\ UNCHANGED <<input, nodes, edges, q, scan, order>> /\ phase' \in {"edges", "done"}
  BY DEF G!ReadEdge, G!Stop
<1> SUFFICES ASSUME input.profile # "none", phase' = "edges" PROVE ChainsOK'
  BY <1>1 DEF ChainsOK, ChainsBuilt, ChainLists, ChainHeads, StageByStage, Active
<1>2. Chained /\ Active /\ read \in Nat
  BY <1>1 DEF Chained, Active, GraphTypes
<1>3. PICK m : m = StageCount
  OBVIOUS
<1>4. PICK n : n = AssetCount
  OBVIOUS
<1>5. /\ m \in {3, 5} /\ m \in 2..5 /\ m - 1 \in 2..5 /\ n \in Nat /\ Len(edges) = (m - 1) * n
      /\ \A x \in 1..n : \A s \in 1..m :
           (x - 1) * m + s \in Ix /\ nodes[(x - 1) * m + s] = <<Stages[s], input.assets[x]>>
  <2>1. ChainFacts(m, n)
    BY <1>2, <1>3, <1>4, ChainSteps
  <2> QED
    BY <2>1 DEF ChainFacts
<1>6. PICK x \in 1..n : \E s \in 1..(m - 1) : read + 1 = (x - 1) * (m - 1) + s
  <2>1. read + 1 \in 1..((m - 1) * n)
    <3>1. Len(edges) \in Nat
      BY GraphShape
    <3> QED
      BY <1>1, <1>2, <1>5, <3>1
  <2> QED
    BY <1>5, <2>1, ChainSplit
<1>7. PICK s \in 1..(m - 1) : read + 1 = (x - 1) * (m - 1) + s
  BY <1>6
<1>8. /\ edges[read + 1].from = <<Stages[s], input.assets[x]>>
      /\ edges[read + 1].to = <<Stages[s + 1], input.assets[x]>>
  <2>1. edges[(x - 1) * (StageCount - 1) + s] =
          [from |-> <<Stages[s], input.assets[x]>>, to |-> <<Stages[s + 1], input.assets[x]>>]
    BY <1>2, <1>3, <1>4, ChainEdge
  <2> QED
    BY <1>3, <1>7, <2>1
<1>9. s \in 1..m /\ s + 1 \in 1..m /\ s < m
  BY <1>5
<1>10. PICK u \in Ix : u = (x - 1) * m + s
  BY <1>5, <1>9
<1>11. /\ nodes[u] = <<Stages[s], input.assets[x]>>
       /\ u + 1 \in Ix /\ nodes[u + 1] = <<Stages[s + 1], input.assets[x]>>
  <2>1. (x - 1) * m + (s + 1) = u + 1
    <3>1. \A z, t \in Int : z + (t + 1) = (z + t) + 1
      OBVIOUS
    <3>2. m = 3 \/ m = 5
      BY <1>5
    <3>3. (x - 1) * m \in Int /\ s \in Int
      BY <1>5, <3>2
    <3> QED
      BY <1>10, <3>1, <3>3
  <2>2. nodes[u] = <<Stages[s], input.assets[x]>>
    BY <1>5, <1>9, <1>10
  <2>3. (x - 1) * m + (s + 1) \in Ix /\ nodes[(x - 1) * m + (s + 1)] = <<Stages[s + 1], input.assets[x]>>
    BY <1>5, <1>9
  <2> QED
    BY <2>1, <2>2, <2>3
<1>12. adj' = [adj EXCEPT ![u] = Append(@, u + 1)]
  <2>1. G!IndexOf(edges[read + 1].from) = u /\ G!IndexOf(edges[read + 1].to) = u + 1
    BY <1>2, <1>8, <1>11, NodeIndex
  <2>2. G!Present(edges[read + 1].from) /\ G!Present(edges[read + 1].to)
    BY <1>8, <1>11 DEF G!Present, Ix
  <2> QED
    BY <2>1, <2>2 DEF G!ReadEdge
<1>13. /\ Stages' = Stages /\ StageCount' = m /\ AssetCount' = n
       /\ Entered' = read + 1 /\ Entered = read
  BY <1>1, <1>3, <1>4, SameChains DEF Entered
<1>14. ChainsBuilt'
  BY <1>1, <1>3, <1>4, <1>13 DEF ChainsOK, ChainsBuilt
<1>15. ASSUME NEW y \in 1..n, NEW t \in 1..m
       PROVE  adj'[(y - 1) * m + t] =
                IF t < m /\ (y - 1) * (m - 1) + t <= read + 1 THEN <<(y - 1) * m + t + 1>> ELSE <<>>
  <2>1. PICK w \in Ix : w = (y - 1) * m + t
    BY <1>5
  <2>2. PICK k \in Nat : k = (y - 1) * (m - 1) + t
    <3>1. m = 3 \/ m = 5
      BY <1>5
    <3>2. (y - 1) * (m - 1) + t \in Nat
      <4>1. CASE m = 3
        BY <1>5, <4>1
      <4>2. CASE m = 5
        BY <1>5, <4>2
      <4> QED
        BY <3>1, <4>1, <4>2
    <3> QED
      BY <3>2
  <2>3. adj[w] = IF t < m /\ k <= read THEN <<w + 1>> ELSE <<>>
    BY <1>2, <1>3, <1>4, <1>13, <2>1, <2>2 DEF Chained, ChainsOK, ChainLists
  <2>4. adj \in [Ix -> Seq(Ix)]
    BY <1>2 DEF GraphTypes
  <2>5. CASE w = u
    <3>1. y = x /\ t = s
      BY <1>5, <1>9, <1>10, <2>1, <2>5, PlaceUnique
    <3>2. k = read + 1
      BY <1>7, <2>2, <3>1
    <3>3. adj[u] = <<>> /\ adj'[u] = Append(adj[u], u + 1)
      BY <1>2, <1>12, <2>3, <2>4, <2>5, <3>2
    <3>4. adj'[u] = <<u + 1>>
      BY <3>3
    <3> QED
      BY <1>9, <2>1, <2>2, <2>5, <3>1, <3>2, <3>4
  <2>6. CASE w # u
    <3>1. adj'[w] = adj[w]
      BY <1>12, <2>4, <2>6
    <3>2. t < m => k # read + 1
      <4> SUFFICES ASSUME t < m, k = read + 1 PROVE FALSE
        OBVIOUS
      <4>1. t \in 1..(m - 1)
        BY <1>5
      <4>2. y = x /\ t = s
        <5>1. PICK l \in 2..5 : l = m - 1
          BY <1>5
        <5>2. (x - 1) * l + s = (y - 1) * l + t
          BY <1>7, <2>2, <5>1
        <5>3. x \in 1..n /\ s \in 1..l /\ t \in 1..l
          BY <1>6, <1>7, <4>1, <5>1
        <5> QED
          BY <1>5, <5>1, <5>2, <5>3, PlaceUnique
      <4> QED
        BY <1>10, <2>1, <2>6, <4>2
    <3>3. t < m /\ k <= read + 1 <=> t < m /\ k <= read
      BY <1>2, <2>2, <3>2
    <3> QED
      BY <2>1, <2>2, <2>3, <3>1, <3>3
  <2> QED
    BY <2>5, <2>6
<1>16. ChainLists'
  BY <1>13, <1>15 DEF ChainLists
<1> QED
  BY <1>1, <1>14, <1>16 DEF ChainsOK, ChainHeads, StageByStage

\* All edges are in the lists, none of the chains queued.
LEMMA ChainsEntered ==
  ASSUME GraphTypes, ChainsOK, G!EdgesRead PROVE ChainsOK'
<1>1. /\ phase = "edges" /\ read = Len(edges) /\ phase' = "queue" /\ read' = 0
      /\ UNCHANGED <<input, nodes, edges, adj, q>> /\ q = <<>>
  BY DEF G!EdgesRead, GraphTypes, Active
<1> SUFFICES ASSUME input.profile # "none" PROVE ChainsOK'
  BY <1>1 DEF ChainsOK
<1>2. Chained
  BY <1>1 DEF Chained
<1>3. /\ Stages' = Stages /\ StageCount' = StageCount /\ AssetCount' = AssetCount /\ Entered' = Entered
      /\ StageCount \in {3, 5}
  BY <1>1, <1>2, SameChains, ChainNumbers DEF Entered
<1>4. ChainsBuilt'
  BY <1>1, <1>3 DEF ChainsOK, ChainsBuilt
<1>5. ChainLists'
  BY <1>1, <1>3 DEF ChainsOK, ChainLists, Active
<1>6. ChainHeads'
  BY <1>1, <1>3 DEF ChainHeads
<1> QED
  BY <1>1, <1>4, <1>5, <1>6 DEF ChainsOK, StageByStage

\* Before the sort, a node waits for no edge exactly when none leads to it.
LEMMA FreeIsRoot ==
  ASSUME GraphTypes, Active, KahnOK, order = <<>>, NEW v \in Ix
  PROVE  indegree[v] = 0 <=> IsRoot(v)
<1>1. ASSUME indegree[v] = 0 PROVE IsRoot(v)
  <2>1. Into(v) = {}
    BY <1>1, FS_EmptySet DEF KahnOK, DegreesOK
  <2> QED
    BY <2>1, NothingTaken, IntoElements DEF IsRoot
<1> QED
  BY <1>1, RootIsFree DEF KahnOK

\* The first node of a chain has no edge to it, and the others have one.
LEMMA HeadsAreRoots ==
  ASSUME Chained, Active, phase # "edges",
         NEW m, NEW n, m = StageCount, n = AssetCount
  PROVE  \A x \in 1..n : \A s \in 1..m : IsRoot((x - 1) * m + s) <=> s = 1
<1>1. /\ m \in {3, 5} /\ m \in 2..5 /\ n \in Nat /\ Entered = (m - 1) * n
      /\ \A u \in Ix : \E y \in 1..n : \E t \in 1..m : u = (y - 1) * m + t
      /\ \A y \in 1..n : \A t \in 1..m : (y - 1) * m + t \in Ix
  <2>1. /\ m \in {3, 5} /\ n \in Nat /\ Len(edges) = (m - 1) * n
        /\ \A u \in Ix : \E y \in 1..n : \E t \in 1..m : u = (y - 1) * m + t
        /\ \A y \in 1..n : \A t \in 1..m : (y - 1) * m + t \in Ix
    <3>1. ChainFacts(m, n)
      BY ChainSteps
    <3> QED
      BY <3>1 DEF ChainFacts
  <2>2. Entered = Len(edges)
    BY DEF Entered
  <2> QED
    BY <2>1, <2>2
<1>2. \A y \in 1..n : \A t \in 1..m :
        adj[(y - 1) * m + t] = IF t < m /\ (y - 1) * (m - 1) + t <= Entered
                               THEN <<(y - 1) * m + t + 1>> ELSE <<>>
  BY DEF Chained, ChainsOK, ChainLists
<1> SUFFICES ASSUME NEW x \in 1..n, NEW s \in 1..m PROVE IsRoot((x - 1) * m + s) <=> s = 1
  OBVIOUS
<1>3. ASSUME s = 1, NEW u \in Ix, NEW p \in DOMAIN adj[u], adj[u][p] = (x - 1) * m + s PROVE FALSE
  <2>1. PICK y \in 1..n : \E t \in 1..m : u = (y - 1) * m + t
    BY <1>1
  <2>2. PICK t \in 1..m : u = (y - 1) * m + t
    BY <2>1
  <2>3. t < m /\ adj[u] = <<u + 1>>
    <3>1. adj[u] = IF t < m /\ (y - 1) * (m - 1) + t <= Entered THEN <<u + 1>> ELSE <<>>
      BY <1>2, <2>1, <2>2
    <3>2. adj[u] # <<>>
      BY <1>3
    <3> QED
      BY <3>1, <3>2
  <2>4. u + 1 = (x - 1) * m + s
    BY <1>3, <2>3
  <2>5. (y - 1) * m + (t + 1) = (x - 1) * m + s
    <3>1. CASE m = 3
      BY <2>1, <2>2, <2>4, <3>1
    <3>2. CASE m = 5
      BY <2>1, <2>2, <2>4, <3>2
    <3> QED
      BY <1>1, <3>1, <3>2
  <2>6. t + 1 \in 1..m
    BY <1>1, <2>2, <2>3
  <2>7. t + 1 = s
    BY <1>1, <2>1, <2>5, <2>6, PlaceUnique
  <2> QED
    BY <1>1, <1>3, <2>2, <2>7
<1>4. ASSUME s # 1 PROVE ~IsRoot((x - 1) * m + s)
  <2>1. s - 1 \in 1..m /\ s - 1 < m
    BY <1>1, <1>4
  <2>2. PICK u \in Ix : u = (x - 1) * m + (s - 1)
    BY <1>1, <2>1
  <2>3. (x - 1) * (m - 1) + (s - 1) <= Entered /\ u + 1 = (x - 1) * m + s
    <3>1. CASE m = 3
      BY <1>1, <2>1, <2>2, <3>1
    <3>2. CASE m = 5
      BY <1>1, <2>1, <2>2, <3>2
    <3> QED
      BY <1>1, <3>1, <3>2
  <2>4. adj[u] = <<u + 1>>
    BY <1>2, <2>1, <2>2, <2>3
  <2>5. 1 \in DOMAIN adj[u] /\ adj[u][1] = (x - 1) * m + s
    BY <2>3, <2>4
  <2> QED
    BY <2>5 DEF IsRoot
<1> QED
  BY <1>3, <1>4 DEF IsRoot

\* The head of a chain is queued, and no other node is.
LEMMA ChainsQueue ==
  ASSUME GraphTypes, Active => KahnOK, ChainsOK, G!QueueNode PROVE ChainsOK'
<1>1. /\ phase = "queue" /\ phase' = "queue" /\ read < Len(nodes) /\ read' = read + 1
      /\ UNCHANGED <<input, nodes, edges, adj, indegree, scan, order>>
      /\ q' = IF indegree[read + 1] = 0 THEN Append(q, read + 1) ELSE q
  BY DEF G!QueueNode
<1> SUFFICES ASSUME input.profile # "none" PROVE ChainsOK'
  BY <1>1 DEF ChainsOK
<1>2. Chained /\ Active /\ KahnOK /\ order = <<>> /\ read \in Nat /\ q \in Seq(Ix) /\ Ix = 1..Len(nodes)
  BY <1>1, GraphShape DEF Chained, Active, GraphTypes
<1>3. PICK m : m = StageCount
  OBVIOUS
<1>4. PICK n : n = AssetCount
  OBVIOUS
<1>5. /\ m \in {3, 5} /\ n \in Nat /\ Len(nodes) = m * n
      /\ \A u \in Ix : \E x \in 1..n : \E s \in 1..m : u = (x - 1) * m + s
  <2>1. ChainFacts(m, n)
    BY <1>2, <1>3, <1>4, ChainSteps
  <2> QED
    BY <2>1 DEF ChainFacts
<1>6. PICK r \in Ix : r = read + 1
  BY <1>1, <1>2, <1>5
<1>7. PICK x \in 1..n : \E s \in 1..m : r = (x - 1) * m + s
  BY <1>5, <1>6
<1>8. PICK s \in 1..m : r = (x - 1) * m + s
  BY <1>7
<1>9. indegree[r] = 0 <=> s = 1
  <2>1. IsRoot((x - 1) * m + s) <=> s = 1
    BY <1>1, <1>2, <1>3, <1>4, <1>7, <1>8, HeadsAreRoots
  <2> QED
    BY <1>2, <1>6, <1>8, <2>1, FreeIsRoot
<1>10. PICK k \in Nat : k = Len(q)
  BY <1>2
<1>11. /\ (k - 1) * m < read /\ read <= k * m
       /\ \A i \in 1..k : q[i] = (i - 1) * m + 1
  BY <1>1, <1>2, <1>3, <1>10 DEF Chained, ChainsOK, ChainHeads
<1>12. /\ Stages' = Stages /\ StageCount' = m /\ AssetCount' = n /\ Entered' = Entered
  BY <1>1, <1>3, <1>4, SameChains DEF Entered
<1>13. ChainsBuilt'
  BY <1>1, <1>3, <1>4, <1>12 DEF ChainsOK, ChainsBuilt
<1>14. ChainLists'
  BY <1>1, <1>2, <1>3, <1>4, <1>12 DEF ChainsOK, ChainLists
<1>15. ChainHeads'
  <2>1. CASE s = 1
    <3>1. q' = Append(q, r)
      BY <1>1, <1>6, <1>9, <2>1
    <3>2. x - 1 = k
      <4>1. CASE m = 3
        BY <1>2, <1>6, <1>7, <1>8, <1>10, <1>11, <2>1, <4>1
      <4>2. CASE m = 5
        BY <1>2, <1>6, <1>7, <1>8, <1>10, <1>11, <2>1, <4>2
      <4> QED
        BY <1>5, <4>1, <4>2
    <3>3. r = k * m + 1
      BY <1>8, <2>1, <3>2
    <3>4. /\ Len(q') = k + 1 /\ q'[k + 1] = r
          /\ \A i \in 1..k : q'[i] = q[i]
      BY <1>2, <1>6, <1>10, <3>1
    <3>5. ASSUME NEW i \in 1..(k + 1) PROVE q'[i] = (i - 1) * m + 1
      <4>1. CASE i = k + 1
        <5>1. (i - 1) * m = k * m
          BY <1>5, <1>10, <4>1
        <5> QED
          BY <3>3, <3>4, <4>1, <5>1
      <4>2. CASE i # k + 1
        <5>1. i \in 1..k
          BY <1>10, <4>2
        <5> QED
          BY <1>11, <3>4, <5>1
      <4> QED
        BY <4>1, <4>2
    <3>6. ((k + 1) - 1) * m < read + 1 /\ read + 1 <= (k + 1) * m
      <4>1. CASE m = 3
        BY <1>2, <1>6, <1>10, <3>3, <4>1
      <4>2. CASE m = 5
        BY <1>2, <1>6, <1>10, <3>3, <4>2
      <4> QED
        BY <1>5, <4>1, <4>2
    <3> QED
      BY <1>1, <1>12, <3>4, <3>5, <3>6 DEF ChainHeads
  <2>2. CASE s # 1
    <3>1. q' = q
      BY <1>1, <1>6, <1>9, <2>2
    <3>2. (k - 1) * m < read + 1 /\ read + 1 <= k * m
      <4>1. CASE m = 3
        BY <1>2, <1>6, <1>7, <1>8, <1>10, <1>11, <2>2, <4>1
      <4>2. CASE m = 5
        BY <1>2, <1>6, <1>7, <1>8, <1>10, <1>11, <2>2, <4>2
      <4> QED
        BY <1>5, <4>1, <4>2
    <3> QED
      BY <1>1, <1>10, <1>11, <1>12, <3>1, <3>2 DEF ChainHeads
  <2> QED
    BY <2>1, <2>2
<1> QED
  BY <1>1, <1>13, <1>14, <1>15 DEF ChainsOK, StageByStage

\* The line is the first stage of all assets.
LEMMA ChainsStart ==
  ASSUME GraphTypes, ChainsOK, G!Start PROVE ChainsOK'
<1>1. /\ phase = "queue" /\ phase' = "sort" /\ read = Len(nodes)
      /\ UNCHANGED <<input, nodes, edges, adj, q, scan, order>>
  BY DEF G!Start
<1> SUFFICES ASSUME input.profile # "none" PROVE ChainsOK'
  BY <1>1 DEF ChainsOK
<1>2. Chained /\ Active /\ order = <<>> /\ scan = <<>> /\ q \in Seq(Ix)
  BY <1>1 DEF Chained, Active, GraphTypes
<1>3. PICK m : m = StageCount
  OBVIOUS
<1>4. PICK n : n = AssetCount
  OBVIOUS
<1>5. /\ m \in {3, 5} /\ n \in Nat /\ n > 0 /\ Len(nodes) = m * n
      /\ \A x \in 1..n : \A s \in 1..m :
           (x - 1) * m + s \in Ix /\ nodes[(x - 1) * m + s] = <<Stages[s], input.assets[x]>>
  <2>1. ChainFacts(m, n)
    BY <1>2, <1>3, <1>4, ChainSteps
  <2> QED
    BY <2>1 DEF ChainFacts
<1>6. PICK k \in Nat : k = Len(q)
  BY <1>2
<1>7. /\ (k - 1) * m < m * n /\ m * n <= k * m
      /\ \A i \in 1..k : q[i] = (i - 1) * m + 1
  BY <1>1, <1>2, <1>3, <1>5, <1>6 DEF Chained, ChainsOK, ChainHeads
<1>8. k = n
  <2>1. CASE m = 3
    BY <1>5, <1>6, <1>7, <2>1
  <2>2. CASE m = 5
    BY <1>5, <1>6, <1>7, <2>2
  <2> QED
    BY <1>5, <2>1, <2>2
<1>9. /\ Stages' = Stages /\ StageCount' = m /\ AssetCount' = n /\ Entered' = Entered
      /\ \A i : Goal(i)' = Goal(i)
  BY <1>1, <1>3, <1>4, SameChains DEF Entered
<1>10. ChainsBuilt'
  BY <1>1, <1>3, <1>4, <1>9 DEF ChainsOK, ChainsBuilt
<1>11. ChainLists'
  BY <1>1, <1>2, <1>3, <1>4, <1>9 DEF ChainsOK, ChainLists
<1>12. Len(order) = 0 /\ Len(scan) = 0 /\ LineLen' = n
  BY <1>1, <1>2, <1>5, <1>6, <1>8 DEF LineLen
<1>13. ASSUME NEW i \in 1..n PROVE Line(i)' = Goal(i)
  <2>1. Line(i)' = nodes[q[i]]
    <3>1. ~(i <= Len(order)) /\ i - Len(order) = i
      BY <1>5, <1>12
    <3> QED
      BY <1>1, <3>1 DEF Line
  <2>2. nodes[q[i]] = <<Stages[1], input.assets[i]>>
    <3>1. 1 \in 1..m /\ q[i] = (i - 1) * m + 1
      BY <1>5, <1>7, <1>8
    <3> QED
      BY <1>5, <3>1
  <2>3. i = (1 - 1) * n + i
    BY <1>5
  <2>4. Goal(i) = <<Stages[1], input.assets[i]>>
    <3>1. /\ StageCount \in {3, 5} /\ AssetCount \in Nat /\ i \in 1..AssetCount /\ 1 \in 1..StageCount
          /\ i = (1 - 1) * AssetCount + i
      BY <1>3, <1>4, <1>5, <2>3
    <3> QED
      BY <3>1, GoalAt
  <2> QED
    BY <2>1, <2>2, <2>4
<1>14. n = IF Len(order) <= n * (m - 1) THEN n + Len(order) - Len(scan) ELSE n * m
  <2>1. CASE m = 3
    BY <1>5, <1>12, <2>1
  <2>2. CASE m = 5
    BY <1>5, <1>12, <2>2
  <2> QED
    BY <1>5, <2>1, <2>2
<1>15. StageByStage'
  BY <1>1, <1>2, <1>9, <1>12, <1>13, <1>14 DEF StageByStage
<1> QED
  BY <1>1, <1>10, <1>11, <1>15 DEF ChainsOK, ChainHeads

\* Of the node at a place of the order: which it is, what its list holds, and what
\* is due n places later.
LEMMA ChainNext ==
  ASSUME Chained, phase = "sort",
         NEW m, NEW n, m = StageCount, n = AssetCount,
         NEW i \in 1..(n * m), NEW u \in Ix, nodes[u] = Goal(i)
  PROVE  \/ i <= n * (m - 1) /\ adj[u] = <<u + 1>> /\ u + 1 \in Ix /\ nodes[u + 1] = Goal(i + n)
         \/ ~(i <= n * (m - 1)) /\ adj[u] = <<>>
<1>1. /\ m \in {3, 5} /\ m \in 2..5 /\ n \in Nat /\ n > 0 /\ Len(edges) = (m - 1) * n
      /\ \A y \in 1..n : \A t \in 1..m :
           (y - 1) * m + t \in Ix /\ nodes[(y - 1) * m + t] = <<Stages[t], input.assets[y]>>
  <2>1. ChainFacts(m, n)
    BY ChainSteps
  <2> QED
    BY <2>1 DEF ChainFacts
<1>2. PICK s \in 1..m : \E x \in 1..n : i = (s - 1) * n + x
  BY <1>1, GoalSplit
<1>3. PICK x \in 1..n : i = (s - 1) * n + x
  BY <1>2
<1>4. Active /\ GraphTypes /\ Entered = Len(edges)
  BY DEF Chained, Active, Entered
<1>5. nodes[u] = <<Stages[s], input.assets[x]>>
  BY <1>1, <1>3, GoalAt
<1>6. u = (x - 1) * m + s
  <2>1. /\ (x - 1) * m + s \in Ix
        /\ nodes[(x - 1) * m + s] = <<Stages[s], input.assets[x]>>
    BY <1>1, <1>2, <1>3
  <2> QED
    BY <1>4, <1>5, <2>1, ActiveShape
<1>7. adj[u] = IF s < m /\ (x - 1) * (m - 1) + s <= Entered THEN <<u + 1>> ELSE <<>>
  <2>1. adj[(x - 1) * m + s] = IF s < m /\ (x - 1) * (m - 1) + s <= Entered
                               THEN <<(x - 1) * m + s + 1>> ELSE <<>>
    BY <1>4 DEF Chained, ChainsOK, ChainLists
  <2> QED
    BY <1>6, <2>1
<1>8. CASE s < m
  <2>1. i <= n * (m - 1) /\ (x - 1) * (m - 1) + s <= Entered /\ i + n = s * n + x
    <3>0. m = 3 \/ m = 5
      BY <1>1
    <3>1. CASE m = 3
      <4>1. s = 1 \/ s = 2
        BY <1>8, <3>1
      <4> QED
        BY <1>1, <1>3, <1>4, <3>1, <4>1
    <3>2. CASE m = 5
      <4>1. s = 1 \/ s = 2 \/ s = 3 \/ s = 4
        BY <1>2, <1>8, <3>2
      <4>2. Entered = 4 * n /\ x \in 1..n /\ n \in Nat
        BY <1>1, <1>3, <1>4, <3>2
      <4>3. (x - 1) * 4 + s <= 4 * n
        BY <4>1, <4>2
      <4>4. i <= n * 4 /\ i + n = s * n + x
        <5>1. CASE s = 1
          BY <1>3, <4>2, <5>1
        <5>2. CASE s = 2
          BY <1>3, <4>2, <5>2
        <5>3. CASE s = 3
          BY <1>3, <4>2, <5>3
        <5>4. CASE s = 4
          BY <1>3, <4>2, <5>4
        <5> QED
          BY <4>1, <5>1, <5>2, <5>3, <5>4
      <4> QED
        BY <3>2, <4>2, <4>3, <4>4
    <3> QED
      BY <3>0, <3>1, <3>2
  <2>2. s + 1 \in 1..m /\ (x - 1) * m + (s + 1) = u + 1
    <3>1. CASE m = 3
      BY <1>1, <1>3, <1>6, <1>8, <3>1
    <3>2. CASE m = 5
      BY <1>1, <1>3, <1>6, <1>8, <3>2
    <3> QED
      BY <1>1, <3>1, <3>2
  <2>3. u + 1 \in Ix /\ nodes[u + 1] = <<Stages[s + 1], input.assets[x]>>
    BY <1>1, <2>2
  <2>4. Goal(i + n) = <<Stages[s + 1], input.assets[x]>>
    <3>1. i + n = ((s + 1) - 1) * n + x
      BY <1>1, <2>1
    <3> QED
      BY <1>1, <1>3, <2>2, <3>1, GoalAt
  <2> QED
    BY <1>7, <1>8, <2>1, <2>3, <2>4
<1>9. CASE ~(s < m)
  <2>1. ~(i <= n * (m - 1))
    <3>1. CASE m = 3
      BY <1>1, <1>3, <1>9, <3>1
    <3>2. CASE m = 5
      BY <1>1, <1>3, <1>9, <3>2
    <3> QED
      BY <1>1, <3>1, <3>2
  <2> QED
    BY <1>7, <1>9, <2>1
<1> QED
  BY <1>8, <1>9

\* The node sorted has one entry, to the next stage of its asset, or is at the end of its chain.
LEMMA ChainsPop ==
  ASSUME GraphTypes, Active => KahnOK, ChainsOK, G!Pop PROVE ChainsOK'
<1>1. /\ phase = "sort" /\ phase' = "sort" /\ scan = <<>>
      /\ UNCHANGED <<input, nodes, edges, phase, adj, read>>
  BY DEF G!Pop
<1> SUFFICES ASSUME input.profile # "none" PROVE ChainsOK'
  BY <1>1 DEF ChainsOK
<1>2. Chained /\ Active
  BY <1>1 DEF Chained, Active
<1>3. PICK m : m = StageCount
  OBVIOUS
<1>4. PICK n : n = AssetCount
  OBVIOUS
<1>5. m \in {3, 5} /\ n \in Nat /\ n > 0
  <2>1. ChainFacts(m, n)
    BY <1>2, <1>3, <1>4, ChainSteps
  <2> QED
    BY <2>1 DEF ChainFacts
<1>6. PICK u \in Ix :
        /\ order' = Append(order, nodes[u]) /\ scan' = adj[u] /\ Len(q) > 0
        /\ Len(order') = Len(order) + 1 /\ order'[Len(order) + 1] = nodes[u]
        /\ Len(q) \in Nat /\ Len(order) \in Nat
        /\ LineLen' = LineLen /\ LineLen = Len(order) + Len(q)
        /\ \A i \in 1..LineLen : Line(i)' = Line(i)
  BY PopLine
<1>7. PICK l \in Nat : l = Len(order)
  BY <1>6
<1>8. /\ \A i \in 1..LineLen : Line(i) = Goal(i)
      /\ LineLen = IF l <= n * (m - 1) THEN n + l - Len(scan) ELSE n * m
  BY <1>1, <1>2, <1>3, <1>4, <1>7 DEF Chained, ChainsOK, StageByStage
<1>9. Len(scan) = 0 /\ l + 1 \in 1..LineLen /\ l + 1 \in 1..(n * m)
  <2>1. Len(scan) = 0 /\ l + 1 \in 1..LineLen
    BY <1>1, <1>6, <1>7
  <2>2. CASE m = 3
    BY <1>5, <1>7, <1>8, <2>1, <2>2
  <2>3. CASE m = 5
    BY <1>5, <1>7, <1>8, <2>1, <2>3
  <2> QED
    BY <1>5, <2>1, <2>2, <2>3
<1>10. nodes[u] = Goal(l + 1)
  <2>1. \A i : i = Len(order') => Line(i)' = order'[i]
    <3>1. Len(order') <= Len(order')
      BY <1>6
    <3> QED
      BY <3>1 DEF Line
  <2>2. Line(l + 1)' = nodes[u]
    BY <1>6, <1>7, <2>1
  <2> QED
    BY <1>6, <1>8, <1>9, <2>2
<1>11. \/ l + 1 <= n * (m - 1) /\ scan' = <<u + 1>>
       \/ ~(l + 1 <= n * (m - 1)) /\ scan' = <<>>
  BY <1>1, <1>2, <1>3, <1>4, <1>6, <1>9, <1>10, ChainNext
<1>12. /\ Stages' = Stages /\ StageCount' = m /\ AssetCount' = n /\ Entered' = Entered
       /\ \A i : Goal(i)' = Goal(i)
  BY <1>1, <1>3, <1>4, SameChains DEF Entered
<1>13. ChainsBuilt'
  BY <1>1, <1>3, <1>4, <1>12 DEF ChainsOK, ChainsBuilt
<1>14. ChainLists'
  BY <1>1, <1>2, <1>3, <1>4, <1>12 DEF ChainsOK, ChainLists
<1>15. /\ LineLen = IF l + 1 <= n * (m - 1) THEN n + (l + 1) - Len(scan') ELSE n * m
       /\ ~(l + 1 <= n * (m - 1)) => scan' = <<>>
  <2>1. CASE l + 1 <= n * (m - 1)
    <3>1. Len(scan') = 1
      BY <1>11, <2>1
    <3>2. LineLen = n + l
      <4>1. CASE m = 3
        BY <1>5, <1>7, <1>8, <1>9, <2>1, <4>1
      <4>2. CASE m = 5
        BY <1>5, <1>7, <1>8, <1>9, <2>1, <4>2
      <4> QED
        BY <1>5, <4>1, <4>2
    <3> QED
      BY <1>5, <1>7, <2>1, <3>1, <3>2
  <2>2. CASE ~(l + 1 <= n * (m - 1))
    <3>1. scan' = <<>>
      BY <1>11, <2>2
    <3>2. LineLen = n * m
      <4>1. CASE m = 3
        BY <1>5, <1>7, <1>8, <1>9, <2>2, <4>1
      <4>2. CASE m = 5
        BY <1>5, <1>7, <1>8, <1>9, <2>2, <4>2
      <4> QED
        BY <1>5, <4>1, <4>2
    <3> QED
      BY <2>2, <3>1, <3>2
  <2> QED
    BY <2>1, <2>2
<1>16. StageByStage'
  BY <1>6, <1>7, <1>8, <1>12, <1>15 DEF StageByStage
<1> QED
  BY <1>1, <1>13, <1>14, <1>16 DEF ChainsOK, ChainHeads

\* The next stage is queued at the end of the line, where the order has it.
LEMMA ChainsRelax ==
  ASSUME GraphTypes, Active => KahnOK, ChainsOK, G!Relax PROVE ChainsOK'
<1>1. /\ phase = "sort" /\ phase' = "sort" /\ scan # <<>> /\ scan' = Tail(scan)
      /\ UNCHANGED <<input, nodes, edges, phase, adj, order, read>>
  BY DEF G!Relax
<1> SUFFICES ASSUME input.profile # "none" PROVE ChainsOK'
  BY <1>1 DEF ChainsOK
<1>2. /\ Chained /\ Active /\ Active' /\ KahnOK /\ KahnOK'
      /\ scan \in Seq(Ix) /\ order \in Seq(G!NodeSet)
  BY <1>1, RelaxKeeps DEF Chained, Active, GraphTypes
<1>3. PICK m : m = StageCount
  OBVIOUS
<1>4. PICK n : n = AssetCount
  OBVIOUS
<1>5. /\ m \in {3, 5} /\ n \in Nat /\ n > 0
      /\ \A u \in Ix : \E x \in 1..n : \E s \in 1..m : u = (x - 1) * m + s
  <2>1. ChainFacts(m, n)
    BY <1>2, <1>3, <1>4, ChainSteps
  <2> QED
    BY <2>1 DEF ChainFacts
<1>6. PICK u \in Ix : \E p \in DOMAIN adj[u] : \E v \in Ix :
        /\ v = Head(scan) /\ adj[u][p] = v /\ <<u, p>> \in Into(v)
        /\ \A w \in Ix : Into(w)' = Into(w) \ {<<u, p>>}
        /\ nodes[u] = order[Len(order)] /\ Len(scan) <= Len(adj[u])
  BY <1>2, RelaxTakes DEF KahnOK
<1>7. PICK p \in DOMAIN adj[u] : \E v \in Ix :
        /\ v = Head(scan) /\ adj[u][p] = v
        /\ \A w \in Ix : Into(w)' = Into(w) \ {<<u, p>>}
  BY <1>6
<1>8. PICK v \in Ix :
        /\ v = Head(scan) /\ adj[u][p] = v
        /\ \A w \in Ix : Into(w)' = Into(w) \ {<<u, p>>}
  BY <1>7
<1>9. PICK l \in Nat : l = Len(order)
  BY <1>2
<1>10. /\ \A i \in 1..LineLen : Line(i) = Goal(i)
       /\ LineLen = IF l <= n * (m - 1) THEN n + l - Len(scan) ELSE n * m
       /\ ~(l <= n * (m - 1)) => scan = <<>>
  BY <1>1, <1>2, <1>3, <1>4, <1>9 DEF Chained, ChainsOK, StageByStage
<1>11. l \in 1..LineLen /\ nodes[u] = Goal(l) /\ l \in 1..(n * m) /\ l <= n * (m - 1)
  <2>1. order # <<>> /\ l > 0
    <3>1. order # <<>>
      BY <1>1, <1>2 DEF KahnOK, ScanOK
    <3> QED
      BY <1>2, <1>9, <3>1
  <2>2. l \in 1..Len(order)
    BY <1>9, <2>1
  <2>3. l \in 1..LineLen /\ Line(l) = order[l]
    BY <1>2, <2>2, LineShape DEF Chained
  <2>4. l <= n * (m - 1)
    <3>1. CASE m = 3
      BY <1>1, <1>5, <1>9, <1>10, <3>1
    <3>2. CASE m = 5
      BY <1>1, <1>5, <1>9, <1>10, <3>2
    <3> QED
      BY <1>5, <3>1, <3>2
  <2>5. l \in 1..(n * m)
    <3>1. CASE m = 3
      BY <1>5, <2>1, <2>4, <3>1
    <3>2. CASE m = 5
      BY <1>5, <2>1, <2>4, <3>2
    <3> QED
      BY <1>5, <3>1, <3>2
  <2> QED
    BY <1>6, <1>9, <1>10, <2>3, <2>4, <2>5
<1>12. adj[u] = <<u + 1>> /\ u + 1 \in Ix /\ nodes[u + 1] = Goal(l + n)
  BY <1>1, <1>2, <1>3, <1>4, <1>6, <1>11, ChainNext
<1>13. p = 1 /\ v = u + 1 /\ Len(scan) = 1 /\ scan' = <<>>
  <2>1. p = 1 /\ v = u + 1
    BY <1>7, <1>8, <1>12
  <2>2. Len(scan) <= 1
    BY <1>6, <1>12
  <2>3. Len(scan) \in Nat /\ Len(scan) > 0 /\ Len(scan') = Len(scan) - 1 /\ scan' \in Seq(Ix)
    BY <1>1, <1>2
  <2>4. Len(scan) = 1 /\ Len(scan') = 0
    BY <2>2, <2>3
  <2> QED
    BY <2>1, <2>3, <2>4
<1>14. Into(v)' = {}
  <2> SUFFICES ASSUME NEW t \in Into(v) PROVE t = <<u, p>>
    BY <1>8
  <2>1. PICK y \in Ix : \E r \in DOMAIN adj[y] : t = <<y, r>> /\ adj[y][r] = v
    BY IntoElements
  <2>2. PICK r \in DOMAIN adj[y] : t = <<y, r>> /\ adj[y][r] = v
    BY <2>1
  <2>3. PICK x \in 1..n : \E s \in 1..m : y = (x - 1) * m + s
    BY <1>5, <2>1
  <2>4. PICK s \in 1..m : y = (x - 1) * m + s
    BY <2>3
  <2>5. adj[y] = <<y + 1>> \/ adj[y] = <<>>
    <3>1. adj[y] = IF s < m /\ (x - 1) * (m - 1) + s <= Entered THEN <<y + 1>> ELSE <<>>
      BY <1>2, <1>3, <1>4, <2>3, <2>4 DEF Chained, ChainsOK, ChainLists
    <3> QED
      BY <3>1
  <2>6. r = 1 /\ y + 1 = v
    BY <2>2, <2>5
  <2>7. y \in Nat /\ u \in Nat
    BY <1>2, <1>6, <2>1, GraphShape DEF Chained
  <2>8. y = u
    BY <1>13, <2>6, <2>7
  <2> QED
    BY <1>13, <2>2, <2>6, <2>8
<1>15. q' = Append(q, v)
  <2>1. Ix' = Ix
    BY <1>1 DEF Ix
  <2>2. indegree'[v] = Cardinality(Into(v)')
    BY <1>2, <1>8, <2>1 DEF KahnOK, DegreesOK
  <2>3. indegree'[v] = 0
    BY <1>14, <2>2, FS_EmptySet
  <2> QED
    BY <1>8, <2>3 DEF G!Relax
<1>16. PICK k : k = LineLen + 1
  OBVIOUS
<1>17. /\ LineLen' = k /\ LineLen \in Nat
       /\ \A i \in 1..LineLen : Line(i)' = Line(i)
       /\ Line(k)' = nodes[v]
  BY <1>1, <1>2, <1>8, <1>15, <1>16, LineGrows DEF Chained
<1>18. LineLen = n + l - 1
  BY <1>10, <1>11, <1>13
<1>19. k = l + n /\ k = n + l
  BY <1>5, <1>9, <1>16, <1>18
<1>20. ASSUME NEW i \in 1..k PROVE Line(i)' = Goal(i)
  <2>1. CASE i = k
    BY <1>12, <1>13, <1>17, <1>19, <2>1
  <2>2. CASE i # k
    <3>1. i \in 1..LineLen
      BY <1>16, <1>17, <2>2
    <3> QED
      BY <1>10, <1>17, <3>1
  <2> QED
    BY <2>1, <2>2
<1>21. /\ Stages' = Stages /\ StageCount' = m /\ AssetCount' = n /\ Entered' = Entered
       /\ \A i : Goal(i)' = Goal(i)
  BY <1>1, <1>3, <1>4, SameChains DEF Entered
<1>22. ChainsBuilt'
  BY <1>1, <1>3, <1>4, <1>21 DEF ChainsOK, ChainsBuilt
<1>23. ChainLists'
  BY <1>1, <1>2, <1>3, <1>4, <1>21 DEF ChainsOK, ChainLists
<1>24. StageByStage'
  <2>1. Len(order') = l /\ Len(scan') = 0 /\ l <= n * (m - 1) /\ k = n + l - 0
    BY <1>1, <1>5, <1>9, <1>11, <1>13, <1>19
  <2> QED
    BY <1>13, <1>17, <1>20, <1>21, <2>1 DEF StageByStage
<1> QED
  BY <1>1, <1>22, <1>23, <1>24 DEF ChainsOK, ChainHeads

\* A step of the algorithm keeps what is known of the chains.
LEMMA ChainsKept ==
  ASSUME GraphTypes, Active => KahnOK, ChainsOK, G!Next PROVE ChainsOK'
BY ChainsBuild, ChainsIndex, ChainsRead, ChainsEntered, ChainsQueue, ChainsStart, ChainsPop, ChainsRelax
   DEF G!Next

\* Keys are repeated exactly when assets are.
LEMMA KeysAndAssets ==
  ASSUME Chained PROVE G!Distinct(nodes) <=> G!Distinct(input.assets)
<1>1. PICK m : m = StageCount
  OBVIOUS
<1>2. PICK n : n = AssetCount
  OBVIOUS
<1>3. /\ m \in {3, 5} /\ m \in 2..5 /\ n \in Nat
      /\ \A u \in Ix : \E x \in 1..n : \E s \in 1..m : u = (x - 1) * m + s
      /\ \A x \in 1..n : \A s \in 1..m :
           (x - 1) * m + s \in Ix /\ nodes[(x - 1) * m + s] = <<Stages[s], input.assets[x]>>
      /\ \A s, t \in 1..m : Stages[s] = Stages[t] => s = t
  <2>1. /\ m \in {3, 5} /\ m \in 2..5 /\ n \in Nat
        /\ \A u \in Ix : \E x \in 1..n : \E s \in 1..m : u = (x - 1) * m + s
        /\ \A x \in 1..n : \A s \in 1..m :
             (x - 1) * m + s \in Ix /\ nodes[(x - 1) * m + s] = <<Stages[s], input.assets[x]>>
    <3>1. ChainFacts(m, n)
      BY <1>1, <1>2, ChainSteps
    <3> QED
      BY <3>1 DEF ChainFacts
  <2>2. \A s, t \in 1..m : Stages[s] = Stages[t] => s = t
    BY <1>1, ChainNumbers
  <2> QED
    BY <2>1, <2>2
<1>4. DOMAIN input.assets = 1..n /\ Ix = DOMAIN nodes
  BY <1>2, ProfileShape DEF Chained, GraphTypes, AssetCount, Ix
<1>5. ASSUME G!Distinct(nodes), NEW x \in 1..n, NEW y \in 1..n, input.assets[x] = input.assets[y]
      PROVE  x = y
  <2>1. 1 \in 1..m
    BY <1>3
  <2>2. /\ (x - 1) * m + 1 \in Ix /\ (y - 1) * m + 1 \in Ix
        /\ nodes[(x - 1) * m + 1] = nodes[(y - 1) * m + 1]
    <3>1. (x - 1) * m + 1 \in Ix /\ nodes[(x - 1) * m + 1] = <<Stages[1], input.assets[x]>>
      BY <1>3, <1>5, <2>1
    <3>2. (y - 1) * m + 1 \in Ix /\ nodes[(y - 1) * m + 1] = <<Stages[1], input.assets[y]>>
      BY <1>3, <1>5, <2>1
    <3> QED
      BY <1>5, <3>1, <3>2
  <2>3. (x - 1) * m + 1 = (y - 1) * m + 1
    BY <1>4, <1>5, <2>2 DEF G!Distinct
  <2> QED
    BY <1>3, <2>1, <2>3, PlaceUnique
<1>6. ASSUME G!Distinct(input.assets), NEW u \in Ix, NEW w \in Ix, nodes[u] = nodes[w]
      PROVE  u = w
  <2>1. PICK x \in 1..n : \E s \in 1..m : u = (x - 1) * m + s
    BY <1>3
  <2>2. PICK s \in 1..m : u = (x - 1) * m + s
    BY <2>1
  <2>3. PICK y \in 1..n : \E t \in 1..m : w = (y - 1) * m + t
    BY <1>3
  <2>4. PICK t \in 1..m : w = (y - 1) * m + t
    BY <2>3
  <2>5. nodes[u] = <<Stages[s], input.assets[x]>> /\ nodes[w] = <<Stages[t], input.assets[y]>>
    BY <1>3, <2>1, <2>2, <2>3, <2>4
  <2>6. s = t /\ input.assets[x] = input.assets[y]
    BY <1>3, <1>6, <2>2, <2>4, <2>5
  <2>7. x = y
    BY <1>4, <1>6, <2>1, <2>3, <2>6 DEF G!Distinct
  <2> QED
    BY <2>2, <2>4, <2>6, <2>7
<1> QED
  BY <1>4, <1>5, <1>6 DEF G!Distinct

\* What the run says in the end of a graph that a profile has built.
LEMMA ProfileVerdict ==
  ASSUME GraphTypes, Active => KahnOK, ChainsOK, G!Next, phase # "done" PROVE G!ProfilesRunInStages'
<1> SUFFICES ASSUME input.profile # "none", input' = input, phase' = "done" PROVE G!ProfilesRunInStages'
  <2>1. input' = input
    BY DEF G!Next, G!RejectInput, G!BuildDag, G!TakeGraph, G!Empty, G!BuildIndex,
           G!ReadEdge, G!EdgesRead, G!QueueNode, G!Start, G!Pop, G!Relax, G!Finish
  <2> QED
    BY <2>1 DEF G!ProfilesRunInStages
<1>1. input.assets \in Seq(Assets) /\ Len(input.assets) \in Nat
  BY ProfileShape DEF GraphTypes
<1>2. CASE G!RejectInput
  <2>1. verdict' # "Ok" /\ (input.assets = <<>> \/ ~input.hasDoc)
    BY <1>2 DEF G!RejectInput, G!Stop
  <2>2. ~(Len(input.assets) > 0 /\ input.hasDoc)
    BY <1>1, <2>1
  <2> QED
    BY <2>1, <2>2 DEF G!ProfilesRunInStages
<1>3. CASE G!Empty \/ G!BuildIndex \/ G!ReadEdge \/ G!Finish
  <2>1. phase \in {"index", "edges", "sort"} /\ UNCHANGED <<nodes, order>>
    BY <1>3 DEF G!Empty, G!BuildIndex, G!ReadEdge, G!Finish
  <2>2. Chained /\ Len(input.assets) > 0 /\ input.hasDoc
    BY <2>1 DEF Chained, ChainsOK, ChainsBuilt, AssetCount
  <2>3. PICK m : m = StageCount
    OBVIOUS
  <2>4. PICK n : n = AssetCount
    OBVIOUS
  <2>5. m \in {3, 5} /\ n \in Nat /\ n > 0 /\ Len(nodes) = m * n /\ m * n > 0 /\ n * m = m * n
    <3>1. m \in {3, 5} /\ n \in Nat /\ n > 0 /\ Len(nodes) = m * n
      <4>1. ChainFacts(m, n)
        BY <2>2, <2>3, <2>4, ChainSteps
      <4> QED
        BY <4>1 DEF ChainFacts
    <3>2. CASE m = 3
      BY <3>1, <3>2
    <3>3. CASE m = 5
      BY <3>1, <3>3
    <3> QED
      BY <3>1, <3>2, <3>3
  <2>6. nodes # <<>>
    BY <2>5
  <2>7. CASE G!Empty
    BY <2>6, <2>7 DEF G!Empty
  <2>8. CASE G!BuildIndex
    <3>1. ~G!Distinct(nodes) /\ verdict' = "DuplicateNodeKey"
      BY <2>8 DEF G!BuildIndex, G!Stop
    <3>2. ~G!Distinct(input.assets)
      BY <2>2, <3>1, KeysAndAssets
    <3>3. ~G!Distinct(input.assets)'
      BY <3>2 DEF G!Distinct
    <3> QED
      BY <3>1, <3>3 DEF G!ProfilesRunInStages
  <2>9. CASE G!ReadEdge
    <3>1. verdict' = "MissingNode" /\ phase = "edges" /\ read < Len(edges)
      BY <2>9 DEF G!ReadEdge, G!Stop
    <3>2. G!Present(edges[read + 1].from) /\ G!Present(edges[read + 1].to)
      <4>1. read + 1 \in DOMAIN edges
        BY <3>1, GraphShape DEF GraphTypes, Active
      <4>2. m - 1 \in 2..5 /\ read + 1 \in 1..((m - 1) * n)
        BY <2>2, <2>3, <2>4, <2>5, <4>1, ChainNumbers
      <4>3. PICK x \in 1..n : \E s \in 1..(m - 1) : read + 1 = (x - 1) * (m - 1) + s
        BY <2>5, <4>2, ChainSplit
      <4>4. PICK s \in 1..(m - 1) : read + 1 = (x - 1) * (m - 1) + s
        BY <4>3
      <4>5. edges[(x - 1) * (m - 1) + s] =
              [from |-> <<Stages[s], input.assets[x]>>, to |-> <<Stages[s + 1], input.assets[x]>>]
        BY <2>2, <2>3, <2>4, <4>3, <4>4, ChainEdge
      <4>6. /\ edges[read + 1].from = <<Stages[s], input.assets[x]>>
            /\ edges[read + 1].to = <<Stages[s + 1], input.assets[x]>>
        BY <4>4, <4>5
      <4>7. s \in 1..m /\ s + 1 \in 1..m
        BY <2>5, <4>4
      <4>8. \A t \in 1..m : G!Present(<<Stages[t], input.assets[x]>>)
        <5>1. \A t \in 1..m : /\ (x - 1) * m + t \in Ix
                              /\ nodes[(x - 1) * m + t] = <<Stages[t], input.assets[x]>>
          <6>1. ChainFacts(m, n)
            BY <2>2, <2>3, <2>4, <4>3, ChainSteps
          <6> QED
            BY <6>1 DEF ChainFacts
        <5> QED
          BY <5>1 DEF G!Present, Ix
      <4> QED
        BY <4>6, <4>7, <4>8
    <3> QED
      BY <2>9, <3>1, <3>2 DEF G!ReadEdge
  <2>10. CASE G!Finish
    <3>1. /\ phase = "sort" /\ scan = <<>> /\ q = <<>>
          /\ verdict' = IF Len(order) = Len(nodes) THEN "Ok" ELSE "Cycle"
      BY <2>10 DEF G!Finish, G!Stop
    <3>2. Active /\ G!Distinct(nodes) /\ order \in Seq(G!NodeSet) /\ Len(order) \in Nat
      BY <3>1 DEF Active, GraphTypes
    <3>3. /\ \A i \in 1..LineLen : Line(i) = Goal(i)
          /\ LineLen = IF Len(order) <= n * (m - 1) THEN n + Len(order) - Len(scan) ELSE n * m
      BY <2>2, <2>3, <2>4, <3>1 DEF Chained, ChainsOK, StageByStage
    <3>4. LineLen = Len(order) /\ Len(scan) = 0
      BY <3>1, <3>2 DEF LineLen
    <3>5. Len(order) = n * m
      BY <2>5, <3>2, <3>3, <3>4
    <3>6. verdict' = "Ok"
      BY <2>5, <3>1, <3>5
    <3>7. \A i \in 1..Len(order) : order[i] = Goal(i)
      BY <3>3, <3>4 DEF Line
    <3>8. order = [i \in 1..(n * m) |-> Goal(i)]
      BY <3>2, <3>5, <3>7
    <3>9. G!Distinct(input.assets) /\ (G!Distinct(input.assets)' <=> G!Distinct(input.assets))
      <4>1. G!Distinct(input.assets)
        BY <2>2, <3>2, KeysAndAssets
      <4> QED
        BY <4>1 DEF G!Distinct
    <3>10. order' = [i \in 1..(n * m) |->
             <<Stages[((i - 1) \div n) + 1], input.assets[((i - 1) % n) + 1]>>]
      BY <2>1, <2>4, <3>8 DEF Goal
    <3> QED
      BY <2>2, <2>3, <2>4, <3>6, <3>9, <3>10 DEF G!ProfilesRunInStages, Stages, StageCount, AssetCount
  <2> QED
    BY <1>3, <2>7, <2>8, <2>9, <2>10
<1>4. CASE G!BuildDag \/ G!TakeGraph \/ G!EdgesRead \/ G!QueueNode \/ G!Start \/ G!Pop \/ G!Relax
  <2>1. phase' # "done"
    BY <1>4 DEF G!BuildDag, G!TakeGraph, G!EdgesRead, G!QueueNode, G!Start, G!Pop, G!Relax
  <2> QED
    BY <2>1
<1> QED
  BY <1>2, <1>3, <1>4 DEF G!Next

\* The invariant holds at first,
LEMMA GraphInit == G!Init => GraphInv
<1> SUFFICES ASSUME G!Init PROVE GraphInv
  OBVIOUS
<1>1. GraphTypes /\ ~Active /\ phase = "build"
  BY InitTypes DEF G!Init
<1> QED
  BY <1>1 DEF GraphInv, ChainsOK, ChainsBuilt, ChainLists, ChainHeads, StageByStage,
              G!OrderIsTopological, G!ProfilesRunInStages

\* and every step keeps it.
LEMMA GraphStep == GraphInv /\ [G!Next]_(G!vars) => GraphInv'
<1> SUFFICES ASSUME GraphInv, [G!Next]_(G!vars) PROVE GraphInv'
  OBVIOUS
<1>1. GraphTypes /\ (Active => KahnOK) /\ ChainsOK
  BY DEF GraphInv
<1>2. CASE UNCHANGED G!vars
  <2>1. UNCHANGED <<input, nodes, edges, phase, adj, indegree, q, scan, order, read, verdict>>
    BY <1>2 DEF G!vars
  <2>2. /\ Ix' = Ix /\ G!NodeSet' = G!NodeSet /\ G!Roots' = G!Roots /\ Entered' = Entered
        /\ (Active' <=> Active) /\ (G!Distinct(nodes)' <=> G!Distinct(nodes))
        /\ \A v : Looked(v)' <=> Looked(v)
    BY <2>1 DEF Ix, G!NodeSet, G!Roots, Entered, Active, G!Distinct, Looked
  <2>3. GraphTypes'
    BY <1>1, <2>1, <2>2 DEF GraphTypes
  <2>4. Active' => KahnOK'
    BY <1>1, <2>1, <2>2, KahnStays
  <2>5. ChainsOK'
    BY <1>1, <2>1, <2>2, SameChains DEF ChainsOK, ChainsBuilt, ChainLists, ChainHeads,
       StageByStage, LineLen, Line
  <2>6. G!OrderIsTopological'
    <3>1. /\ (G!Distinct(order)' <=> G!Distinct(order)) /\ (G!WellFormed' <=> G!WellFormed)
          /\ (G!Acyclic' <=> G!Acyclic)
          /\ \A j, k : (G!EdgeOf(j, k)' <=> G!EdgeOf(j, k)) /\ (G!Before(j, k)' <=> G!Before(j, k))
          /\ \A k : G!IndexOf(k)' = G!IndexOf(k)
      BY <2>1, <2>2 DEF G!Distinct, G!WellFormed, G!Acyclic, G!EdgeOf, G!Before, G!IndexOf
    <3>2. G!OrderIsTopological
      BY DEF GraphInv
    <3> QED
      BY <2>1, <2>2, <3>1, <3>2 DEF G!OrderIsTopological
  <2>7. G!ProfilesRunInStages'
    <3>1. G!Distinct(input.assets)' <=> G!Distinct(input.assets)
      BY <2>1 DEF G!Distinct
    <3>2. G!ProfilesRunInStages
      BY DEF GraphInv
    <3> QED
      BY <2>1, <3>1, <3>2 DEF G!ProfilesRunInStages
  <2> QED
    BY <2>3, <2>4, <2>5, <2>6, <2>7 DEF GraphInv
<1>3. CASE G!Next
  <2>1. phase # "done"
    BY <1>3 DEF G!Next, G!RejectInput, G!BuildDag, G!TakeGraph, G!Empty, G!BuildIndex,
                G!ReadEdge, G!EdgesRead, G!QueueNode, G!Start, G!Pop, G!Relax, G!Finish
  <2>2. GraphTypes' /\ (Active' => KahnOK')
    <3>1. CASE G!RejectInput \/ G!BuildDag \/ G!TakeGraph \/ G!Empty
      BY <1>1, <3>1, BuildTypes
    <3>2. CASE G!Finish
      BY <1>1, <3>2, FinishTypes
    <3>3. CASE G!BuildIndex \/ G!ReadEdge \/ G!EdgesRead \/ G!QueueNode \/ G!Start \/ G!Pop \/ G!Relax
      BY <1>1, <3>3, BuildIndexKeeps, ReadEdgeKeeps, EdgesReadKeeps, QueueNodeKeeps, StartKeeps, PopKeeps,
         RelaxKeeps
    <3> QED
      BY <1>3, <3>1, <3>2, <3>3 DEF G!Next
  <2>3. ChainsOK'
    BY <1>1, <1>3, ChainsKept
  <2>4. G!OrderIsTopological'
    BY <1>1, <1>3, <2>1, VerdictRight
  <2>5. G!ProfilesRunInStages'
    BY <1>1, <1>3, <2>1, ProfileVerdict
  <2> QED
    BY <2>2, <2>3, <2>4, <2>5 DEF GraphInv
<1> QED
  BY <1>2, <1>3

\* What the algorithm has read, sorted and queued fits the graph: the indegree of a node
\* is the number of entries that lead to it and have not been taken, and a node is in
\* the line of the sorted and the queued ones, once, when there are none left.
THEOREM GraphInvariance == RulesSpec => []GraphInv
<1>1. RulesInit => GraphInv
  BY GraphInit DEF RulesInit
<1>2. [RulesNext]_<<part, vars, graphVars, retryVars, configVars>> => [G!Next]_(G!vars)
  BY DEF RulesNext, graphVars, G!vars
<1>3. GraphInv /\ [G!Next]_(G!vars) => GraphInv'
  BY GraphStep
<1> QED
  BY <1>1, <1>2, <1>3, PTL DEF RulesSpec

\* topo_order accepts a graph exactly when its keys are distinct, its edges are between
\* nodes and it has no cycle, and then lists every node once, after all that it depends
\* on, with the roots first: whatever the nodes and the edges of the graph.
THEOREM OrdersAreTopological == RulesSpec => []OrderIsTopological
<1>1. GraphInv => OrderIsTopological
  BY DEF GraphInv, OrderIsTopological
<1> QED
  BY <1>1, GraphInvariance, PTL

\* A profile yields a graph exactly when it has a document and assets that are distinct,
\* and the order takes all assets through a stage before any goes on to the next,
\* whatever the assets and however many.
THEOREM ProfilesAlwaysInStages == RulesSpec => []ProfilesRunInStages
<1>1. GraphInv => ProfilesRunInStages
  BY DEF GraphInv, ProfilesRunInStages
<1> QED
  BY <1>1, GraphInvariance, PTL

-----------------------------------------------------------------------------

(* The configuration.                                                      *)

Scopes == <<"GLOBAL", "STORAGE", "BLOB_STORAGE", "VECTOR", "EMBEDDINGS", "API", "WORKERS", "MESSAGING",
            "WORKFLOW", "EXECUTOR">>

\* What is loaded are the settings of the groups gone through, as the loaders keep
\* them; a failure is due to a setting that is set and was not loaded.
ConfigInv ==
  /\ env \in Environments
  /\ group \in Nat
  /\ \A s \in DOMAIN loaded :
       /\ \E g \in DOMAIN C!Groups : g < group /\ s \in C!Groups[g]
       /\ loaded[s] = C!Kept(s)
  /\ failed # "none" => \E s \in C!Settings \ DOMAIN loaded : C!Kept(s) # C!Default

\* No setting is in two groups: all of a group have its scope.
LEMMA GroupsApart ==
  /\ DOMAIN C!Groups = 1..10
  /\ \A g, h \in DOMAIN C!Groups : \A s \in C!Groups[g] : s \in C!Groups[h] => g = h
<1> DEFINE Sc == Scopes
<1>1. DOMAIN C!Groups = 1..10
  BY DEF C!Groups
<1>2. /\ \A s \in C!Groups[1] : s.scope = "GLOBAL"
      /\ \A s \in C!Groups[2] : s.scope = "STORAGE"
      /\ \A s \in C!Groups[3] : s.scope = "BLOB_STORAGE"
  BY DEF C!Groups, C!Global, C!Storage, C!BlobStorage, C!Text, C!Number, C!Url, C!Flag
<1>3. /\ \A s \in C!Groups[4] : s.scope = "VECTOR"
      /\ \A s \in C!Groups[5] : s.scope = "EMBEDDINGS"
      /\ \A s \in C!Groups[6] : s.scope = "API"
  BY DEF C!Groups, C!Vector, C!Embeddings, C!Api, C!Text, C!Number, C!Url, C!Exact
<1>4. /\ \A s \in C!Groups[7] : s.scope = "WORKERS"
      /\ \A s \in C!Groups[8] : s.scope = "MESSAGING"
      /\ \A s \in C!Groups[9] : s.scope = "WORKFLOW"
      /\ \A s \in C!Groups[10] : s.scope = "EXECUTOR"
  BY DEF C!Groups, C!Workers, C!Messaging, C!Workflow, C!Executor, C!Text, C!Number, C!Strict
<1>5. \A g \in 1..10 : \A s \in C!Groups[g] : s.scope = Scopes[g]
  BY <1>2, <1>3, <1>4 DEF Scopes
<1>6. \A g, h \in 1..10 : Scopes[g] = Scopes[h] => g = h
  BY DEF Scopes
<1> QED
  BY <1>1, <1>5, <1>6

\* A setting that is kept at a value has a variable that is set.
LEMMA KeptIsSet ==
  ASSUME NEW s, C!Kept(s) # C!Default PROVE C!Variables(s) \cap DOMAIN env # {}
<1>1. C!Found(s) # C!Default
  BY DEF C!Kept
<1>2. PICK i \in DOMAIN C!Chain(s) : C!Chain(s)[i] \in DOMAIN env
  BY <1>1 DEF C!Found, C!Nonempty
<1> QED
  BY <1>2 DEF C!Variables

\* Nothing is loaded at first.
LEMMA ConfigInit == C!Init => ConfigInv
BY DEF C!Init, ConfigInv

\* A loader sets its group from the variables, or fails for a setting that is set.
LEMMA ConfigStep == ConfigInv /\ C!LoadGroup => ConfigInv'
<1> SUFFICES ASSUME ConfigInv, C!LoadGroup PROVE ConfigInv'
  OBVIOUS
<1>1. failed = "none" /\ group \in DOMAIN C!Groups /\ group' = group + 1 /\ env' = env
  BY DEF C!LoadGroup
<1>2. \A s : C!Kept(s)' = C!Kept(s)
  BY <1>1 DEF C!Kept, C!Found, C!Nonempty
<1>3. env' \in Environments /\ group' \in Nat /\ group \in Nat
  BY <1>1 DEF ConfigInv
<1>4. CASE \E s \in C!Groups[group] : C!Refused(s)
  <2>1. loaded' = loaded
    BY <1>4 DEF C!LoadGroup
  <2>2. PICK s \in C!Groups[group] : C!Refused(s)
    BY <1>4
  <2>3. C!Kept(s) # C!Default
    BY <2>2 DEF C!Refused, C!Default
  <2>4. s \in C!Settings
    BY <1>1, <2>2 DEF C!Settings
  <2>5. s \notin DOMAIN loaded
    <3> SUFFICES ASSUME s \in DOMAIN loaded PROVE FALSE
      OBVIOUS
    <3>1. PICK g \in DOMAIN C!Groups : g < group /\ s \in C!Groups[g]
      BY DEF ConfigInv
    <3>2. g = group
      BY <1>1, <2>2, <3>1, GroupsApart
    <3> QED
      BY <1>3, <3>1, <3>2
  <2>6. \A t \in DOMAIN loaded : \E g \in DOMAIN C!Groups : g < group + 1 /\ t \in C!Groups[g]
    <3> SUFFICES ASSUME NEW t \in DOMAIN loaded
                 PROVE  \E g \in DOMAIN C!Groups : g < group + 1 /\ t \in C!Groups[g]
      OBVIOUS
    <3>1. PICK g \in DOMAIN C!Groups : g < group /\ t \in C!Groups[g]
      BY DEF ConfigInv
    <3>2. g < group + 1
      BY <1>3, <3>1, GroupsApart
    <3> QED
      BY <3>1, <3>2
  <2>7. \A t \in DOMAIN loaded : loaded[t] = C!Kept(t)
    BY DEF ConfigInv
  <2>8. \E t \in C!Settings \ DOMAIN loaded : C!Kept(t) # C!Default
    BY <2>3, <2>4, <2>5
  <2> QED
    BY <1>1, <1>2, <1>3, <2>1, <2>6, <2>7, <2>8 DEF ConfigInv
<1>5. CASE ~(\E s \in C!Groups[group] : C!Refused(s))
  <2>1. /\ loaded' = [s \in DOMAIN loaded \cup C!Groups[group] |->
                        IF s \in C!Groups[group] THEN C!Kept(s) ELSE loaded[s]]
        /\ failed' = failed
    BY <1>5 DEF C!LoadGroup
  <2>2. ASSUME NEW t \in DOMAIN loaded'
        PROVE  /\ \E g \in DOMAIN C!Groups : g < group + 1 /\ t \in C!Groups[g]
               /\ loaded'[t] = C!Kept(t)
    <3>1. CASE t \in C!Groups[group]
      <4>1. group < group + 1
        BY <1>3
      <4> QED
        BY <1>1, <2>1, <3>1, <4>1
    <3>2. CASE t \notin C!Groups[group]
      <4>1. t \in DOMAIN loaded /\ loaded'[t] = loaded[t]
        BY <2>1, <2>2, <3>2
      <4>2. PICK g \in DOMAIN C!Groups : g < group /\ t \in C!Groups[g]
        BY <4>1 DEF ConfigInv
      <4>3. g < group + 1
        BY <1>3, <4>2, GroupsApart
      <4>4. loaded[t] = C!Kept(t)
        BY <4>1 DEF ConfigInv
      <4> QED
        BY <4>1, <4>2, <4>3, <4>4
    <3> QED
      BY <3>1, <3>2
  <2> QED
    BY <1>1, <1>2, <1>3, <2>1, <2>2 DEF ConfigInv
<1> QED
  BY <1>4, <1>5

\* Each of a set of settings that are kept at a value has a variable of its own.
LEMMA OneVariableEach ==
  ASSUME env \in Environments, NEW T \in SUBSET C!Settings, \A s \in T : C!Kept(s) # C!Default
  PROVE  IsFiniteSet(T) /\ IsFiniteSet(DOMAIN env) /\ Cardinality(T) <= Cardinality(DOMAIN env)
<1>1. IsFiniteSet(DOMAIN env)
  BY EnvironmentsAssumption
<1> DEFINE f == [s \in T |-> CHOOSE v \in C!Variables(s) \cap DOMAIN env : TRUE]
<1>2. \A s \in T : f[s] \in C!Variables(s) /\ f[s] \in DOMAIN env
  <2> SUFFICES ASSUME NEW s \in T PROVE f[s] \in C!Variables(s) \cap DOMAIN env
    OBVIOUS
  <2>1. C!Variables(s) \cap DOMAIN env # {}
    BY KeptIsSet
  <2>2. (CHOOSE v \in C!Variables(s) \cap DOMAIN env : TRUE) \in C!Variables(s) \cap DOMAIN env
    BY <2>1
  <2> QED
    BY <2>2
<1>3. f \in [T -> DOMAIN env]
  BY <1>2
<1>4. ASSUME NEW s \in T, NEW t \in T, f[s] = f[t] PROVE s = t
  <2>1. f[s] \in C!Variables(s) \cap C!Variables(t)
    BY <1>2, <1>4
  <2> HIDE DEF f
  <2> QED
    BY <2>1, NamesApart
<1>5. f \in Injection(T, DOMAIN env)
  BY <1>3, <1>4 DEF Injection, IsInjective
<1> HIDE DEF f
<1> QED
  BY <1>1, <1>5, FS_Injection

\* Cardinality means the same in Config.
LEMMA CountIsCardinality == ASSUME NEW S PROVE C!Cardinality(S) = Cardinality(S)
BY DEF C!Cardinality, Cardinality

\* The settings changed, and the one refused, are as many as their variables at most.
LEMMA SettingsCounted == ConfigInv => C!OneVariableOneSetting
<1> SUFFICES ASSUME ConfigInv PROVE C!OneVariableOneSetting
  OBVIOUS
<1>1. C!Changed \in SUBSET C!Settings /\ \A s \in C!Changed : C!Kept(s) # C!Default
  BY DEF ConfigInv, C!Changed, C!Settings
<1>2. /\ IsFiniteSet(C!Changed) /\ IsFiniteSet(DOMAIN env)
      /\ Cardinality(C!Changed) <= Cardinality(DOMAIN env)
  BY <1>1, OneVariableEach DEF ConfigInv
<1>3. Cardinality(C!Changed) \in Nat /\ Cardinality(DOMAIN env) \in Nat
  BY <1>2, FS_CardinalityType
<1>4. CASE failed = "none"
  BY <1>2, <1>3, <1>4, CountIsCardinality DEF C!OneVariableOneSetting
<1>5. CASE failed # "none"
  <2>1. PICK s \in C!Settings \ DOMAIN loaded : C!Kept(s) # C!Default
    BY <1>5 DEF ConfigInv
  <2>2. s \notin C!Changed
    BY <2>1 DEF C!Changed
  <2>3. /\ C!Changed \cup {s} \in SUBSET C!Settings
        /\ \A t \in C!Changed \cup {s} : C!Kept(t) # C!Default
    BY <1>1, <2>1
  <2>4. Cardinality(C!Changed \cup {s}) <= Cardinality(DOMAIN env)
    BY <2>3, OneVariableEach DEF ConfigInv
  <2>5. Cardinality(C!Changed \cup {s}) = Cardinality(C!Changed) + 1
    BY <1>2, <2>2, FS_AddElement
  <2> QED
    BY <1>3, <1>5, <2>4, <2>5, CountIsCardinality DEF C!OneVariableOneSetting
<1> QED
  BY <1>4, <1>5

\* The settings loaded are those of the groups gone through, as the variables have them.
THEOREM ConfigInvariance == RulesSpec => [](part = "config" => ConfigInv)
<1>1. RulesInit => (part = "config" => ConfigInv)
  BY ConfigInit DEF RulesInit
<1>2. ASSUME part = "config" => ConfigInv, [RulesNext]_<<part, vars, graphVars, retryVars, configVars>>
      PROVE  (part = "config" => ConfigInv)'
  <2>1. part' = part
    BY <1>2 DEF RulesNext
  <2> SUFFICES ASSUME part = "config" PROVE ConfigInv'
    BY <2>1
  <2>2. CASE C!Next
    BY <1>2, <2>2, ConfigStep DEF C!Next
  <2>3. CASE UNCHANGED configVars
    <3>1. \A s : C!Kept(s)' = C!Kept(s)
      BY <2>3 DEF configVars, C!Kept, C!Found, C!Nonempty
    <3> QED
      BY <1>2, <2>3, <3>1 DEF configVars, ConfigInv
  <2> QED
    BY <1>2, <2>2, <2>3 DEF RulesNext, configVars
<1> QED
  BY <1>1, <1>2, PTL DEF RulesSpec

\* Whatever the values of the variables, n variables change n settings at most, and n - 1
\* when one of them is what a loader refuses: no variable is read for two settings.
THEOREM OneVariableAlwaysOneSetting == RulesSpec => []OneVariableOneSetting
<1>1. (part = "config" => ConfigInv) => OneVariableOneSetting
  BY SettingsCounted DEF OneVariableOneSetting
<1> QED
  BY <1>1, ConfigInvariance, PTL
=============================================================================
