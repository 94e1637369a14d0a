---------------------------- MODULE StorageProofs ----------------------------
(***************************************************************************)
(* Proofs about the stores that MCStorage puts side by side. Those of the  *)
(* repositories in memory are about MemRepository by itself, for every     *)
(* repository, any ids and owners, any number of callers and of calls;     *)
(* the others are about the behaviours of MCStorage: the tenants           *)
(* repository, the database, the vector store and the extraction. The      *)
(* constants are arbitrary wherever MCStorage leaves them open.            *)
(***************************************************************************)
EXTENDS MCStorage, FiniteSetTheorems, TLAPS

-----------------------------------------------------------------------------
(* The repositories in memory: the rows and the entries of the index.      *)

\* What the state of a call says that it will write; Writes(c) for that of c.
WritesOf(w) ==
  CASE w.op \in {"add", "move", "remove"} -> {w.id}
    [] w.op = "clear"                     -> w.ids
    [] OTHER                              -> {}

\* What Disturbed makes of the state of a call.
Quieted(w, S) == IF w.op = "list" THEN [w EXCEPT !.quiet = @ \ S] ELSE w

\* Row i is in the bucket of o, once, and in no other; for None, in no bucket.
InBucket(i, o) == \A p \in Owners : index[p][i] = IF p = o THEN 1 ELSE 0

\* What a call at work has left to be done is what its rows lack.
WorkOK(w) ==
  /\ w.op = "add" => store[w.id] = w.to /\ InBucket(w.id, None)
  /\ w.op = "move" => store[w.id] = w.to /\ w.from # w.to /\ InBucket(w.id, w.from)
  /\ w.op = "remove" => store[w.id] = None /\ InBucket(w.id, w.from)
  /\ w.op = "clear" => \A i \in w.ids : store[i] = w.owner /\ InBucket(i, None)
  /\ w.op = "list" => \A i \in w.quiet : w.ids[i] = IF store[i] = w.owner THEN 1 ELSE 0

\* The rows no call writes.
RestOK == \A i \in Ids : ~Busy(i) => InBucket(i, store[i])

\* No two calls at work write one row.
Disjoint == \A c, d \in Clients : c # d => WritesOf(call[c]) \cap WritesOf(call[d]) = {}

IInv ==
  /\ TypeOK
  /\ repo = "workflows" => \A c \in Clients : call[c] = Idle
  /\ ~shared /\ Indexed =>
       /\ \A c \in Clients : WorkOK(call[c])
       /\ RestOK
       /\ Disjoint

-----------------------------------------------------------------------------
(* The states of a call.                                                   *)

\* The fields that a call has at each point.
LEMMA CallShape ==
  ASSUME NEW w \in CallState
  PROVE  /\ w.op \in {"idle", "add", "move", "remove", "clear", "list"}
         /\ w.op = "idle" => w = Idle
         /\ w.op = "add" => w.id \in Ids /\ w.to \in Owners
         /\ w.op = "move" => w.id \in Ids /\ w.from \in Owners /\ w.to \in Owners
         /\ w.op = "remove" => w.id \in Ids /\ w.from \in Owners
         /\ w.op = "clear" => w.owner \in Owners /\ w.ids \in SUBSET Ids
         /\ w.op = "list" => /\ w \in [op : {"list"}, owner : Owners, ids : [Ids -> Nat],
                                       quiet : SUBSET Ids]
  BY DEF CallState, Idle

\* A call writes rows.
LEMMA WritesAre ==
  ASSUME NEW w \in CallState PROVE WritesOf(w) \subseteq Ids
  BY CallShape DEF WritesOf

\* WritesOf is Writes, of a state instead of a client.
LEMMA WritesOfCall == ASSUME NEW c \in Clients PROVE Writes(c) = WritesOf(call[c])
  BY DEF Writes, WritesOf

\* Taking rows off the quiet ones of a listing leaves the rest of a call as it was.
LEMMA QuietedKeeps ==
  ASSUME NEW w \in CallState, NEW S
  PROVE  /\ Quieted(w, S) \in CallState
         /\ Quieted(w, S).op = w.op
         /\ w.op # "list" => Quieted(w, S) = w
         /\ w.op = "list" => /\ Quieted(w, S).owner = w.owner /\ Quieted(w, S).ids = w.ids
                             /\ Quieted(w, S).quiet = w.quiet \ S
         /\ WritesOf(Quieted(w, S)) = WritesOf(w)
<1>1. CASE w.op = "list"
  <2>1. w \in [op : {"list"}, owner : Owners, ids : [Ids -> Nat], quiet : SUBSET Ids]
    BY <1>1, CallShape
  <2>2. /\ Quieted(w, S) \in [op : {"list"}, owner : Owners, ids : [Ids -> Nat], quiet : SUBSET Ids]
        /\ Quieted(w, S).owner = w.owner /\ Quieted(w, S).ids = w.ids
        /\ Quieted(w, S).quiet = w.quiet \ S
    BY <1>1, <2>1 DEF Quieted
  <2>3. Quieted(w, S) \in CallState /\ Quieted(w, S).op = "list"
    BY <2>2 DEF CallState
  <2> QED
    BY <1>1, <2>2, <2>3 DEF WritesOf
<1>2. CASE w.op # "list"
  BY <1>2 DEF Quieted
<1> QED
  BY <1>1, <1>2

\* The other calls go on as they were, but for the quiet rows of listings.
LEMMA CallAfter ==
  ASSUME TypeOK, NEW c \in Clients, NEW S, NEW w \in CallState,
         call' = [Disturbed(S) EXCEPT ![c] = w]
  PROVE  /\ call' \in [Clients -> CallState]
         /\ call'[c] = w
         /\ \A d \in Clients : d # c => call'[d] = Quieted(call[d], S)
<1>1. \A d \in Clients : call[d] \in CallState
  BY DEF TypeOK
<1>2. Disturbed(S) = [d \in Clients |-> Quieted(call[d], S)]
  BY DEF Disturbed, Quieted
<1>3. \A d \in Clients : Quieted(call[d], S) \in CallState
  BY <1>1, QuietedKeeps
<1> QED
  BY <1>2, <1>3

-----------------------------------------------------------------------------
(* A step of client c that touches the rows of S only and keeps its word   *)
(* about them keeps the invariant.                                         *)

LEMMA Touches ==
  ASSUME IInv, repo # "workflows", NEW c \in Clients, NEW S \in SUBSET Ids, NEW w \in CallState,
         UNCHANGED <<repo, shared>>, begun' \in 0..MaxCalls,
         store' \in [Ids -> Owners \cup {None}], index' \in [Owners -> [Ids -> Nat]],
         call' = [Disturbed(S) EXCEPT ![c] = w],
         ~shared =>
           /\ \A i \in Ids \ S : store'[i] = store[i] /\ \A o \in Owners : index'[o][i] = index[o][i]
           /\ WritesOf(call[c]) \subseteq S
           /\ \A d \in Clients : d # c => WritesOf(call[d]) \cap S = {}
           /\ WritesOf(w) \subseteq S
           /\ WorkOK(w)'
           /\ \A i \in S \ WritesOf(w) : InBucket(i, store[i])'
  PROVE  IInv'
<1>1. /\ call' \in [Clients -> CallState] /\ call'[c] = w
      /\ \A d \in Clients : d # c => call'[d] = Quieted(call[d], S)
  BY CallAfter DEF IInv
<1>2. TypeOK'
  BY <1>1 DEF IInv, TypeOK
<1>3. SUFFICES ASSUME ~shared PROVE (\A d \in Clients : WorkOK(call[d])') /\ RestOK' /\ Disjoint'
  BY <1>2 DEF IInv, Indexed
<1>4. /\ \A d \in Clients : WorkOK(call[d]) /\ call[d] \in CallState
      /\ RestOK /\ Disjoint
  BY <1>3 DEF IInv, Indexed, TypeOK
<1>5. \A i \in Ids \ S : \A o : InBucket(i, o) => InBucket(i, o)'
  BY <1>3 DEF InBucket
<1>6. \A d \in Clients : d # c => WritesOf(call'[d]) = WritesOf(call[d])
  BY <1>1, <1>4, QuietedKeeps
<1>7. ASSUME NEW d \in Clients PROVE WorkOK(call[d])'
  <2>1. CASE d = c
    BY <1>1, <1>3, <2>1 DEF WorkOK
  <2>2. CASE d # c
    <3> DEFINE v == call[d]
               q == call'[d]
    <3>1. /\ v \in CallState /\ WorkOK(v) /\ q = Quieted(v, S)
          /\ WritesOf(v) \cap S = {} /\ WritesOf(v) \subseteq Ids
      BY <1>1, <1>3, <1>4, <2>2, WritesAre
    <3> HIDE DEF v, q
    <3>2. \A i \in WritesOf(v) : store'[i] = store[i] /\ \A o : InBucket(i, o) => InBucket(i, o)'
      BY <1>3, <1>5, <3>1
    <3>3. CASE v.op = "list"
      <4>1. v \in [op : {"list"}, owner : Owners, ids : [Ids -> Nat], quiet : SUBSET Ids]
        BY <3>1, <3>3, CallShape
      <4>2. q.op = "list" /\ q.owner = v.owner /\ q.ids = v.ids /\ q.quiet = v.quiet \ S
        BY <3>1, <3>3, QuietedKeeps
      <4>3. \A i \in q.quiet : q.ids[i] = IF store'[i] = q.owner THEN 1 ELSE 0
        BY <1>3, <3>1, <3>3, <4>1, <4>2 DEF WorkOK
      <4> QED
        BY <4>2, <4>3 DEF WorkOK, q
    <3>4. CASE v.op # "list"
      <4>1. q = v
        BY <3>1, <3>4, QuietedKeeps
      <4>2. CASE v.op \in {"add", "move", "remove"}
        <5>1. v.id \in WritesOf(v)
          BY <4>2 DEF WritesOf
        <5> QED
          BY <3>1, <3>2, <4>1, <4>2, <5>1 DEF WorkOK, q
      <4>3. CASE v.op = "clear"
        <5>1. v.ids = WritesOf(v)
          BY <4>3 DEF WritesOf
        <5> QED
          BY <3>1, <3>2, <4>1, <4>3, <5>1 DEF WorkOK, q
      <4>4. CASE v.op = "idle"
        BY <4>1, <4>4 DEF WorkOK, q
      <4> QED
        BY <3>1, <3>4, <4>2, <4>3, <4>4, CallShape
    <3> QED
      BY <3>3, <3>4
  <2> QED
    BY <2>1, <2>2
<1>8. ASSUME NEW i \in Ids, ~Busy(i)' PROVE InBucket(i, store[i])'
  <2>1. \A d \in Clients : i \notin WritesOf(call'[d])
    BY <1>8 DEF Busy, Writes, WritesOf
  <2>2. CASE i \in S
    BY <1>1, <1>3, <2>1, <2>2
  <2>3. CASE i \notin S
    <3>1. ~Busy(i)
      BY <1>3, <1>6, <2>1, <2>3, WritesOfCall DEF Busy
    <3>2. InBucket(i, store[i]) /\ store'[i] = store[i]
      BY <1>3, <1>4, <2>3, <3>1 DEF RestOK
    <3> QED
      BY <1>3, <2>3, <3>2 DEF InBucket
  <2> QED
    BY <2>2, <2>3
<1>9. ASSUME NEW d \in Clients, NEW e \in Clients, d # e
      PROVE WritesOf(call'[d]) \cap WritesOf(call'[e]) = {}
  <2>1. CASE d = c
    BY <1>1, <1>3, <1>6, <1>9, <2>1
  <2>2. CASE e = c
    BY <1>1, <1>3, <1>6, <1>9, <2>2
  <2>3. CASE d # c /\ e # c
    BY <1>4, <1>6, <1>9, <2>3 DEF Disjoint
  <2> QED
    BY <2>1, <2>2, <2>3
<1> QED
  BY <1>7, <1>8, <1>9 DEF RestOK, Disjoint, WritesOf

\* What a call that starts finds, if callers do not share ids.
LEMMA Starts ==
  ASSUME IInv, repo # "workflows", NEW c \in Clients, Begin(c)
  PROVE  /\ begun' \in 0..MaxCalls /\ UNCHANGED <<repo, shared>>
         /\ WritesOf(call[c]) = {}
         /\ ~shared => \A S \in SUBSET Ids : Exclusive(S) =>
              /\ \A i \in S : InBucket(i, store[i])
              /\ \A d \in Clients : WritesOf(call[d]) \cap S = {}
<1>1. begun' \in 0..MaxCalls /\ UNCHANGED <<repo, shared>>
  BY MaxCallsAssumption DEF Begin, IInv, TypeOK
<1>2. WritesOf(call[c]) = {}
  BY DEF Begin, Idle, WritesOf
<1>3. ASSUME ~shared, NEW S \in SUBSET Ids, Exclusive(S)
      PROVE  /\ \A i \in S : InBucket(i, store[i])
             /\ \A d \in Clients : WritesOf(call[d]) \cap S = {}
  <2>1. \A i \in S : ~Busy(i)
    BY <1>3 DEF Exclusive
  <2> QED
    BY <1>3, <2>1, WritesOfCall DEF IInv, Indexed, RestOK, Busy
<1> QED
  BY <1>1, <1>2, <1>3

\* What a call that goes on finds.
LEMMA GoesOn ==
  ASSUME IInv, NEW c \in Clients, Continue(c), call[c].op # "idle"
  PROVE  /\ repo # "workflows" /\ begun' \in 0..MaxCalls /\ UNCHANGED <<repo, shared>>
         /\ call[c] \in CallState
         /\ ~shared => /\ WorkOK(call[c])
                       /\ \A d \in Clients : d # c => WritesOf(call[d]) \cap WritesOf(call[c]) = {}
  BY DEF IInv, TypeOK, Idle, Continue, Indexed, Disjoint

-----------------------------------------------------------------------------
(* The steps of the calls.                                                 *)

\* A save leaves the index to be brought up to date.
LEMMA SaveRowInv ==
  ASSUME IInv, repo # "workflows",
         NEW c \in Clients, NEW i \in Ids, NEW o \in Owners, SaveRow(c, i, o)
  PROVE  IInv'
<1>0. PICK w : w = IndexWork(i, store[i], o)
  OBVIOUS
<1>1. /\ begun' \in 0..MaxCalls /\ UNCHANGED <<repo, shared>> /\ WritesOf(call[c]) = {}
      /\ ~shared => InBucket(i, store[i]) /\ \A d \in Clients : WritesOf(call[d]) \cap {i} = {}
  BY Starts DEF SaveRow
<1>2. /\ store' = [store EXCEPT ![i] = o] /\ index' = index
      /\ call' = [Disturbed({i}) EXCEPT ![c] = w]
  BY <1>0 DEF SaveRow
<1>3. /\ store \in [Ids -> Owners \cup {None}] /\ index \in [Owners -> [Ids -> Nat]]
  BY DEF IInv, TypeOK
<1>4. w \in CallState
  BY <1>0, <1>3 DEF IndexWork, CallState
<1>5. WritesOf(w) = IF store[i] = o THEN {} ELSE {i}
  BY <1>0, NoneAssumption DEF IndexWork, WritesOf, Idle
<1>6. ASSUME ~shared PROVE WorkOK(w)' /\ \A j \in {i} \ WritesOf(w) : InBucket(j, store[j])'
  <2>1. store'[i] = o /\ \A p : InBucket(i, p) => InBucket(i, p)'
    BY <1>2, <1>3 DEF InBucket
  <2>2. InBucket(i, store[i])
    BY <1>1, <1>6
  <2>3. CASE store[i] = None
    BY <1>0, <1>5, <2>1, <2>2, <2>3, NoneAssumption DEF IndexWork, WorkOK
  <2>4. CASE store[i] # None /\ store[i] # o
    BY <1>0, <1>5, <2>1, <2>2, <2>4 DEF IndexWork, WorkOK
  <2>5. CASE store[i] = o
    BY <1>0, <1>5, <2>1, <2>2, <2>5, NoneAssumption DEF IndexWork, WorkOK, Idle
  <2> QED
    BY <2>3, <2>4, <2>5
<1> QED
  BY <1>1, <1>2, <1>3, <1>4, <1>5, <1>6, Touches

LEMMA SaveIndexAddInv == ASSUME IInv, NEW c \in Clients, SaveIndexAdd(c) PROVE IInv'
<1>0. PICK w : w = call[c]
  OBVIOUS
<1>1. w.op = "add" /\ Continue(c) /\ index' = IndexAdd(w.to, w.id) /\ store' = store
      /\ call' = [Disturbed({w.id}) EXCEPT ![c] = Idle]
  BY <1>0 DEF SaveIndexAdd
<1>2. /\ repo # "workflows" /\ begun' \in 0..MaxCalls /\ UNCHANGED <<repo, shared>>
      /\ w \in CallState
      /\ ~shared => WorkOK(w) /\ \A d \in Clients : d # c => WritesOf(call[d]) \cap WritesOf(w) = {}
  BY <1>0, <1>1, GoesOn
<1>3. w.id \in Ids /\ w.to \in Owners /\ WritesOf(w) = {w.id}
  BY <1>1, <1>2, CallShape DEF WritesOf
<1>4. store \in [Ids -> Owners \cup {None}] /\ index \in [Owners -> [Ids -> Nat]]
  BY DEF IInv, TypeOK
<1>5. index' \in [Owners -> [Ids -> Nat]]
  BY <1>1, <1>3, <1>4 DEF IndexAdd
<1>6. ASSUME ~shared PROVE InBucket(w.id, store[w.id])'
  BY <1>1, <1>2, <1>3, <1>4, <1>6, NoneAssumption DEF WorkOK, InBucket, IndexAdd
<1>7. \A i \in Ids \ {w.id}, o \in Owners : index'[o][i] = index[o][i]
  BY <1>1, <1>3, <1>4 DEF IndexAdd
<1>8. Idle \in CallState /\ WritesOf(Idle) = {} /\ WorkOK(Idle)'
  BY DEF CallState, Idle, WritesOf, WorkOK
<1> QED
  BY <1>0, <1>1, <1>2, <1>3, <1>4, <1>5, <1>6, <1>7, <1>8, Touches

LEMMA SaveIndexRemoveInv == ASSUME IInv, NEW c \in Clients, SaveIndexRemove(c) PROVE IInv'
<1>0. PICK w : w = call[c]
  OBVIOUS
<1>00. PICK v : v = [op |-> "add", id |-> w.id, to |-> w.to]
  OBVIOUS
<1>1. w.op = "move" /\ Continue(c) /\ index' = IndexRemove(w.from, w.id) /\ store' = store
      /\ call' = [Disturbed({w.id}) EXCEPT ![c] = v]
  BY <1>0, <1>00 DEF SaveIndexRemove
<1>2. /\ repo # "workflows" /\ begun' \in 0..MaxCalls /\ UNCHANGED <<repo, shared>>
      /\ w \in CallState
      /\ ~shared => WorkOK(w) /\ \A d \in Clients : d # c => WritesOf(call[d]) \cap WritesOf(w) = {}
  BY <1>0, <1>1, GoesOn
<1>3. w.id \in Ids /\ w.from \in Owners /\ w.to \in Owners /\ WritesOf(w) = {w.id}
  BY <1>1, <1>2, CallShape DEF WritesOf
<1>4. store \in [Ids -> Owners \cup {None}] /\ index \in [Owners -> [Ids -> Nat]]
  BY DEF IInv, TypeOK
<1>5. index' \in [Owners -> [Ids -> Nat]]
  BY <1>1, <1>3, <1>4 DEF IndexRemove
<1>6. ASSUME ~shared PROVE WorkOK(v)'
  <2>1. store'[w.id] = w.to /\ InBucket(w.id, w.from)
    BY <1>1, <1>2, <1>6 DEF WorkOK
  <2>2. InBucket(w.id, None)'
    BY <1>1, <1>3, <1>4, <2>1, NoneAssumption DEF InBucket, IndexRemove
  <2> QED
    BY <1>00, <2>1, <2>2 DEF WorkOK
<1>7. \A i \in Ids \ {w.id}, o \in Owners : index'[o][i] = index[o][i]
  BY <1>1, <1>3, <1>4 DEF IndexRemove
<1>8. v \in CallState /\ WritesOf(v) = {w.id}
  BY <1>00, <1>3 DEF CallState, WritesOf
<1> QED
  BY <1>0, <1>1, <1>2, <1>3, <1>4, <1>5, <1>6, <1>7, <1>8, Touches

LEMMA SaveIndexMoveInv == ASSUME IInv, NEW c \in Clients, SaveIndexMove(c) PROVE IInv'
<1>0. PICK w : w = call[c]
  OBVIOUS
<1>1. w.op = "move" /\ Continue(c) /\ index' = IndexMove(w.id, w.from, w.to) /\ store' = store
      /\ call' = [Disturbed({w.id}) EXCEPT ![c] = Idle]
  BY <1>0 DEF SaveIndexMove
<1>2. /\ repo # "workflows" /\ begun' \in 0..MaxCalls /\ UNCHANGED <<repo, shared>>
      /\ w \in CallState
      /\ ~shared => WorkOK(w) /\ \A d \in Clients : d # c => WritesOf(call[d]) \cap WritesOf(w) = {}
  BY <1>0, <1>1, GoesOn
<1>3. w.id \in Ids /\ w.from \in Owners /\ w.to \in Owners /\ WritesOf(w) = {w.id}
  BY <1>1, <1>2, CallShape DEF WritesOf
<1>4. store \in [Ids -> Owners \cup {None}] /\ index \in [Owners -> [Ids -> Nat]]
  BY DEF IInv, TypeOK
<1>5. index' \in [Owners -> [Ids -> Nat]]
  BY <1>1, <1>3, <1>4 DEF IndexMove
<1>6. ASSUME ~shared PROVE InBucket(w.id, store[w.id])'
  <2>1. store[w.id] = w.to /\ w.from # w.to /\ InBucket(w.id, w.from)
    BY <1>1, <1>2, <1>6 DEF WorkOK
  <2>2. ASSUME NEW o \in Owners PROVE index'[o][w.id] = IF o = w.to THEN 1 ELSE 0
    <3>1. index'[o][w.id] = IF o = w.to THEN 1 ELSE IF o = w.from THEN 0 ELSE index[o][w.id]
      BY <1>1, <1>3, <1>4 DEF IndexMove
    <3>2. index[o][w.id] = IF o = w.from THEN 1 ELSE 0
      BY <2>1 DEF InBucket
    <3> QED
      BY <2>1, <3>1, <3>2
  <2>3. store'[w.id] = w.to
    BY <1>1, <2>1
  <2> QED
    BY <2>2, <2>3 DEF InBucket
<1>8. \A i \in Ids \ {w.id}, o \in Owners : index'[o][i] = index[o][i]
  BY <1>1, <1>3, <1>4 DEF IndexMove
<1>7. Idle \in CallState /\ WritesOf(Idle) = {} /\ WorkOK(Idle)'
  BY DEF CallState, Idle, WritesOf, WorkOK
<1> QED
  BY <1>0, <1>1, <1>2, <1>3, <1>4, <1>5, <1>6, <1>7, <1>8, Touches

LEMMA DeleteRowInv ==
  ASSUME IInv, repo # "workflows", NEW c \in Clients, NEW i \in Ids, DeleteRow(c, i)
  PROVE  IInv'
<1> DEFINE w == [op |-> "remove", id |-> i, from |-> store[i]]
<1>1. /\ begun' \in 0..MaxCalls /\ UNCHANGED <<repo, shared>> /\ WritesOf(call[c]) = {}
      /\ ~shared => InBucket(i, store[i]) /\ \A d \in Clients : WritesOf(call[d]) \cap {i} = {}
  BY Starts DEF DeleteRow
<1>2. /\ store[i] # None /\ store' = [store EXCEPT ![i] = None] /\ index' = index
      /\ call' = [Disturbed({i}) EXCEPT ![c] = w]
  BY DEF DeleteRow
<1>3. /\ store \in [Ids -> Owners \cup {None}] /\ index \in [Owners -> [Ids -> Nat]]
  BY DEF IInv, TypeOK
<1>4. w \in CallState /\ WritesOf(w) = {i}
  BY <1>2, <1>3 DEF CallState, WritesOf
<1>5. ASSUME NEW r, r = w, ~shared PROVE WorkOK(r)'
  <2>1. store'[i] = None /\ InBucket(i, store[i])
    BY <1>1, <1>2, <1>3, <1>5
  <2>2. r.op = "remove" /\ r.id = i /\ r.from = store[i]
    BY <1>5
  <2> QED
    BY <1>2, <2>1, <2>2 DEF WorkOK, InBucket
<1>6. PICK r : r = w
  OBVIOUS
<1> HIDE DEF w
<1> QED
  BY <1>1, <1>2, <1>3, <1>4, <1>5, <1>6, Touches

LEMMA DeleteIndexRemoveInv == ASSUME IInv, NEW c \in Clients, DeleteIndexRemove(c) PROVE IInv'
<1>0. PICK w : w = call[c]
  OBVIOUS
<1>1. w.op = "remove" /\ Continue(c) /\ index' = IndexRemove(w.from, w.id) /\ store' = store
      /\ call' = [Disturbed({w.id}) EXCEPT ![c] = Idle]
  BY <1>0 DEF DeleteIndexRemove
<1>2. /\ repo # "workflows" /\ begun' \in 0..MaxCalls /\ UNCHANGED <<repo, shared>>
      /\ w \in CallState
      /\ ~shared => WorkOK(w) /\ \A d \in Clients : d # c => WritesOf(call[d]) \cap WritesOf(w) = {}
  BY <1>0, <1>1, GoesOn
<1>3. w.id \in Ids /\ w.from \in Owners /\ WritesOf(w) = {w.id}
  BY <1>1, <1>2, CallShape DEF WritesOf
<1>4. store \in [Ids -> Owners \cup {None}] /\ index \in [Owners -> [Ids -> Nat]]
  BY DEF IInv, TypeOK
<1>5. index' \in [Owners -> [Ids -> Nat]]
  BY <1>1, <1>3, <1>4 DEF IndexRemove
<1>6. ASSUME ~shared PROVE InBucket(w.id, store[w.id])'
  <2>1. store'[w.id] = None /\ InBucket(w.id, w.from)
    BY <1>1, <1>2, <1>6 DEF WorkOK
  <2> QED
    BY <1>1, <1>3, <1>4, <2>1, NoneAssumption DEF InBucket, IndexRemove
<1>7. \A i \in Ids \ {w.id}, o \in Owners : index'[o][i] = index[o][i]
  BY <1>1, <1>3, <1>4 DEF IndexRemove
<1>8. Idle \in CallState /\ WritesOf(Idle) = {} /\ WorkOK(Idle)'
  BY DEF CallState, Idle, WritesOf, WorkOK
<1> QED
  BY <1>0, <1>1, <1>2, <1>3, <1>4, <1>5, <1>6, <1>7, <1>8, Touches

\* The rows whose ids are taken belong to the owner of the bucket, and are in no bucket now.
LEMMA TakeBucketInv ==
  ASSUME IInv, repo # "workflows", NEW c \in Clients, NEW o \in Owners, TakeBucket(c, o)
  PROVE  IInv'
<1> DEFINE B == Bucket(o)
           w == [op |-> "clear", owner |-> o, ids |-> B]
<1>1. /\ index' = [index EXCEPT ![o] = [i \in Ids |-> 0]] /\ store' = store
      /\ call' = [Disturbed(B) EXCEPT ![c] = w]
  BY DEF TakeBucket
<1>2. /\ store \in [Ids -> Owners \cup {None}] /\ index \in [Owners -> [Ids -> Nat]]
  BY DEF IInv, TypeOK
<1>3. B \in SUBSET Ids /\ \A i \in Ids : i \in B <=> index[o][i] > 0
  BY DEF Bucket
<1>4. /\ begun' \in 0..MaxCalls /\ UNCHANGED <<repo, shared>> /\ WritesOf(call[c]) = {}
      /\ ~shared => /\ \A i \in B : InBucket(i, store[i])
                    /\ \A d \in Clients : WritesOf(call[d]) \cap B = {}
  BY <1>3, Starts DEF TakeBucket
<1> HIDE DEF B
<1>5. w \in CallState /\ WritesOf(w) = B
  BY <1>3 DEF CallState, WritesOf
<1>6. /\ index' \in [Owners -> [Ids -> Nat]]
      /\ \A p \in Owners, i \in Ids : index'[p][i] = IF p = o THEN 0 ELSE index[p][i]
  BY <1>1, <1>2
<1>7. \A i \in Ids \ B, p \in Owners : index'[p][i] = index[p][i]
  BY <1>2, <1>3, <1>6
<1>8. ASSUME ~shared, NEW i \in B PROVE store[i] = o /\ InBucket(i, None)'
  <2>1. store[i] = o
    BY <1>3, <1>4, <1>8 DEF InBucket
  <2> QED
    BY <1>3, <1>4, <1>6, <1>8, <2>1, NoneAssumption DEF InBucket
<1>9. ASSUME NEW r, r = w, ~shared PROVE WorkOK(r)'
  <2>1. r.op = "clear" /\ r.owner = o /\ r.ids = B
    BY <1>9
  <2> QED
    BY <1>1, <1>8, <1>9, <2>1 DEF WorkOK
<1>10. PICK r : r = w
  OBVIOUS
<1> HIDE DEF w
<1> QED
  BY <1>1, <1>2, <1>3, <1>4, <1>5, <1>6, <1>7, <1>9, <1>10, Touches

LEMMA RemoveRowsInv == ASSUME IInv, NEW c \in Clients, RemoveRows(c) PROVE IInv'
<1>0. PICK w : w = call[c]
  OBVIOUS
<1>1. w.op = "clear" /\ Continue(c) /\ index' = index
      /\ store' = [i \in Ids |-> IF i \in w.ids THEN None ELSE store[i]]
      /\ call' = [Disturbed(w.ids) EXCEPT ![c] = Idle]
  BY <1>0 DEF RemoveRows
<1>2. /\ repo # "workflows" /\ begun' \in 0..MaxCalls /\ UNCHANGED <<repo, shared>>
      /\ w \in CallState
      /\ ~shared => WorkOK(w) /\ \A d \in Clients : d # c => WritesOf(call[d]) \cap WritesOf(w) = {}
  BY <1>0, <1>1, GoesOn
<1>3. w.ids \in SUBSET Ids /\ WritesOf(w) = w.ids
  BY <1>1, <1>2, CallShape DEF WritesOf
<1>4. store \in [Ids -> Owners \cup {None}] /\ index \in [Owners -> [Ids -> Nat]]
  BY DEF IInv, TypeOK
<1>5. store' \in [Ids -> Owners \cup {None}] /\ \A i \in Ids \ w.ids : store'[i] = store[i]
  BY <1>1, <1>4
<1>6. ASSUME ~shared, NEW i \in w.ids PROVE InBucket(i, store[i])'
  BY <1>1, <1>2, <1>3, <1>6 DEF WorkOK, InBucket
<1>7. Idle \in CallState /\ WritesOf(Idle) = {} /\ WorkOK(Idle)'
  BY DEF CallState, Idle, WritesOf, WorkOK
<1> QED
  BY <1>0, <1>1, <1>2, <1>3, <1>4, <1>5, <1>6, <1>7, Touches

\* A step that writes no row disturbs no listing.
LEMMA NothingDisturbed == ASSUME IInv PROVE call = Disturbed({})
<1>1. \A d \in Clients : call[d] \in CallState
  BY DEF IInv, TypeOK
<1>2. ASSUME NEW v \in CallState, v.op = "list" PROVE [v EXCEPT !.quiet = @ \ {}] = v
  BY <1>2, CallShape
<1>3. \A d \in Clients : Disturbed({})[d] = call[d]
  BY <1>1, <1>2 DEF Disturbed
<1> QED
  BY <1>3 DEF Disturbed, IInv, TypeOK

\* The ids of a listing are those of the rows of its owner, among the rows nobody writes.
LEMMA ListIdsInv ==
  ASSUME IInv, repo # "workflows", NEW c \in Clients, NEW o \in Owners, ListIds(c, o)
  PROVE  IInv'
<1> DEFINE w == [op |-> "list", owner |-> o, ids |-> index[o], quiet |-> {i \in Ids : ~Busy(i)}]
<1>1. /\ begun' \in 0..MaxCalls /\ UNCHANGED <<repo, shared>> /\ WritesOf(call[c]) = {}
  BY Starts DEF ListIds
<1>2. /\ store' = store /\ index' = index /\ call' = [call EXCEPT ![c] = w]
  BY DEF ListIds
<1>3. /\ store \in [Ids -> Owners \cup {None}] /\ index \in [Owners -> [Ids -> Nat]]
  BY DEF IInv, TypeOK
<1>4. w \in CallState /\ WritesOf(w) = {}
  BY <1>3 DEF CallState, WritesOf
<1>5. ASSUME NEW r, r = w, ~shared PROVE WorkOK(r)'
  <2>1. r.op = "list" /\ r.owner = o /\ r.ids = index[o] /\ r.quiet = {i \in Ids : ~Busy(i)}
    BY <1>5
  <2>2. \A i \in Ids : ~Busy(i) => InBucket(i, store[i])
    BY <1>5 DEF IInv, Indexed, RestOK
  <2>3. ASSUME NEW i \in r.quiet PROVE r.ids[i] = IF store[i] = o THEN 1 ELSE 0
    BY <2>1, <2>2, <2>3 DEF InBucket
  <2> QED
    BY <1>2, <2>1, <2>3 DEF WorkOK
<1>6. call = Disturbed({})
  BY NothingDisturbed
<1>7. PICK r : r = w
  OBVIOUS
<1>8. call' = [Disturbed({}) EXCEPT ![c] = r] /\ r \in CallState /\ WritesOf(r) = {}
      /\ (~shared => WorkOK(r)')
  BY <1>2, <1>4, <1>5, <1>6, <1>7
<1> HIDE DEF w
<1> QED
  BY <1>1, <1>2, <1>3, <1>8, Touches

LEMMA ListRowsInv == ASSUME IInv, NEW c \in Clients, ListRows(c) PROVE IInv'
<1>1. /\ call[c].op = "list" /\ Continue(c) /\ UNCHANGED <<store, index>>
      /\ call' = [call EXCEPT ![c] = Idle]
  BY DEF ListRows
<1>2. repo # "workflows" /\ begun' \in 0..MaxCalls /\ UNCHANGED <<repo, shared>>
  BY <1>1, GoesOn
<1>3. WritesOf(call[c]) = {}
  BY <1>1 DEF WritesOf
<1>4. call' = [Disturbed({}) EXCEPT ![c] = Idle]
  BY <1>1, NothingDisturbed
<1>5. store' \in [Ids -> Owners \cup {None}] /\ index' \in [Owners -> [Ids -> Nat]]
  BY <1>1 DEF IInv, TypeOK
<1>6. Idle \in CallState /\ WritesOf(Idle) = {} /\ WorkOK(Idle)'
  BY DEF CallState, Idle, WritesOf, WorkOK
<1> QED
  BY <1>1, <1>2, <1>3, <1>4, <1>5, <1>6, Touches

\* Row and index change in one step.
LEMMA SetStatusInv ==
  ASSUME IInv, repo # "workflows",
         NEW c \in Clients, NEW i \in Ids, NEW o \in Owners, SetStatus(c, i, o)
  PROVE  IInv'
<1>1. /\ begun' \in 0..MaxCalls /\ UNCHANGED <<repo, shared>> /\ WritesOf(call[c]) = {}
      /\ ~shared => InBucket(i, store[i]) /\ \A d \in Clients : WritesOf(call[d]) \cap {i} = {}
  BY Starts DEF SetStatus
<1>2. /\ store[i] # None /\ store' = [store EXCEPT ![i] = o] /\ index' = IndexMove(i, store[i], o)
      /\ call[c] = Idle /\ call' = Disturbed({i})
  BY DEF SetStatus, Begin
<1>3. store \in [Ids -> Owners \cup {None}] /\ index \in [Owners -> [Ids -> Nat]]
  BY DEF IInv, TypeOK
<1>4. store' \in [Ids -> Owners \cup {None}] /\ index' \in [Owners -> [Ids -> Nat]]
  BY <1>2, <1>3 DEF IndexMove
<1>5. ASSUME ~shared PROVE InBucket(i, store[i])'
  <2>1. ASSUME NEW p \in Owners PROVE index'[p][i] = IF p = o THEN 1 ELSE 0
    <3>1. index'[p][i] = IF p = o THEN 1 ELSE IF p = store[i] THEN 0 ELSE index[p][i]
      BY <1>2, <1>3 DEF IndexMove
    <3>2. index[p][i] = IF p = store[i] THEN 1 ELSE 0
      BY <1>1, <1>5 DEF InBucket
    <3> QED
      BY <3>1, <3>2
  <2>2. store'[i] = o
    BY <1>2, <1>3
  <2> QED
    BY <2>1, <2>2 DEF InBucket
<1>6. /\ \A j \in Ids \ {i}, p \in Owners : index'[p][j] = index[p][j]
      /\ \A j \in Ids \ {i} : store'[j] = store[j]
  BY <1>2, <1>3 DEF IndexMove
<1>7. Idle \in CallState /\ WritesOf(Idle) = {} /\ WorkOK(Idle)'
  BY DEF CallState, Idle, WritesOf, WorkOK
<1>8. call' = [Disturbed({i}) EXCEPT ![c] = Idle]
  <2>1. Disturbed({i})[c] = Idle
    BY <1>2 DEF Disturbed, Idle
  <2> QED
    BY <1>2, <2>1 DEF Disturbed
<1> QED
  BY <1>1, <1>4, <1>5, <1>6, <1>7, <1>8, Touches

\* A repository without an index has calls of one step, and none is ever at work.
LEMMA WorkflowReposInv ==
  ASSUME IInv, repo = "workflows", NEW c \in Clients, WorkflowRepos(c) PROVE IInv'
<1>1. PICK i \in Ids : MapDelete(c, i) \/ \E o \in Owners : MapSave(c, i, o)
  BY DEF WorkflowRepos
<1>2. /\ begun \in 0..MaxCalls /\ begun < MaxCalls /\ begun' = begun + 1
      /\ UNCHANGED <<repo, shared, index, call>>
  BY <1>1 DEF MapDelete, MapSave, Begin, IInv, TypeOK
<1>3. begun' \in 0..MaxCalls
  BY <1>2, MaxCallsAssumption
<1>4. store' \in [Ids -> Owners \cup {None}]
  BY <1>1 DEF MapDelete, MapSave, IInv, TypeOK
<1> QED
  BY <1>2, <1>3, <1>4 DEF IInv, TypeOK, Indexed

LEMMA ResumeInv == ASSUME IInv, NEW c \in Clients, Resume(c) PROVE IInv'
  BY SaveIndexAddInv, SaveIndexRemoveInv, SaveIndexMoveInv, DeleteIndexRemoveInv, RemoveRowsInv,
     ListRowsInv DEF Resume

\* Every call that a repository with an index has.
LEMMA CallsInv ==
  ASSUME IInv, repo # "workflows", NEW c \in Clients,
         \/ Upsert(c) \/ Remove(c) \/ ListAll(c) \/ Clear(c)
         \/ \E i \in Ids, o \in Owners : SaveRow(c, i, o)
         \/ \E i \in Ids, o \in Owners : SetStatus(c, i, o)
  PROVE  IInv'
  BY SaveRowInv, DeleteRowInv, ListIdsInv, TakeBucketInv, SetStatusInv
     DEF Upsert, Remove, ListAll, Clear

LEMMA InitIInv == Init => IInv
<1> SUFFICES ASSUME Init PROVE IInv
  OBVIOUS
<1>1. TypeOK
  BY MaxCallsAssumption DEF Init, TypeOK, CallState
<1>2. \A c \in Clients : WorkOK(call[c]) /\ WritesOf(call[c]) = {}
  BY DEF Init, Idle, WorkOK, WritesOf
<1>3. RestOK
  BY NoneAssumption DEF Init, RestOK, InBucket
<1>4. Disjoint
  BY <1>2 DEF Disjoint
<1> QED
  BY <1>1, <1>2, <1>3, <1>4 DEF Init, IInv

\* What each call has left to do is what its rows lack, and no two calls have the
\* same row in hand if callers do not share ids.
THEOREM Invariance == Spec => []IInv
<1>1. IInv /\ [Next]_vars => IInv'
  <2> SUFFICES ASSUME IInv, [Next]_vars PROVE IInv'
    OBVIOUS
  <2>1. CASE UNCHANGED vars
    BY <2>1 DEF vars, IInv, TypeOK, Indexed, WorkOK, RestOK, Disjoint, InBucket, Busy, Writes,
           WritesOf
  <2>2. ASSUME NEW c \in Clients, AssetsRepo(c), repo = "assets" PROVE IInv'
    BY <2>2, CallsInv DEF AssetsRepo
  <2>3. ASSUME NEW c \in Clients, BlocksRepo(c), repo = "blocks" PROVE IInv'
    BY <2>3, CallsInv DEF BlocksRepo
  <2>4. ASSUME NEW c \in Clients, ChunksRepo(c), repo = "chunks" PROVE IInv'
    BY <2>4, CallsInv DEF ChunksRepo
  <2>5. ASSUME NEW c \in Clients, ChunkSetsRepo(c), repo = "chunk_sets" PROVE IInv'
    BY <2>5, CallsInv DEF ChunkSetsRepo
  <2>6. ASSUME NEW c \in Clients, EmbeddingSetsRepo(c), repo = "embedding_sets" PROVE IInv'
    BY <2>6, CallsInv DEF EmbeddingSetsRepo
  <2>7. ASSUME NEW c \in Clients, EmbeddingsRepo(c), repo = "embedding_refs" PROVE IInv'
    <3>1. \A i \in Ids : SetOfKey[i] \in Owners
      BY SetOfKeyAssumption
    <3> QED
      BY <2>7, <3>1, CallsInv DEF EmbeddingsRepo
  <2>8. ASSUME NEW c \in Clients, JobsRepo(c), repo = "jobs" PROVE IInv'
    BY <2>8, CallsInv DEF JobsRepo
  <2> QED
    BY <2>1, <2>2, <2>3, <2>4, <2>5, <2>6, <2>7, <2>8, WorkflowReposInv, ResumeInv DEF Next
<1> QED
  BY <1>1, InitIInv, PTL DEF Spec

\* Every variable holds a value of its kind, whether or not callers share ids.
THEOREM TypeCorrect == Spec => []TypeOK
<1>1. IInv => TypeOK
  BY DEF IInv
<1> QED
  BY <1>1, Invariance, PTL

\* Map and index agree on every row no call is at work on, for any number of
\* callers that do not share ids.
THEOREM IndexAlwaysAgrees == Spec => []IndexAgrees
<1>1. IInv => IndexAgrees
  BY DEF IInv, IndexAgrees, RestOK, InBucket, Indexed
<1> QED
  BY <1>1, Invariance, PTL

\* A listing returns the rows of its owner that no call writes meanwhile, each once.
THEOREM ListingsAreExact == Spec => []ListingExact
<1>1. IInv => ListingExact
  <2> SUFFICES ASSUME IInv, ~shared, NEW c \in Clients, call[c].op = "list",
                      NEW i \in call[c].quiet
               PROVE  Listed(c, i) = IF store[i] = call[c].owner THEN 1 ELSE 0
    BY DEF ListingExact
  <2>1. Indexed
    BY DEF IInv, Idle, Indexed
  <2>2. call[c].ids[i] = IF store[i] = call[c].owner THEN 1 ELSE 0
    BY <2>1 DEF IInv, WorkOK
  <2>3. call[c].owner # None
    BY CallShape, NoneAssumption DEF IInv, TypeOK
  <2> QED
    BY <2>2, <2>3 DEF Listed
<1> QED
  BY <1>1, Invariance, PTL

\* The rows that delete_by is about to remove are those of the owner it was given.
THEOREM OwnRowsAreCleared == Spec => []ClearsOwnRows
<1>1. IInv => ClearsOwnRows
  BY DEF IInv, ClearsOwnRows, WorkOK, Indexed, Idle
<1> QED
  BY <1>1, Invariance, PTL

-----------------------------------------------------------------------------
(* Callers that share ids.  In the repositories whose calls remove only    *)
(* the entry they are answerable for, every entry that a call is about to  *)
(* remove was added, or is about to be added, besides the one of the row.  *)

EntryRepos == {"assets", "chunk_sets", "embedding_sets"}

Adds(w, i, o)    == w.op \in {"add", "move"} /\ w.id = i /\ w.to = o
Removes(w, i, o) == w.op \in {"move", "remove"} /\ w.id = i /\ w.from = o

Adders(i, o)   == {c \in Clients : Adds(call[c], i, o)}
Removers(i, o) == {c \in Clients : Removes(call[c], i, o)}

Count(fact) == IF fact THEN 1 ELSE 0

EntriesOK ==
  repo \in EntryRepos =>
    /\ \A c \in Clients : call[c].op # "clear"
    /\ \A i \in Ids, o \in Owners :
         Cardinality(Removers(i, o)) + Count(store[i] = o)
           <= index[o][i] + Cardinality(Adders(i, o))

\* Sets of callers that differ in c only.
LEMMA OneCaller ==
  ASSUME IsFiniteSet(Clients), NEW c \in Clients, NEW S \in SUBSET Clients, NEW R \in SUBSET Clients,
         \A d \in Clients : d # c => (d \in R <=> d \in S)
  PROVE  /\ Cardinality(S) \in Nat /\ Cardinality(R) \in Nat
         /\ Cardinality(R) = Cardinality(S) - Count(c \in S) + Count(c \in R)
<1>1. IsFiniteSet(S) /\ IsFiniteSet(R)
  BY FS_Subset
<1>2. Cardinality(S) \in Nat /\ Cardinality(R) \in Nat
  BY <1>1, FS_CardinalityType
<1>3. CASE c \in S <=> c \in R
  <2>1. R = S
    BY <1>3
  <2> QED
    BY <1>2, <2>1 DEF Count
<1>4. CASE c \in S /\ c \notin R
  <2>1. R = S \ {c}
    BY <1>4
  <2>2. Cardinality(R) = Cardinality(S) - 1
    BY <1>1, <1>4, <2>1, FS_RemoveElement
  <2> QED
    BY <1>2, <1>4, <2>2 DEF Count
<1>5. CASE c \notin S /\ c \in R
  <2>1. R = S \cup {c}
    BY <1>5
  <2>2. Cardinality(R) = Cardinality(S) + 1
    BY <1>1, <1>5, <2>1, FS_AddElement
  <2> QED
    BY <1>2, <1>5, <2>2 DEF Count
<1> QED
  BY <1>3, <1>4, <1>5

\* A step of client c that changes its promises as it changes map and index.
LEMMA KeepsEntries ==
  ASSUME IsFiniteSet(Clients), TypeOK, EntriesOK, repo \in EntryRepos, UNCHANGED repo,
         NEW c \in Clients, NEW S, NEW w \in CallState, w.op # "clear",
         call' = [Disturbed(S) EXCEPT ![c] = w], index' \in [Owners -> [Ids -> Nat]],
         \A i \in Ids, o \in Owners :
           Count(Removes(w, i, o)) - Count(Removes(call[c], i, o))
               + Count(store'[i] = o) - Count(store[i] = o)
             <= index'[o][i] - index[o][i] + Count(Adds(w, i, o)) - Count(Adds(call[c], i, o))
  PROVE  EntriesOK'
<1>1. /\ call' \in [Clients -> CallState] /\ call'[c] = w
      /\ \A d \in Clients : d # c => call'[d] = Quieted(call[d], S)
  BY CallAfter
<1>2. ASSUME NEW d \in Clients, d # c
      PROVE  call'[d].op = call[d].op /\ (call[d].op # "list" => call'[d] = call[d])
  <2>1. call[d] \in CallState /\ call'[d] = Quieted(call[d], S)
    BY <1>1, <1>2 DEF TypeOK
  <2> QED
    BY <2>1, QuietedKeeps
<1>3. \A d \in Clients : call'[d].op # "clear"
  BY <1>1, <1>2 DEF EntriesOK
<1>4. ASSUME NEW i \in Ids, NEW o \in Owners
      PROVE  Cardinality(Removers(i, o)') + Count(store'[i] = o)
               <= index'[o][i] + Cardinality(Adders(i, o)')
  <2>1. /\ \A d \in Clients : d # c => (d \in Removers(i, o)' <=> d \in Removers(i, o))
        /\ \A d \in Clients : d # c => (d \in Adders(i, o)' <=> d \in Adders(i, o))
    BY <1>2 DEF Removers, Adders, Removes, Adds
  <2>2. /\ c \in Removers(i, o)' <=> Removes(w, i, o)
        /\ c \in Removers(i, o) <=> Removes(call[c], i, o)
        /\ c \in Adders(i, o)' <=> Adds(w, i, o)
        /\ c \in Adders(i, o) <=> Adds(call[c], i, o)
    BY <1>1 DEF Removers, Adders, Removes, Adds
  <2> DEFINE R == Removers(i, o)
             A == Adders(i, o)
             Q == Removers(i, o)'
             B == Adders(i, o)'
  <2>3. R \in SUBSET Clients /\ A \in SUBSET Clients /\ Q \in SUBSET Clients /\ B \in SUBSET Clients
    BY DEF Removers, Adders
  <2> HIDE DEF R, A, Q, B
  <2>4. /\ Cardinality(R) \in Nat /\ Cardinality(Q) \in Nat
        /\ Cardinality(Q) = Cardinality(R) - Count(c \in R) + Count(c \in Q)
    BY <2>1, <2>3, OneCaller DEF R, Q
  <2>5. /\ Cardinality(A) \in Nat /\ Cardinality(B) \in Nat
        /\ Cardinality(B) = Cardinality(A) - Count(c \in A) + Count(c \in B)
    BY <2>1, <2>3, OneCaller DEF A, B
  <2>6. Cardinality(R) + Count(store[i] = o) <= index[o][i] + Cardinality(A)
    BY DEF EntriesOK, R, A
  <2>7. Count(c \in Q) - Count(c \in R) + Count(store'[i] = o) - Count(store[i] = o)
          <= index'[o][i] - index[o][i] + Count(c \in B) - Count(c \in A)
    BY <2>2 DEF R, A, Q, B, Count
  <2>8. index[o][i] \in Nat /\ index'[o][i] \in Nat
    BY DEF TypeOK
  <2>9. \A fact : Count(fact) \in 0..1
    BY DEF Count
  <2>10. Cardinality(Q) + Count(store'[i] = o) <= index'[o][i] + Cardinality(B)
    BY <2>4, <2>5, <2>6, <2>7, <2>8, <2>9
  <2> QED
    BY <2>10 DEF Q, B
<1> QED
  BY <1>3, <1>4 DEF EntriesOK, Removers, Adders, Removes, Adds, Count

\* A new row is owed an entry, a row that moves is owed one and gives one up.
LEMMA SaveRowEntries ==
  ASSUME IsFiniteSet(Clients), TypeOK, EntriesOK, repo \in EntryRepos,
         NEW c \in Clients, NEW i \in Ids, NEW o \in Owners, SaveRow(c, i, o)
  PROVE  EntriesOK'
<1>0. PICK w : w = IndexWork(i, store[i], o)
  OBVIOUS
<1>1. /\ call[c] = Idle /\ UNCHANGED <<repo, index>> /\ store' = [store EXCEPT ![i] = o]
      /\ call' = [Disturbed({i}) EXCEPT ![c] = w]
  BY <1>0 DEF SaveRow, Begin
<1>2. store \in [Ids -> Owners \cup {None}] /\ index \in [Owners -> [Ids -> Nat]]
  BY DEF TypeOK
<1>3. w \in CallState /\ w.op # "clear"
  BY <1>0, <1>2 DEF IndexWork, CallState, Idle
<1>4. \A j \in Ids, p \in Owners : ~Removes(call[c], j, p) /\ ~Adds(call[c], j, p)
  BY <1>1 DEF Idle, Removes, Adds
<1>5. ASSUME NEW j \in Ids, NEW p \in Owners
      PROVE  /\ store'[j] = IF j = i THEN o ELSE store[j]
             /\ Removes(w, j, p) <=> j = i /\ store[i] = p /\ p # o
             /\ Adds(w, j, p) <=> j = i /\ p = o /\ store[i] # o
  BY <1>0, <1>1, <1>2, NoneAssumption DEF IndexWork, Idle, Removes, Adds
<1>6. ASSUME NEW j \in Ids, NEW p \in Owners
      PROVE  Count(Removes(w, j, p)) - Count(Removes(call[c], j, p))
                 + Count(store'[j] = p) - Count(store[j] = p)
               <= index'[p][j] - index[p][j] + Count(Adds(w, j, p)) - Count(Adds(call[c], j, p))
  <2>1. index[p][j] \in Nat /\ index'[p][j] = index[p][j]
    BY <1>1, <1>2
  <2> QED
    BY <1>4, <1>5, <2>1 DEF Count
<1> QED
  BY <1>1, <1>2, <1>3, <1>6, KeepsEntries

\* The row that is deleted leaves its entry to be removed.
LEMMA DeleteRowEntries ==
  ASSUME IsFiniteSet(Clients), TypeOK, EntriesOK, repo \in EntryRepos,
         NEW c \in Clients, NEW i \in Ids, DeleteRow(c, i)
  PROVE  EntriesOK'
<1>0. PICK w : w = [op |-> "remove", id |-> i, from |-> store[i]]
  OBVIOUS
<1>1. /\ call[c] = Idle /\ UNCHANGED <<repo, index>> /\ store' = [store EXCEPT ![i] = None]
      /\ store[i] # None /\ call' = [Disturbed({i}) EXCEPT ![c] = w]
  BY <1>0 DEF DeleteRow, Begin
<1>2. store \in [Ids -> Owners \cup {None}] /\ index \in [Owners -> [Ids -> Nat]]
  BY DEF TypeOK
<1>3. w \in CallState /\ w.op # "clear"
  BY <1>0, <1>1, <1>2 DEF CallState
<1>4. \A j \in Ids, p \in Owners : ~Removes(call[c], j, p) /\ ~Adds(call[c], j, p)
  BY <1>1 DEF Idle, Removes, Adds
<1>5. ASSUME NEW j \in Ids, NEW p \in Owners
      PROVE  /\ store'[j] = IF j = i THEN None ELSE store[j]
             /\ Removes(w, j, p) <=> j = i /\ store[i] = p
             /\ ~Adds(w, j, p)
  BY <1>0, <1>1, <1>2 DEF Removes, Adds
<1>6. ASSUME NEW j \in Ids, NEW p \in Owners
      PROVE  Count(Removes(w, j, p)) - Count(Removes(call[c], j, p))
                 + Count(store'[j] = p) - Count(store[j] = p)
               <= index'[p][j] - index[p][j] + Count(Adds(w, j, p)) - Count(Adds(call[c], j, p))
  <2>1. index[p][j] \in Nat /\ index'[p][j] = index[p][j]
    BY <1>1, <1>2
  <2> QED
    BY <1>4, <1>5, <2>1, NoneAssumption DEF Count
<1> QED
  BY <1>1, <1>2, <1>3, <1>6, KeepsEntries

\* A call that goes on redeems one promise: the entry is added, or one is removed
\* if there is any.
LEMMA GoesOnEntries ==
  ASSUME IsFiniteSet(Clients), TypeOK, EntriesOK, repo \in EntryRepos, NEW c \in Clients,
         SaveIndexAdd(c) \/ SaveIndexRemove(c) \/ DeleteIndexRemove(c)
  PROVE  EntriesOK'
<1>1. PICK v : v = call[c]
  OBVIOUS
<1>2. PICK w : w = IF v.op = "move" THEN [op |-> "add", id |-> v.id, to |-> v.to] ELSE Idle
  OBVIOUS
<1>3. /\ v.op \in {"add", "move", "remove"} /\ UNCHANGED <<repo, store>>
      /\ call' = [Disturbed({v.id}) EXCEPT ![c] = w]
      /\ index' = IF v.op = "add" THEN IndexAdd(v.to, v.id) ELSE IndexRemove(v.from, v.id)
  BY <1>1, <1>2 DEF SaveIndexAdd, SaveIndexRemove, DeleteIndexRemove, Continue
<1>4. v \in CallState /\ index \in [Owners -> [Ids -> Nat]] /\ ~IsSet
  BY <1>1 DEF TypeOK, EntryRepos, IsSet
<1>5. /\ v.id \in Ids
      /\ v.op \in {"add", "move"} => v.to \in Owners
      /\ v.op \in {"move", "remove"} => v.from \in Owners
  BY <1>3, <1>4, CallShape
<1>6. w \in CallState /\ w.op # "clear"
  BY <1>2, <1>5 DEF CallState, Idle
<1>7. index' \in [Owners -> [Ids -> Nat]]
  BY <1>3, <1>4, <1>5 DEF IndexAdd, IndexRemove
<1>8. ASSUME NEW j \in Ids, NEW p \in Owners
      PROVE  Count(Removes(w, j, p)) - Count(Removes(v, j, p))
               <= index'[p][j] - index[p][j] + Count(Adds(w, j, p)) - Count(Adds(v, j, p))
  <2>1. index[p][j] \in Nat
    BY <1>4
  <2>2. CASE v.op = "add"
    <3>1. index'[p][j] = IF p = v.to /\ j = v.id THEN index[p][j] + 1 ELSE index[p][j]
      BY <1>3, <1>4, <1>5, <2>2 DEF IndexAdd
    <3>2. w = Idle
      BY <1>2, <2>2
    <3> QED
      BY <2>1, <2>2, <3>1, <3>2 DEF Idle, Removes, Adds, Count
  <2>3. CASE v.op \in {"move", "remove"}
    <3>1. index'[p][j] = IF p = v.from /\ j = v.id
                           THEN (IF index[p][j] > 0 THEN index[p][j] - 1 ELSE 0)
                           ELSE index[p][j]
      BY <1>3, <1>4, <1>5, <2>3 DEF IndexRemove
    <3>2. ~Removes(w, j, p) /\ (Adds(w, j, p) <=> Adds(v, j, p))
      BY <1>2, <2>3 DEF Idle, Removes, Adds
    <3>3. Removes(v, j, p) <=> p = v.from /\ j = v.id
      BY <2>3 DEF Removes
    <3> QED
      BY <2>1, <3>1, <3>2, <3>3 DEF Count
  <2> QED
    BY <1>3, <2>2, <2>3
<1>9. ASSUME NEW j \in Ids, NEW p \in Owners
      PROVE  Count(Removes(w, j, p)) - Count(Removes(call[c], j, p))
                 + Count(store'[j] = p) - Count(store[j] = p)
               <= index'[p][j] - index[p][j] + Count(Adds(w, j, p)) - Count(Adds(call[c], j, p))
  <2>1. store' = store /\ call[c] = v
    BY <1>1, <1>3
  <2>2. \A fact : Count(fact) \in 0..1
    BY DEF Count
  <2>3. index[p][j] \in Nat /\ index'[p][j] \in Nat
    BY <1>4, <1>7
  <2>4. Count(store'[j] = p) = Count(store[j] = p)
    BY <2>1
  <2> QED
    BY <1>8, <2>1, <2>2, <2>3, <2>4
<1> QED
  BY <1>3, <1>6, <1>7, <1>9, KeepsEntries

\* A listing promises nothing.
LEMMA ListEntries ==
  ASSUME IsFiniteSet(Clients), IInv, EntriesOK, repo \in EntryRepos, NEW c \in Clients,
         ListRows(c) \/ \E o \in Owners : ListIds(c, o)
  PROVE  EntriesOK'
<1>1. TypeOK /\ index \in [Owners -> [Ids -> Nat]]
  BY DEF IInv, TypeOK
<1>2. PICK w \in CallState : w.op \in {"idle", "list"} /\ call' = [call EXCEPT ![c] = w]
  <2>1. CASE ListRows(c)
    BY <2>1 DEF ListRows, CallState, Idle
  <2>2. ASSUME NEW o \in Owners, ListIds(c, o)
        PROVE  \E w \in CallState : w.op \in {"idle", "list"} /\ call' = [call EXCEPT ![c] = w]
    <3> DEFINE l == [op |-> "list", owner |-> o, ids |-> index[o], quiet |-> {i \in Ids : ~Busy(i)}]
    <3>1. l \in CallState
      BY <1>1 DEF CallState
    <3>2. l.op = "list" /\ call' = [call EXCEPT ![c] = l]
      BY <2>2 DEF ListIds
    <3> QED
      BY <3>1, <3>2
  <2> QED
    BY <2>1, <2>2
<1>3. UNCHANGED <<repo, store, index>> /\ call[c].op \in {"idle", "list"}
  BY DEF ListRows, ListIds, Begin, Continue, Idle
<1>4. call' = [Disturbed({}) EXCEPT ![c] = w]
  BY <1>2, NothingDisturbed
<1>5. \A j \in Ids, p \in Owners :
        /\ ~Removes(call[c], j, p) /\ ~Adds(call[c], j, p)
        /\ ~Removes(w, j, p) /\ ~Adds(w, j, p)
  BY <1>2, <1>3 DEF Removes, Adds
<1>6. ASSUME NEW j \in Ids, NEW p \in Owners
      PROVE  Count(Removes(w, j, p)) - Count(Removes(call[c], j, p))
                 + Count(store'[j] = p) - Count(store[j] = p)
               <= index'[p][j] - index[p][j] + Count(Adds(w, j, p)) - Count(Adds(call[c], j, p))
  <2>1. index[p][j] \in Nat /\ index'[p][j] = index[p][j] /\ store' = store
    BY <1>1, <1>3
  <2> QED
    BY <1>5, <2>1 DEF Count
<1>7. w.op # "clear" /\ index' \in [Owners -> [Ids -> Nat]]
  BY <1>1, <1>2, <1>3
<1> QED
  BY <1>1, <1>3, <1>4, <1>6, <1>7, KeepsEntries

LEMMA InitEntries == ASSUME IsFiniteSet(Clients), Init PROVE EntriesOK
<1>1. ASSUME NEW i \in Ids, NEW o \in Owners
      PROVE  Cardinality(Removers(i, o)) + Count(store[i] = o)
               <= index[o][i] + Cardinality(Adders(i, o))
  <2>1. Removers(i, o) = {} /\ Adders(i, o) = {}
    BY DEF Init, Idle, Removers, Adders, Removes, Adds
  <2>2. Cardinality(Removers(i, o)) = 0 /\ Cardinality(Adders(i, o)) = 0
    BY <2>1, FS_EmptySet
  <2>3. store[i] # o /\ index[o][i] = 0
    BY NoneAssumption DEF Init
  <2> QED
    BY <2>2, <2>3 DEF Count
<1>2. \A c \in Clients : call[c].op # "clear"
  BY DEF Init, Idle
<1> QED
  BY <1>1, <1>2 DEF EntriesOK

\* The invariant of the entries: what is stored or still to be removed is covered
\* by what is in the index or still to be added.
LEMMA StepEntries ==
  ASSUME IsFiniteSet(Clients), IInv, EntriesOK, [Next]_vars PROVE EntriesOK'
<1>1. CASE UNCHANGED vars
  BY <1>1 DEF vars, EntriesOK, Removers, Adders, Removes, Adds, Count
<1>2. CASE Next
  <2>1. UNCHANGED repo /\ TypeOK
    BY <1>2 DEF IInv, Next, AssetsRepo, BlocksRepo, ChunksRepo, ChunkSetsRepo, EmbeddingSetsRepo,
                EmbeddingsRepo, JobsRepo, WorkflowRepos, Upsert, Remove, ListAll, Clear, Resume,
                SaveRow, DeleteRow, ListIds, TakeBucket, SetStatus, MapSave, MapDelete, Begin,
                SaveIndexAdd, SaveIndexRemove, SaveIndexMove, DeleteIndexRemove, RemoveRows,
                ListRows, Continue
  <2>2. CASE repo \notin EntryRepos
    BY <2>1, <2>2 DEF EntriesOK
  <2>3. CASE repo \in EntryRepos
    <3>1. PICK c \in Clients : Upsert(c) \/ Remove(c) \/ ListAll(c) \/ Resume(c)
      BY <1>2, <2>3 DEF Next, EntryRepos, AssetsRepo, ChunkSetsRepo, EmbeddingSetsRepo
    <3>2. ~RemoveRows(c) /\ ~SaveIndexMove(c)
      BY <2>3 DEF EntriesOK, RemoveRows, SaveIndexMove, IsSet, EntryRepos
    <3> QED
      BY <2>1, <2>3, <3>1, <3>2, SaveRowEntries, DeleteRowEntries, GoesOnEntries, ListEntries
         DEF Upsert, Remove, ListAll, Resume
  <2> QED
    BY <2>2, <2>3
<1> QED
  BY <1>1, <1>2

\* Every stored row no call is at work on is found by a listing: where callers do
\* not share ids because map and index agree, and in the repositories of assets,
\* chunk sets and embedding sets, however many callers write the row at once,
\* because no call removes an entry that another one needs.
THEOREM RowsAlwaysListed ==
  ASSUME IsFiniteSet(Clients) PROVE Spec => []RowsStayListed
<1>1. Init => EntriesOK
  BY InitEntries
<1>2. IInv /\ EntriesOK /\ [Next]_vars => EntriesOK'
  BY StepEntries
<1>3. IInv /\ EntriesOK => RowsStayListed
  <2> SUFFICES ASSUME IInv, EntriesOK, repo \in EntryRepos \/ ~shared, Indexed,
                      NEW i \in Ids, ~Busy(i), store[i] # None
               PROVE  index[store[i]][i] > 0
    BY DEF RowsStayListed, RowsListed, EntryRepos
  <2>1. PICK o \in Owners : store[i] = o
    BY DEF IInv, TypeOK
  <2>2. CASE ~shared
    BY <2>1, <2>2 DEF IInv, RestOK, InBucket
  <2>3. CASE repo \in EntryRepos
    <3>1. Adders(i, o) = {}
      BY DEF Adders, Adds, Busy, Writes
    <3>2. Cardinality(Adders(i, o)) = 0
      BY <3>1, FS_EmptySet
    <3>3. IsFiniteSet(Removers(i, o))
      <4>1. Removers(i, o) \subseteq Clients
        BY DEF Removers
      <4> QED
        BY <4>1, FS_Subset
    <3>4. Cardinality(Removers(i, o)) \in Nat
      BY <3>3, FS_CardinalityType
    <3>5. Cardinality(Removers(i, o)) + 1 <= index[o][i] + 0
      BY <2>1, <2>3, <3>2 DEF EntriesOK, Count
    <3>6. index[o][i] \in Nat
      BY DEF IInv, TypeOK
    <3> QED
      BY <2>1, <3>4, <3>5, <3>6
  <2> QED
    BY <2>2, <2>3
<1> QED
  BY <1>1, <1>2, <1>3, Invariance, PTL DEF Spec


-----------------------------------------------------------------------------
(* Tenants: the invariants.                                                *)

Working(c) == at[c] # T!Resting

\* The call has a row to write, or one to take out of the indices.
Settling(c) == at[c].op \in {"saveEmail", "saveRow", "unindex"}

\* In Postgres there is no index, a create is the only call of several steps, and
\* the constraints hold.
PgOK ==
  backend = "pg" =>
    /\ \A c \in Callers : ~Settling(c)
    /\ \A n \in Names : byName[n] = Nobody
    /\ \A e \in Emails : byEmail[e] = Nobody
    /\ \A s, t \in T!Stored : s # t => byId[s].name # byId[t].name /\ byId[s].email # byId[t].email

\* Callers at work have different names and emails in hand.
CallersApart ==
  \A c, d \in Callers : c # d /\ Working(c) /\ Working(d) =>
    at[c].name # at[d].name /\ at[c].email # at[d].email

\* What a create has looked up is still so.
ReadsHold ==
  \A c \in Callers :
    /\ at[c].op \in {"readEmail", "match"} => at[c].idOfName = byName[at[c].name]
    /\ at[c].op = "match" => at[c].idOfEmail = byEmail[at[c].email]

\* What a save has indexed is still indexed, and the rest is free.
SavesHold ==
  \A c \in Callers :
    /\ at[c].op \in {"saveEmail", "saveRow"} => byName[at[c].name] = at[c].id
    /\ at[c].op = "saveEmail" => \A t \in T!Stored : byId[t].email = at[c].email => t = at[c].id
    /\ at[c].op = "saveRow" => byEmail[at[c].email] = at[c].id

\* No row has the name or the email that a delete is about to forget.
DeletesHold ==
  \A c \in Callers : at[c].op = "unindex" =>
    \A t \in T!Stored : byId[t].name # at[c].name /\ byId[t].email # at[c].email

RowsIndexed == \A t \in T!Stored : byName[byId[t].name] = t /\ byEmail[byId[t].email] = t

MemOK ==
  backend = "mem" /\ contract # "racing" =>
    CallersApart /\ ReadsHold /\ SavesHold /\ DeletesHold /\ RowsIndexed

\* An id that a call is still writing or forgetting has no row, and no two calls
\* have the same.
IdsFresh ==
  /\ T!Stored \subseteq used
  /\ \A c \in Callers : Settling(c) => at[c].id \in used /\ byId[at[c].id] = Nobody
  /\ \A c, d \in Callers : c # d /\ Settling(c) /\ Settling(d) => at[c].id # at[d].id

\* An index names a row that has the name, or one that a call is at work on.
EntriesExplained ==
  /\ \A n \in Names : byName[n] # Nobody =>
       \/ byId[byName[n]] # Nobody /\ byId[byName[n]].name = n
       \/ \E c \in Callers : Settling(c) /\ at[c].id = byName[n] /\ at[c].name = n
  /\ \A e \in Emails : byEmail[e] # Nobody =>
       \/ byId[byEmail[e]] # Nobody /\ byId[byEmail[e]].email = e
       \/ \E c \in Callers : Settling(c) /\ at[c].id = byEmail[e] /\ at[c].email = e

FreshOK == backend = "mem" /\ contract # "renaming" => IdsFresh /\ EntriesExplained

TenantsInv == T!TypeOK /\ PgOK /\ MemOK /\ FreshOK

-----------------------------------------------------------------------------
(* Tenants: the calls.                                                     *)

\* The fields that a call has at each point.
LEMMA PendingShape ==
  ASSUME NEW w \in T!Pending
  PROVE  /\ w.op \in {"idle", "readEmail", "match", "saveEmail", "saveRow", "unindex"}
         /\ w.op = "idle" <=> w = T!Resting
         /\ w.op # "idle" => w.name \in Names /\ w.email \in Emails
         /\ w.op \in {"readEmail", "match"} => w.idOfName \in TenantIds \cup {Nobody}
         /\ w.op = "match" => w.idOfEmail \in TenantIds \cup {Nobody}
         /\ w.op \in {"saveEmail", "saveRow", "unindex"} => w.id \in TenantIds
  BY DEF T!Pending, T!Resting

\* A row has a name and an email.
LEMMA RowShape ==
  ASSUME T!TypeOK
  PROVE  /\ \A t \in T!Stored : byId[t] \in T!Row /\ byId[t].name \in Names /\ byId[t].email \in Emails
         /\ T!Stored \subseteq TenantIds
  BY DEF T!TypeOK, T!Stored, T!Row

\* A call that starts is one more, and nobody else has its name or email in hand
\* unless creates race.
LEMMA BeginsApart ==
  ASSUME T!TypeOK, NEW c \in Callers, NEW w \in T!Pending, T!BeginCall(c),
         T!Allowed(w.name, w.email), w.op # "idle", at' = [at EXCEPT ![c] = w]
  PROVE  /\ calls' \in 0..MaxTenantCalls /\ UNCHANGED <<backend, contract>>
         /\ at' \in [Callers -> T!Pending]
         /\ contract # "racing" => \A d \in Callers : Working(d) => at[d].name # w.name /\ at[d].email # w.email
  BY TenantsAssumption DEF T!TypeOK, T!BeginCall, T!Allowed, T!Overlaps, Working

-----------------------------------------------------------------------------
(* Tenants: types, and what Postgres keeps.                                *)

LEMMA TenantsTyped == ASSUME T!TypeOK, T!Next PROVE T!TypeOK'
<1>1. PICK c \in Callers :
        \/ \E n \in Names, e \in Emails : T!CreateReadName(c, n, e)
        \/ T!CreateReadEmail(c) \/ T!CreateExisting(c)
        \/ T!MemTenantsRepo(c)
        \/ T!PgTenantsRepo(c)
  BY DEF T!Next
<1>2. at[c] \in T!Pending /\ byId \in [TenantIds -> T!Row \cup {Nobody}] /\ calls \in 0..MaxTenantCalls
  BY DEF T!TypeOK
<1>3. \A n \in Names, e \in Emails :
        T!IdOfName(n) \in TenantIds \cup {Nobody} /\ T!IdOfEmail(e) \in TenantIds \cup {Nobody}
  <2>1. ASSUME NEW n \in Names PROVE T!IdOfName(n) \in TenantIds \cup {Nobody}
    <3>1. CASE backend = "mem"
      BY <3>1 DEF T!IdOfName, T!TypeOK
    <3>2. CASE backend # "mem" /\ \E t \in T!Stored : byId[t].name = n
      <4>1. PICK t \in T!Stored : byId[t].name = n
        BY <3>2
      <4>2. (CHOOSE s \in T!Stored : byId[s].name = n) \in T!Stored
        BY <4>1
      <4> QED
        BY <3>2, <4>2, RowShape DEF T!IdOfName
    <3>3. CASE backend # "mem" /\ ~\E t \in T!Stored : byId[t].name = n
      BY <3>3 DEF T!IdOfName
    <3> QED
      BY <3>1, <3>2, <3>3
  <2>2. ASSUME NEW e \in Emails PROVE T!IdOfEmail(e) \in TenantIds \cup {Nobody}
    <3>1. CASE backend = "mem"
      BY <3>1 DEF T!IdOfEmail, T!TypeOK
    <3>2. CASE backend # "mem" /\ \E t \in T!Stored : byId[t].email = e
      <4>1. PICK t \in T!Stored : byId[t].email = e
        BY <3>2
      <4>2. (CHOOSE s \in T!Stored : byId[s].email = e) \in T!Stored
        BY <4>1
      <4> QED
        BY <3>2, <4>2, RowShape DEF T!IdOfEmail
    <3>3. CASE backend # "mem" /\ ~\E t \in T!Stored : byId[t].email = e
      BY <3>3 DEF T!IdOfEmail
    <3> QED
      BY <3>1, <3>2, <3>3
  <2> QED
    BY <2>1, <2>2
<1>4. T!BeginCall(c) => calls' \in 0..MaxTenantCalls /\ UNCHANGED <<backend, contract>>
  BY <1>2, TenantsAssumption DEF T!BeginCall
<1>5. ASSUME NEW n \in Names, NEW e \in Emails, T!CreateReadName(c, n, e) PROVE T!TypeOK'
  <2>1. at' \in [Callers -> T!Pending]
    BY <1>3, <1>5 DEF T!CreateReadName, T!TypeOK, T!Pending
  <2> QED
    BY <1>4, <1>5, <2>1 DEF T!CreateReadName, T!TypeOK
<1>6. CASE T!CreateReadEmail(c)
  <2>1. at' \in [Callers -> T!Pending]
    BY <1>2, <1>3, <1>6, PendingShape DEF T!CreateReadEmail, T!Go, T!TypeOK, T!Pending
  <2> QED
    BY <1>6, <2>1 DEF T!CreateReadEmail, T!Go, T!TypeOK
<1>7. CASE T!CreateExisting(c)
  BY <1>7 DEF T!CreateExisting, T!Go, T!TypeOK, T!Pending
<1>8. CASE T!CreateNew(c)
  <2>1. PICK id \in TenantIds \ used :
          /\ used' = used \cup {id}
          /\ byName' = [byName EXCEPT ![at[c].name] = id]
          /\ T!Go(c, [op |-> "saveEmail", name |-> at[c].name, email |-> at[c].email, id |-> id])
    BY <1>8 DEF T!CreateNew
  <2>2. at[c].op = "match" /\ UNCHANGED <<byId, byEmail>>
    BY <1>8 DEF T!CreateNew
  <2>3. at' \in [Callers -> T!Pending]
    BY <1>2, <2>1, <2>2, PendingShape DEF T!Go, T!TypeOK, T!Pending
  <2> QED
    BY <2>1, <2>2, <2>3 DEF T!Go, T!TypeOK
<1>9. CASE T!SaveEmail(c)
  <2>1. at[c].op = "saveEmail" /\ at[c].id \in TenantIds
    BY <1>2, <1>9, PendingShape DEF T!SaveEmail
  <2>2. [at[c] EXCEPT !.op = "saveRow"] \in T!Pending
    BY <1>2, <2>1 DEF T!Pending, T!Resting
  <2> QED
    BY <1>9, <2>1, <2>2 DEF T!SaveEmail, T!Go, T!TypeOK
<1>10. CASE T!SaveRow(c)
  <2>1. at[c].name \in Names /\ at[c].email \in Emails
    BY <1>2, <1>10, PendingShape DEF T!SaveRow
  <2>2. byId' \in [TenantIds -> T!Row \cup {Nobody}]
    BY <1>2, <1>10, <2>1 DEF T!SaveRow, T!Row
  <2> QED
    BY <1>10, <2>2 DEF T!SaveRow, T!Go, T!TypeOK, T!Pending
<1>11. CASE T!DeleteEntries(c)
  <2>1. at[c].id \in TenantIds
    BY <1>2, <1>11, PendingShape DEF T!DeleteEntries
  <2> QED
    BY <1>11, <2>1 DEF T!DeleteEntries, T!Without, T!Go, T!TypeOK, T!Pending
<1>12. ASSUME NEW id \in TenantIds, T!DeleteRow(c, id) PROVE T!TypeOK'
  <2>1. byId[id].name \in Names /\ byId[id].email \in Emails
    BY <1>12, RowShape DEF T!DeleteRow
  <2>2. at' \in [Callers -> T!Pending]
    BY <1>12, <2>1 DEF T!DeleteRow, T!TypeOK, T!Pending
  <2> QED
    BY <1>4, <1>12, <2>2 DEF T!DeleteRow, T!TypeOK
<1>13. ASSUME NEW id \in TenantIds, NEW r \in T!Row, T!SaveName(c, id, r) PROVE T!TypeOK'
  <2>1. r.name \in Names /\ r.email \in Emails
    BY DEF T!Row
  <2>2. at' \in [Callers -> T!Pending]
    BY <1>13, <2>1 DEF T!SaveName, T!TypeOK, T!Pending
  <2> QED
    BY <1>4, <1>13, <2>2 DEF T!SaveName, T!TypeOK
<1>14. CASE T!InsertNew(c)
  <2>1. [name |-> at[c].name, email |-> at[c].email] \in T!Row
    BY <1>2, <1>14, PendingShape DEF T!InsertNew, T!Row
  <2>2. at' \in [Callers -> T!Pending]
    BY <1>14 DEF T!InsertNew, T!Go, T!TypeOK, T!Pending
  <2>3. byId' \in [TenantIds -> T!Row \cup {Nobody}] /\ used' \subseteq TenantIds
    BY <1>2, <1>14, <2>1 DEF T!InsertNew, T!TypeOK
  <2> QED
    BY <1>14, <2>2, <2>3 DEF T!InsertNew, T!Go, T!TypeOK
<1>15. ASSUME NEW id \in TenantIds, T!DeleteStatement(c, id) PROVE T!TypeOK'
  BY <1>4, <1>15 DEF T!DeleteStatement, T!TypeOK
<1>16. ASSUME NEW id \in TenantIds, NEW r \in T!Row, T!UpsertRow(c, id, r) PROVE T!TypeOK'
  BY <1>4, <1>16 DEF T!UpsertRow, T!TypeOK
<1> QED
  BY <1>1, <1>5, <1>6, <1>7, <1>8, <1>9, <1>10, <1>11, <1>12, <1>13, <1>14, <1>15, <1>16
     DEF T!MemTenantsRepo, T!PgTenantsRepo

\* The steps there are in Postgres.
LEMMA PgSteps ==
  ASSUME T!TypeOK, PgOK, backend = "pg", T!Next
  PROVE  /\ UNCHANGED <<backend, contract, byName, byEmail>>
         /\ \E c \in Callers : \E w \in T!Pending :
              w.op \in {"idle", "readEmail", "match"} /\ (at' = [at EXCEPT ![c] = w] \/ UNCHANGED at)
         /\ \/ UNCHANGED byId
            \/ \E id \in TenantIds : byId' = [byId EXCEPT ![id] = Nobody]
            \/ \E id \in TenantIds, r \in T!Row : T!Unique(id, r) /\ byId' = [byId EXCEPT ![id] = r]
<1>1. PICK c \in Callers :
        \/ \E n \in Names, e \in Emails : T!CreateReadName(c, n, e)
        \/ T!CreateReadEmail(c) \/ T!CreateExisting(c)
        \/ T!MemTenantsRepo(c)
        \/ T!PgTenantsRepo(c)
  BY DEF T!Next
<1>2. at' \in [Callers -> T!Pending]
  BY TenantsTyped DEF T!TypeOK
<1>3. at \in [Callers -> T!Pending] /\ at[c] \in T!Pending
  BY DEF T!TypeOK
<1>4. ~T!MemTenantsRepo(c)
  BY DEF PgOK, Settling, T!MemTenantsRepo, T!CreateNew, T!SaveEmail, T!SaveRow, T!DeleteEntries,
         T!DeleteRow, T!SaveName
<1>5. /\ UNCHANGED <<backend, contract, byName, byEmail>>
      /\ UNCHANGED at \/ (at' = [at EXCEPT ![c] = at'[c]] /\ at'[c].op \in {"idle", "readEmail", "match"})
  <2>1. ASSUME NEW n \in Names, NEW e \in Emails, T!CreateReadName(c, n, e)
        PROVE  /\ UNCHANGED <<backend, contract, byName, byEmail>>
               /\ at' = [at EXCEPT ![c] = at'[c]] /\ at'[c].op = "readEmail"
    BY <1>3, <2>1 DEF T!CreateReadName, T!BeginCall
  <2>2. CASE T!CreateReadEmail(c)
    BY <1>3, <2>2 DEF T!CreateReadEmail, T!Go
  <2>3. CASE T!CreateExisting(c) \/ T!InsertNew(c)
    BY <1>3, <2>3 DEF T!CreateExisting, T!InsertNew, T!Go, T!Resting
  <2>4. ASSUME NEW id \in TenantIds, T!DeleteStatement(c, id) \/ \E r \in T!Row : T!UpsertRow(c, id, r)
        PROVE  UNCHANGED <<backend, contract, byName, byEmail, at>>
    BY <2>4 DEF T!DeleteStatement, T!UpsertRow, T!BeginCall
  <2> QED
    BY <1>1, <1>4, <2>1, <2>2, <2>3, <2>4 DEF T!PgTenantsRepo
<1>6. \/ UNCHANGED byId
      \/ \E id \in TenantIds : byId' = [byId EXCEPT ![id] = Nobody]
      \/ \E id \in TenantIds, r \in T!Row : T!Unique(id, r) /\ byId' = [byId EXCEPT ![id] = r]
  <2>1. CASE T!InsertNew(c)
    <3>1. [name |-> at[c].name, email |-> at[c].email] \in T!Row
      BY <1>3, <2>1, PendingShape DEF T!InsertNew, T!Row
    <3> QED
      BY <2>1, <3>1 DEF T!InsertNew
  <2>2. CASE ~T!InsertNew(c)
    BY <1>1, <1>4, <2>2 DEF T!CreateReadName, T!CreateReadEmail, T!CreateExisting, T!PgTenantsRepo,
                            T!DeleteStatement, T!UpsertRow
  <2> QED
    BY <2>1, <2>2
<1>7. \E w \in T!Pending :
        w.op \in {"idle", "readEmail", "match"} /\ (at' = [at EXCEPT ![c] = w] \/ UNCHANGED at)
  <2>1. at'[c] \in T!Pending
    BY <1>2
  <2>2. T!Resting \in T!Pending /\ T!Resting.op = "idle"
    BY DEF T!Pending, T!Resting
  <2> QED
    BY <1>5, <2>1, <2>2
<1> QED
  BY <1>5, <1>6, <1>7

LEMMA StepPg == ASSUME T!TypeOK, PgOK, T!Next PROVE PgOK'
<1>1. UNCHANGED backend
  BY DEF T!Next, T!CreateReadName, T!CreateReadEmail, T!CreateExisting, T!MemTenantsRepo,
         T!PgTenantsRepo,
         T!CreateNew, T!SaveEmail, T!SaveRow, T!DeleteEntries, T!DeleteRow, T!SaveName, T!InsertNew,
         T!DeleteStatement, T!UpsertRow, T!BeginCall, T!Go
<1>2. SUFFICES ASSUME backend = "pg" PROVE PgOK'
  BY <1>1 DEF PgOK
<1>3. UNCHANGED <<byName, byEmail>>
  BY <1>2, PgSteps
<1>4. \A c \in Callers : ~Settling(c)'
  <2>1. PICK c \in Callers, w \in T!Pending :
          w.op \in {"idle", "readEmail", "match"} /\ (at' = [at EXCEPT ![c] = w] \/ UNCHANGED at)
    BY <1>2, PgSteps
  <2> QED
    BY <1>2, <2>1 DEF PgOK, Settling, T!TypeOK
<1>5. ASSUME NEW s \in T!Stored', NEW t \in T!Stored', s # t
      PROVE  byId'[s].name # byId'[t].name /\ byId'[s].email # byId'[t].email
  <2>1. byId \in [TenantIds -> T!Row \cup {Nobody}]
    BY DEF T!TypeOK
  <2>2. CASE UNCHANGED byId
    BY <1>2, <1>5, <2>2 DEF PgOK, T!Stored
  <2>3. ASSUME NEW id \in TenantIds, byId' = [byId EXCEPT ![id] = Nobody]
        PROVE  byId'[s].name # byId'[t].name /\ byId'[s].email # byId'[t].email
    BY <1>2, <1>5, <2>1, <2>3 DEF PgOK, T!Stored
  <2>4. ASSUME NEW id \in TenantIds, NEW r \in T!Row, T!Unique(id, r), byId' = [byId EXCEPT ![id] = r]
        PROVE  byId'[s].name # byId'[t].name /\ byId'[s].email # byId'[t].email
    BY <1>2, <1>5, <2>1, <2>4 DEF PgOK, T!Stored, T!Unique
  <2> QED
    BY <1>2, <2>2, <2>3, <2>4, PgSteps
<1> QED
  BY <1>2, <1>3, <1>4, <1>5 DEF PgOK

-----------------------------------------------------------------------------
(* Tenants in memory, where creates do not race.                           *)

\* A call that starts writes nothing but what it has in hand.
LEMMA CallersStayApart ==
  ASSUME T!TypeOK, CallersApart, NEW c \in Callers, NEW w \in T!Pending, at' = [at EXCEPT ![c] = w],
         w.op = "idle" \/ (w.name = at[c].name /\ w.email = at[c].email /\ Working(c))
           \/ \A d \in Callers : Working(d) => at[d].name # w.name /\ at[d].email # w.email
  PROVE  CallersApart'
<1>1. at'[c] = w /\ \A d \in Callers : d # c => at'[d] = at[d]
  BY DEF T!TypeOK
<1>2. w.op = "idle" => w = T!Resting
  BY PendingShape
<1> QED
  BY <1>1, <1>2 DEF CallersApart, Working

\* The kinds of steps of the repository in memory: a call that starts, and one
\* that goes on.
LEMMA StepMem ==
  ASSUME TenantsInv, T!Next, backend = "mem", contract # "racing" PROVE MemOK'
<1>1. PICK c \in Callers :
        \/ \E n \in Names, e \in Emails : T!CreateReadName(c, n, e)
        \/ T!CreateReadEmail(c) \/ T!CreateExisting(c)
        \/ T!MemTenantsRepo(c)
        \/ T!PgTenantsRepo(c)
  BY DEF T!Next
<1>2. /\ T!TypeOK /\ CallersApart /\ ReadsHold /\ SavesHold /\ DeletesHold /\ RowsIndexed
      /\ at \in [Callers -> T!Pending] /\ at[c] \in T!Pending
      /\ byId \in [TenantIds -> T!Row \cup {Nobody}]
      /\ byName \in [Names -> TenantIds \cup {Nobody}] /\ byEmail \in [Emails -> TenantIds \cup {Nobody}]
  BY DEF TenantsInv, MemOK, T!TypeOK
<1>3. at' \in [Callers -> T!Pending] /\ at'[c] \in T!Pending
  BY <1>2, TenantsTyped DEF T!TypeOK
<1>5. ~T!PgTenantsRepo(c)
  BY DEF T!PgTenantsRepo, T!InsertNew, T!UpsertRow, T!DeleteStatement
<1>6. /\ \A d \in Callers : at[d] \in T!Pending
      /\ \A d \in Callers : Working(d) <=> at[d].op # "idle"
      /\ \A d \in Callers : d # c /\ Working(d) /\ Working(c) =>
           at[d].name # at[c].name /\ at[d].email # at[c].email
  <2>1. \A d \in Callers : at[d] \in T!Pending
    BY <1>2
  <2> QED
    BY <1>2, <2>1, PendingShape DEF CallersApart, Working
<1> DEFINE Holds == CallersApart /\ ReadsHold /\ SavesHold /\ DeletesHold /\ RowsIndexed
<1>7. SUFFICES Holds'
  BY DEF MemOK
<1>8. ASSUME NEW n \in Names, NEW e \in Emails, T!CreateReadName(c, n, e) PROVE Holds'
  <2>1. /\ UNCHANGED <<byId, byName, byEmail>>
        /\ at' = [at EXCEPT ![c] = at'[c]] /\ at'[c].op = "readEmail"
        /\ at'[c].name = n /\ at'[c].email = e /\ at'[c].idOfName = byName[n]
    BY <1>2, <1>8 DEF T!CreateReadName, T!IdOfName
  <2>2. \A d \in Callers : Working(d) => at[d].name # n /\ at[d].email # e
    BY <1>8 DEF T!CreateReadName, T!Allowed, T!Overlaps, Working
  <2>3. CallersApart'
    BY <1>2, <1>3, <2>1, <2>2, CallersStayApart
  <2>4. ReadsHold' /\ SavesHold' /\ DeletesHold' /\ RowsIndexed'
    BY <1>2, <2>1 DEF ReadsHold, SavesHold, DeletesHold, RowsIndexed, T!Stored
  <2> QED
    BY <2>3, <2>4
<1>9. CASE T!CreateReadEmail(c)
  <2>1. /\ UNCHANGED <<byId, byName, byEmail>> /\ at[c].op = "readEmail"
        /\ at' = [at EXCEPT ![c] = at'[c]] /\ at'[c].op = "match"
        /\ at'[c].name = at[c].name /\ at'[c].email = at[c].email
        /\ at'[c].idOfName = at[c].idOfName /\ at'[c].idOfEmail = byEmail[at[c].email]
    BY <1>2, <1>9 DEF T!CreateReadEmail, T!Go, T!IdOfEmail
  <2>2. Working(c)
    BY <1>6, <2>1
  <2>3. CallersApart'
    BY <1>2, <1>3, <2>1, <2>2, CallersStayApart
  <2>4. ReadsHold' /\ SavesHold' /\ DeletesHold' /\ RowsIndexed'
    BY <1>2, <2>1 DEF ReadsHold, SavesHold, DeletesHold, RowsIndexed, T!Stored
  <2> QED
    BY <2>3, <2>4
<1>10. CASE T!CreateExisting(c)
  <2>1. /\ UNCHANGED <<byId, byName, byEmail>>
        /\ at' = [at EXCEPT ![c] = at'[c]] /\ at'[c].op = "idle"
    BY <1>2, <1>10 DEF T!CreateExisting, T!Go, T!Resting
  <2>2. CallersApart'
    BY <1>2, <1>3, <2>1, CallersStayApart
  <2>3. ReadsHold' /\ SavesHold' /\ DeletesHold' /\ RowsIndexed'
    BY <1>2, <2>1 DEF ReadsHold, SavesHold, DeletesHold, RowsIndexed, T!Stored
  <2> QED
    BY <2>2, <2>3
<1>11. CASE T!CreateNew(c)
  <2>1. PICK id \in TenantIds \ used :
          /\ byName' = [byName EXCEPT ![at[c].name] = id]
          /\ T!Go(c, [op |-> "saveEmail", name |-> at[c].name, email |-> at[c].email, id |-> id])
    BY <1>11 DEF T!CreateNew
  <2>2. /\ at[c].op = "match" /\ UNCHANGED <<byId, byEmail>>
        /\ at[c].idOfName = Nobody /\ at[c].idOfEmail = Nobody
    BY <1>11 DEF T!CreateNew
  <2>3. /\ at' = [at EXCEPT ![c] = at'[c]] /\ at'[c].op = "saveEmail"
        /\ at'[c].name = at[c].name /\ at'[c].email = at[c].email /\ at'[c].id = id
    BY <1>2, <2>1 DEF T!Go
  <2>4. Working(c) /\ at[c].name \in Names /\ at[c].email \in Emails
    BY <1>2, <1>6, <2>2, PendingShape
  <2>5. CallersApart'
    BY <1>2, <1>3, <2>3, <2>4, CallersStayApart
  <2>6. byName[at[c].name] = Nobody /\ byEmail[at[c].email] = Nobody
    BY <1>2, <2>2 DEF ReadsHold
  <2>7. \A t \in T!Stored : byId[t].name # at[c].name /\ byId[t].email # at[c].email
    BY <1>2, <2>6, NobodyAssumption DEF RowsIndexed, T!Stored
  <2>8. byName'[at[c].name] = id /\ \A n \in Names : n # at[c].name => byName'[n] = byName[n]
    BY <1>2, <2>1, <2>4
  <2>9. \A d \in Callers : d # c => at'[d] = at[d] /\ (Working(d) => byName'[at[d].name] = byName[at[d].name])
    BY <1>2, <1>6, <2>3, <2>4, <2>8, PendingShape
  <2>10. ReadsHold' /\ SavesHold' /\ DeletesHold'
    BY <1>2, <1>6, <2>2, <2>3, <2>7, <2>8, <2>9 DEF ReadsHold, SavesHold, DeletesHold, T!Stored
  <2>11. RowsIndexed'
    BY <1>2, <2>2, <2>7, <2>8, RowShape DEF RowsIndexed, T!Stored
  <2> QED
    BY <2>5, <2>10, <2>11
<1>12. CASE T!SaveEmail(c)
  <2>1. /\ at[c].op = "saveEmail" /\ UNCHANGED <<byId, byName>>
        /\ byEmail' = [byEmail EXCEPT ![at[c].email] = at[c].id]
        /\ T!Go(c, [at[c] EXCEPT !.op = "saveRow"])
    BY <1>12 DEF T!SaveEmail
  <2>2. /\ at[c].name \in Names /\ at[c].email \in Emails /\ at[c].id \in TenantIds /\ Working(c)
        /\ at[c] \in [op : {"saveEmail", "saveRow", "unindex"}, name : Names, email : Emails, id : TenantIds]
    BY <1>2, <1>6, <2>1 DEF T!Pending, T!Resting
  <2>3. /\ at' = [at EXCEPT ![c] = at'[c]] /\ at'[c].op = "saveRow"
        /\ at'[c].name = at[c].name /\ at'[c].email = at[c].email /\ at'[c].id = at[c].id
    BY <1>2, <2>1, <2>2 DEF T!Go
  <2>4. CallersApart'
    BY <1>2, <1>3, <2>2, <2>3, CallersStayApart
  <2>5. byEmail'[at[c].email] = at[c].id /\ \A e \in Emails : e # at[c].email => byEmail'[e] = byEmail[e]
    BY <1>2, <2>1, <2>2
  <2>6. \A d \in Callers : d # c => at'[d] = at[d] /\ (Working(d) => byEmail'[at[d].email] = byEmail[at[d].email])
    BY <1>2, <1>6, <2>2, <2>3, <2>5, PendingShape
  <2>7. ReadsHold' /\ SavesHold' /\ DeletesHold'
    BY <1>2, <1>6, <2>1, <2>3, <2>5, <2>6 DEF ReadsHold, SavesHold, DeletesHold, T!Stored
  <2>8. RowsIndexed'
    BY <1>2, <2>1, <2>5, RowShape DEF RowsIndexed, SavesHold, T!Stored
  <2> QED
    BY <2>4, <2>7, <2>8
<1>13. CASE T!SaveRow(c)
  <2>1. /\ at[c].op = "saveRow" /\ UNCHANGED <<byName, byEmail>>
        /\ byId' = [byId EXCEPT ![at[c].id] = [name |-> at[c].name, email |-> at[c].email]]
        /\ at' = [at EXCEPT ![c] = at'[c]] /\ at'[c].op = "idle"
    BY <1>2, <1>13 DEF T!SaveRow, T!Go, T!Resting
  <2>2. at[c].name \in Names /\ at[c].email \in Emails /\ at[c].id \in TenantIds /\ Working(c)
    BY <1>2, <1>6, <2>1, PendingShape
  <2>3. CallersApart'
    BY <1>2, <1>3, <2>1, CallersStayApart
  <2>4. /\ byId'[at[c].id].name = at[c].name /\ byId'[at[c].id].email = at[c].email
        /\ \A t \in TenantIds : t # at[c].id => byId'[t] = byId[t]
        /\ \A t \in T!Stored' : t \in TenantIds /\ (t # at[c].id => t \in T!Stored)
    BY <1>2, <2>1, <2>2 DEF T!Stored
  <2>5. byName[at[c].name] = at[c].id /\ byEmail[at[c].email] = at[c].id
    BY <1>2, <2>1 DEF SavesHold
  <2>6. \A d \in Callers : d # c => at'[d] = at[d]
    BY <1>2, <2>1
  <2>7. ReadsHold' /\ SavesHold'
    BY <1>2, <1>6, <2>1, <2>2, <2>4, <2>6 DEF ReadsHold, SavesHold
  <2>8. DeletesHold'
    BY <1>2, <1>6, <2>1, <2>2, <2>4, <2>6 DEF DeletesHold
  <2>9. RowsIndexed'
    BY <1>2, <2>1, <2>4, <2>5 DEF RowsIndexed
  <2> QED
    BY <2>3, <2>7, <2>8, <2>9
<1>14. CASE T!DeleteEntries(c)
  <2>1. /\ at[c].op = "unindex" /\ UNCHANGED byId
        /\ byName' = T!Without(byName, at[c].name, at[c].id)
        /\ byEmail' = T!Without(byEmail, at[c].email, at[c].id)
        /\ at' = [at EXCEPT ![c] = at'[c]] /\ at'[c].op = "idle"
    BY <1>2, <1>14 DEF T!DeleteEntries, T!Go, T!Resting
  <2>2. at[c].name \in Names /\ at[c].email \in Emails /\ Working(c)
    BY <1>2, <1>6, <2>1, PendingShape
  <2>3. CallersApart'
    BY <1>2, <1>3, <2>1, CallersStayApart
  <2>4. /\ \A n \in Names : n # at[c].name => byName'[n] = byName[n]
        /\ \A e \in Emails : e # at[c].email => byEmail'[e] = byEmail[e]
    BY <1>2, <2>1, <2>2 DEF T!Without
  <2>5. \A d \in Callers : d # c =>
          /\ at'[d] = at[d]
          /\ Working(d) => /\ byName'[at[d].name] = byName[at[d].name]
                           /\ byEmail'[at[d].email] = byEmail[at[d].email]
    BY <1>2, <1>6, <2>1, <2>2, <2>4, PendingShape
  <2>6. ReadsHold' /\ SavesHold' /\ DeletesHold'
    BY <1>2, <1>6, <2>1, <2>5 DEF ReadsHold, SavesHold, DeletesHold, T!Stored
  <2>7. RowsIndexed'
    BY <1>2, <2>1, <2>4, RowShape DEF RowsIndexed, DeletesHold, T!Stored
  <2> QED
    BY <2>3, <2>6, <2>7
<1>15. ASSUME NEW id \in TenantIds, T!DeleteRow(c, id) PROVE Holds'
  <2>1. /\ id \in T!Stored /\ UNCHANGED <<byName, byEmail>> /\ byId' = [byId EXCEPT ![id] = Nobody]
        /\ at' = [at EXCEPT ![c] = at'[c]] /\ at'[c].op = "unindex"
        /\ at'[c].name = byId[id].name /\ at'[c].email = byId[id].email
    BY <1>2, <1>15 DEF T!DeleteRow
  <2>2. \A d \in Callers : Working(d) => at[d].name # byId[id].name /\ at[d].email # byId[id].email
    BY <1>15 DEF T!DeleteRow, T!Allowed, T!Overlaps, Working
  <2>3. CallersApart'
    BY <1>2, <1>3, <2>1, <2>2, CallersStayApart
  <2>4. \A t \in T!Stored' : t \in T!Stored /\ t # id /\ byId'[t] = byId[t]
    BY <1>2, <2>1 DEF T!Stored
  <2>5. \A d \in Callers : d # c => at'[d] = at[d]
    BY <1>2, <2>1
  <2>6. ReadsHold' /\ SavesHold'
    BY <1>2, <2>1, <2>4, <2>5 DEF ReadsHold, SavesHold
  <2>7. DeletesHold'
    BY <1>2, <2>1, <2>4, <2>5 DEF DeletesHold, RowsIndexed
  <2>8. RowsIndexed'
    BY <1>2, <2>1, <2>4 DEF RowsIndexed
  <2> QED
    BY <2>3, <2>6, <2>7, <2>8
<1>16. ASSUME NEW id \in TenantIds, NEW r \in T!Row, T!SaveName(c, id, r) PROVE Holds'
  <2>1. /\ UNCHANGED <<byId, byEmail>> /\ byName' = [byName EXCEPT ![r.name] = id]
        /\ T!Unique(id, r) /\ at[c] = T!Resting
        /\ at' = [at EXCEPT ![c] = at'[c]] /\ at'[c].op = "saveEmail"
        /\ at'[c].name = r.name /\ at'[c].email = r.email /\ at'[c].id = id
    BY <1>2, <1>16 DEF T!SaveName, T!BeginCall
  <2>2. \A d \in Callers : Working(d) => at[d].name # r.name /\ at[d].email # r.email
    BY <1>16 DEF T!SaveName, T!Allowed, T!Overlaps, Working
  <2>3. CallersApart'
    BY <1>2, <1>3, <2>1, <2>2, CallersStayApart
  <2>4. r.name \in Names
    BY DEF T!Row
  <2>5. byName'[r.name] = id /\ \A n \in Names : n # r.name => byName'[n] = byName[n]
    BY <1>2, <2>1, <2>4
  <2>6. \A d \in Callers : d # c => at'[d] = at[d] /\ (Working(d) => byName'[at[d].name] = byName[at[d].name])
    BY <1>2, <1>6, <2>1, <2>2, <2>5, PendingShape
  <2>7. ReadsHold' /\ SavesHold' /\ DeletesHold'
    BY <1>2, <1>6, <2>1, <2>5, <2>6 DEF ReadsHold, SavesHold, DeletesHold, T!Stored, T!Unique
  <2>8. RowsIndexed'
    BY <1>2, <2>1, <2>5, RowShape DEF RowsIndexed, T!Stored, T!Unique
  <2> QED
    BY <2>3, <2>7, <2>8
<1> QED
  BY <1>1, <1>5, <1>8, <1>9, <1>10, <1>11, <1>12, <1>13, <1>14, <1>15, <1>16 DEF T!MemTenantsRepo

-----------------------------------------------------------------------------
(* Tenants in memory, where no save renames.                               *)

\* No id comes back, and an entry is taken out before its call is forgotten.
LEMMA StepFresh ==
  ASSUME TenantsInv, T!Next, backend = "mem", contract # "renaming" PROVE FreshOK'
<1>1. PICK c \in Callers :
        \/ \E n \in Names, e \in Emails : T!CreateReadName(c, n, e)
        \/ T!CreateReadEmail(c) \/ T!CreateExisting(c)
        \/ T!MemTenantsRepo(c)
        \/ T!PgTenantsRepo(c)
  BY DEF T!Next
<1>2. /\ T!TypeOK /\ IdsFresh /\ EntriesExplained
      /\ at \in [Callers -> T!Pending] /\ at[c] \in T!Pending
      /\ byId \in [TenantIds -> T!Row \cup {Nobody}]
      /\ byName \in [Names -> TenantIds \cup {Nobody}] /\ byEmail \in [Emails -> TenantIds \cup {Nobody}]
  BY DEF TenantsInv, FreshOK, T!TypeOK
<1>3. ~T!PgTenantsRepo(c) /\ \A id \in TenantIds, r \in T!Row : ~T!SaveName(c, id, r)
  BY DEF T!PgTenantsRepo, T!InsertNew, T!UpsertRow, T!DeleteStatement, T!SaveName
<1>4. SUFFICES IdsFresh' /\ EntriesExplained'
  BY DEF FreshOK
<1>5. ASSUME UNCHANGED <<byId, byName, byEmail, used>>, ~Settling(c), ~Settling(c)',
             at' = [at EXCEPT ![c] = at'[c]]
      PROVE  IdsFresh' /\ EntriesExplained'
  <2>1. \A d \in Callers : d # c => at'[d] = at[d]
    BY <1>2, <1>5
  <2>2. \A d \in Callers : (Settling(d) <=> Settling(d)') /\ (Settling(d) => at'[d] = at[d])
    BY <1>5, <2>1 DEF Settling
  <2> QED
    BY <1>2, <1>5, <2>2 DEF IdsFresh, EntriesExplained, T!Stored
<1>6. ASSUME NEW n \in Names, NEW e \in Emails, T!CreateReadName(c, n, e)
      PROVE  IdsFresh' /\ EntriesExplained'
  <2>1. /\ UNCHANGED <<byId, byName, byEmail, used>> /\ ~Settling(c) /\ ~Settling(c)'
        /\ at' = [at EXCEPT ![c] = at'[c]]
    BY <1>2, <1>6 DEF T!CreateReadName, T!BeginCall, T!Resting, Settling
  <2> QED
    BY <1>5, <2>1
<1>7. CASE T!CreateReadEmail(c) \/ T!CreateExisting(c)
  <2>1. /\ UNCHANGED <<byId, byName, byEmail, used>> /\ ~Settling(c) /\ ~Settling(c)'
        /\ at' = [at EXCEPT ![c] = at'[c]]
    BY <1>2, <1>7 DEF T!CreateReadEmail, T!CreateExisting, T!Go, T!Resting, Settling
  <2> QED
    BY <1>5, <2>1
<1>8. CASE T!CreateNew(c)
  <2>1. PICK id \in TenantIds \ used :
          /\ used' = used \cup {id}
          /\ byName' = [byName EXCEPT ![at[c].name] = id]
          /\ T!Go(c, [op |-> "saveEmail", name |-> at[c].name, email |-> at[c].email, id |-> id])
    BY <1>8 DEF T!CreateNew
  <2>2. at[c].op = "match" /\ UNCHANGED <<byId, byEmail>> /\ ~Settling(c)
    BY <1>8 DEF T!CreateNew, Settling
  <2>3. /\ Settling(c)' /\ at'[c].name = at[c].name /\ at'[c].id = id
        /\ \A d \in Callers : d # c => at'[d] = at[d] /\ (Settling(d)' <=> Settling(d))
    BY <1>2, <2>1 DEF T!Go, Settling
  <2>4. at[c].name \in Names
    BY <1>2, <2>2, PendingShape
  <2>5. byName'[at[c].name] = id /\ \A n \in Names : n # at[c].name => byName'[n] = byName[n]
    BY <1>2, <2>1, <2>4
  <2>6. byId[id] = Nobody
    BY <1>2 DEF IdsFresh, T!Stored
  <2>7. IdsFresh'
    BY <1>2, <2>1, <2>2, <2>3, <2>6 DEF IdsFresh, T!Stored
  <2>8. \A d \in Callers : Settling(d) => Settling(d)' /\ at'[d] = at[d]
    BY <2>2, <2>3
  <2>9. EntriesExplained'
    BY <1>2, <2>2, <2>3, <2>5, <2>8 DEF EntriesExplained
  <2> QED
    BY <2>7, <2>9
<1>9. CASE T!SaveEmail(c)
  <2>1. /\ at[c].op = "saveEmail" /\ UNCHANGED <<byId, byName, used>>
        /\ byEmail' = [byEmail EXCEPT ![at[c].email] = at[c].id]
        /\ T!Go(c, [at[c] EXCEPT !.op = "saveRow"])
    BY <1>9 DEF T!SaveEmail
  <2>2. /\ at[c].email \in Emails /\ at[c].id \in TenantIds
        /\ at[c] \in [op : {"saveEmail", "saveRow", "unindex"}, name : Names, email : Emails, id : TenantIds]
    BY <1>2, <2>1 DEF T!Pending, T!Resting
  <2>3. /\ at'[c].op = "saveRow"
        /\ at'[c].name = at[c].name /\ at'[c].email = at[c].email /\ at'[c].id = at[c].id
        /\ \A d \in Callers : d # c => at'[d] = at[d]
    BY <1>2, <2>1, <2>2 DEF T!Go
  <2>4. /\ Settling(c)
        /\ \A d \in Callers : /\ Settling(d) <=> Settling(d)'
                              /\ Settling(d) => /\ at'[d].name = at[d].name /\ at'[d].id = at[d].id
                                                /\ at'[d].email = at[d].email
    BY <2>1, <2>3 DEF Settling
  <2>5. byEmail'[at[c].email] = at[c].id /\ \A e \in Emails : e # at[c].email => byEmail'[e] = byEmail[e]
    BY <1>2, <2>1, <2>2
  <2>6. IdsFresh'
    BY <1>2, <2>1, <2>4 DEF IdsFresh, T!Stored
  <2>7. EntriesExplained'
    BY <1>2, <2>1, <2>4, <2>5 DEF EntriesExplained
  <2> QED
    BY <2>6, <2>7
<1>10. CASE T!SaveRow(c)
  <2>1. /\ at[c].op = "saveRow" /\ Settling(c) /\ UNCHANGED <<byName, byEmail, used>>
        /\ byId' = [byId EXCEPT ![at[c].id] = [name |-> at[c].name, email |-> at[c].email]]
        /\ at' = [at EXCEPT ![c] = at'[c]] /\ ~Settling(c)'
    BY <1>2, <1>10 DEF T!SaveRow, T!Go, T!Resting, Settling
  <2>2. at[c].name \in Names /\ at[c].email \in Emails /\ at[c].id \in TenantIds
    BY <1>2, <2>1, PendingShape
  <2>3. /\ byId'[at[c].id].name = at[c].name /\ byId'[at[c].id].email = at[c].email
        /\ byId'[at[c].id] # Nobody
        /\ \A t \in TenantIds : t # at[c].id => byId'[t] = byId[t]
    BY <1>2, <2>1, <2>2, NobodyAssumption DEF T!Row
  <2>4. \A d \in Callers : d # c => at'[d] = at[d] /\ (Settling(d)' <=> Settling(d))
    BY <1>2, <2>1 DEF Settling
  <2>5. at[c].id \in used /\ byId[at[c].id] = Nobody
    BY <1>2, <2>1 DEF IdsFresh
  <2>6. IdsFresh'
    <3>1. T!Stored' \subseteq used'
      BY <1>2, <2>1, <2>3, <2>5 DEF IdsFresh, T!Stored
    <3>2. ASSUME NEW d \in Callers, Settling(d)' PROVE at'[d].id \in used' /\ byId'[at'[d].id] = Nobody
      <4>1. d # c /\ Settling(d) /\ at'[d] = at[d]
        BY <2>1, <2>4, <3>2
      <4>2. at[d].id # at[c].id /\ at[d].id \in used /\ byId[at[d].id] = Nobody
        BY <1>2, <2>1, <4>1 DEF IdsFresh
      <4>3. at[d].id \in TenantIds
        BY <1>2, <4>2 DEF T!TypeOK
      <4> QED
        BY <2>1, <2>3, <4>1, <4>2, <4>3
    <3>3. ASSUME NEW d \in Callers, NEW f \in Callers, d # f, Settling(d)', Settling(f)'
          PROVE  at'[d].id # at'[f].id
      BY <1>2, <2>1, <2>4, <3>3 DEF IdsFresh
    <3> QED
      BY <3>1, <3>2, <3>3 DEF IdsFresh
  <2>7. ASSUME NEW n \in Names, byName'[n] # Nobody
        PROVE  \/ byId'[byName'[n]] # Nobody /\ byId'[byName'[n]].name = n
               \/ \E d \in Callers : Settling(d)' /\ at'[d].id = byName'[n] /\ at'[d].name = n
    <3>1. byName'[n] = byName[n] /\ byName[n] \in TenantIds
      BY <1>2, <2>1, <2>7
    <3>2. \/ byId[byName[n]] # Nobody /\ byId[byName[n]].name = n
          \/ \E d \in Callers : Settling(d) /\ at[d].id = byName[n] /\ at[d].name = n
      BY <1>2, <2>7, <3>1 DEF EntriesExplained
    <3> QED
      BY <2>1, <2>3, <2>4, <2>5, <3>1, <3>2
  <2>8. ASSUME NEW e \in Emails, byEmail'[e] # Nobody
        PROVE  \/ byId'[byEmail'[e]] # Nobody /\ byId'[byEmail'[e]].email = e
               \/ \E d \in Callers : Settling(d)' /\ at'[d].id = byEmail'[e] /\ at'[d].email = e
    <3>1. byEmail'[e] = byEmail[e] /\ byEmail[e] \in TenantIds
      BY <1>2, <2>1, <2>8
    <3>2. \/ byId[byEmail[e]] # Nobody /\ byId[byEmail[e]].email = e
          \/ \E d \in Callers : Settling(d) /\ at[d].id = byEmail[e] /\ at[d].email = e
      BY <1>2, <2>8, <3>1 DEF EntriesExplained
    <3> QED
      BY <2>1, <2>3, <2>4, <2>5, <3>1, <3>2
  <2> QED
    BY <2>6, <2>7, <2>8 DEF EntriesExplained
<1>11. CASE T!DeleteEntries(c)
  <2>1. /\ at[c].op = "unindex" /\ Settling(c) /\ UNCHANGED <<byId, used>>
        /\ byName' = T!Without(byName, at[c].name, at[c].id)
        /\ byEmail' = T!Without(byEmail, at[c].email, at[c].id)
        /\ at' = [at EXCEPT ![c] = at'[c]] /\ ~Settling(c)'
    BY <1>2, <1>11 DEF T!DeleteEntries, T!Go, T!Resting, Settling
  <2>2. at[c].name \in Names /\ at[c].email \in Emails
    BY <1>2, <2>1, PendingShape
  <2>3. \A d \in Callers : d # c => at'[d] = at[d] /\ (Settling(d)' <=> Settling(d))
    BY <1>2, <2>1 DEF Settling
  <2>4. IdsFresh'
    BY <1>2, <2>1, <2>3 DEF IdsFresh, T!Stored
  <2>5. ASSUME NEW n \in Names, byName'[n] # Nobody
        PROVE  /\ byName'[n] = byName[n] /\ ~(byName[n] = at[c].id /\ n = at[c].name)
    BY <1>2, <2>1, <2>2, <2>5 DEF T!Without
  <2>6. ASSUME NEW e \in Emails, byEmail'[e] # Nobody
        PROVE  /\ byEmail'[e] = byEmail[e] /\ ~(byEmail[e] = at[c].id /\ e = at[c].email)
    BY <1>2, <2>1, <2>2, <2>6 DEF T!Without
  <2>7. EntriesExplained'
    BY <1>2, <2>1, <2>3, <2>5, <2>6 DEF EntriesExplained
  <2> QED
    BY <2>4, <2>7
<1>12. ASSUME NEW id \in TenantIds, T!DeleteRow(c, id) PROVE IdsFresh' /\ EntriesExplained'
  <2>1. /\ id \in T!Stored /\ UNCHANGED <<byName, byEmail, used>> /\ byId' = [byId EXCEPT ![id] = Nobody]
        /\ at'[c].op = "unindex" /\ at'[c].id = id /\ at[c] = T!Resting
        /\ at'[c].name = byId[id].name /\ at'[c].email = byId[id].email
        /\ \A d \in Callers : d # c => at'[d] = at[d]
    BY <1>2, <1>12 DEF T!DeleteRow, T!BeginCall
  <2>2. /\ ~Settling(c) /\ Settling(c)'
        /\ \A d \in Callers : d # c => (Settling(d)' <=> Settling(d))
    BY <2>1 DEF Settling, T!Resting
  <2>3. /\ id \in used /\ byId[id] # Nobody /\ byId'[id] = Nobody
        /\ \A t \in TenantIds : t # id => byId'[t] = byId[t]
    BY <1>2, <2>1 DEF IdsFresh, T!Stored
  <2>4. ASSUME NEW d \in Callers, Settling(d), d # c
        PROVE  at[d].id # id /\ at[d].id \in used /\ byId'[at[d].id] = Nobody
    <3>1. at[d].id \in used /\ byId[at[d].id] = Nobody /\ at[d].id \in TenantIds
      BY <1>2, <2>4 DEF IdsFresh, T!TypeOK
    <3> QED
      BY <2>3, <3>1
  <2>5. T!Stored' \subseteq used'
    BY <1>2, <2>1 DEF IdsFresh, T!Stored
  <2>6. IdsFresh'
    BY <1>2, <2>1, <2>2, <2>3, <2>4, <2>5 DEF IdsFresh
  <2>7. ASSUME NEW n \in Names, byName'[n] # Nobody
        PROVE  \/ byId'[byName'[n]] # Nobody /\ byId'[byName'[n]].name = n
               \/ \E d \in Callers : Settling(d)' /\ at'[d].id = byName'[n] /\ at'[d].name = n
    <3>1. byName'[n] = byName[n] /\ byName[n] \in TenantIds
      BY <1>2, <2>1, <2>7
    <3>2. \/ byId[byName[n]] # Nobody /\ byId[byName[n]].name = n
          \/ \E d \in Callers : Settling(d) /\ at[d].id = byName[n] /\ at[d].name = n
      BY <1>2, <2>7, <3>1 DEF EntriesExplained
    <3> QED
      BY <2>1, <2>2, <2>3, <3>1, <3>2
  <2>8. ASSUME NEW e \in Emails, byEmail'[e] # Nobody
        PROVE  \/ byId'[byEmail'[e]] # Nobody /\ byId'[byEmail'[e]].email = e
               \/ \E d \in Callers : Settling(d)' /\ at'[d].id = byEmail'[e] /\ at'[d].email = e
    <3>1. byEmail'[e] = byEmail[e] /\ byEmail[e] \in TenantIds
      BY <1>2, <2>1, <2>8
    <3>2. \/ byId[byEmail[e]] # Nobody /\ byId[byEmail[e]].email = e
          \/ \E d \in Callers : Settling(d) /\ at[d].id = byEmail[e] /\ at[d].email = e
      BY <1>2, <2>8, <3>1 DEF EntriesExplained
    <3> QED
      BY <2>1, <2>2, <2>3, <3>1, <3>2
  <2> QED
    BY <2>6, <2>7, <2>8 DEF EntriesExplained
<1> QED
  BY <1>1, <1>3, <1>6, <1>7, <1>8, <1>9, <1>10, <1>11, <1>12 DEF T!MemTenantsRepo

\* The conditions of the invariants do not change.
LEMMA KindKept == ASSUME T!Next PROVE UNCHANGED <<backend, contract>>
  BY DEF T!Next, T!CreateReadName, T!CreateReadEmail, T!CreateExisting, T!MemTenantsRepo,
         T!PgTenantsRepo, T!CreateNew, T!SaveEmail, T!SaveRow, T!DeleteEntries, T!DeleteRow,
         T!SaveName, T!InsertNew, T!DeleteStatement, T!UpsertRow, T!BeginCall, T!Go

LEMMA InitTenants == T!Init => TenantsInv
<1> SUFFICES ASSUME T!Init PROVE TenantsInv
  OBVIOUS
<1>1. T!TypeOK
  BY TenantsAssumption DEF T!Init, T!TypeOK, T!Pending
<1>2. T!Stored = {} /\ \A c \in Callers : at[c].op = "idle" /\ ~Working(c) /\ ~Settling(c)
  BY DEF T!Init, T!Stored, T!Resting, Working, Settling
<1>3. PgOK
  BY <1>2 DEF T!Init, PgOK
<1>4. MemOK
  BY <1>2 DEF MemOK, CallersApart, ReadsHold, SavesHold, DeletesHold, RowsIndexed
<1>5. FreshOK
  BY <1>2 DEF T!Init, FreshOK, IdsFresh, EntriesExplained
<1> QED
  BY <1>1, <1>3, <1>4, <1>5 DEF TenantsInv

LEMMA StepTenants == ASSUME TenantsInv, [T!Next]_(T!vars) PROVE TenantsInv'
<1>1. CASE T!Next
  <2>1. MemOK'
    <3>1. CASE backend = "mem" /\ contract # "racing"
      BY <1>1, <3>1, StepMem
    <3>2. CASE ~(backend = "mem" /\ contract # "racing")
      BY <1>1, <3>2, KindKept DEF MemOK
    <3> QED
      BY <3>1, <3>2
  <2>2. FreshOK'
    <3>1. CASE backend = "mem" /\ contract # "renaming"
      BY <1>1, <3>1, StepFresh
    <3>2. CASE ~(backend = "mem" /\ contract # "renaming")
      BY <1>1, <3>2, KindKept DEF FreshOK
    <3> QED
      BY <3>1, <3>2
  <2> QED
    BY <1>1, <2>1, <2>2, TenantsTyped, StepPg DEF TenantsInv
<1>2. CASE UNCHANGED T!vars
  BY <1>2 DEF T!vars, TenantsInv, T!TypeOK, PgOK, MemOK, FreshOK, CallersApart, ReadsHold,
         SavesHold,
              DeletesHold, RowsIndexed, IdsFresh, EntriesExplained, T!Stored, Working, Settling
<1> QED
  BY <1>1, <1>2

\* In the runs the tenants repository makes its own steps only.
LEMMA TenantsRun == StorageSpec => T!Spec
<1>1. StorageInit => T!Init
  BY DEF StorageInit
<1>2. [StorageNext]_<<part, vars, tenantVars, pgVars, blobVars, vectorVars>> => [T!Next]_(T!vars)
  BY DEF StorageNext, tenantVars, T!vars
<1> QED
  BY <1>1, <1>2, PTL DEF StorageSpec, T!Spec

\* What the calls at work have in hand agrees with the rows and the indices.
THEOREM TenantsInvariance == StorageSpec => []TenantsInv
  BY InitTenants, StepTenants, TenantsRun, PTL DEF T!Spec

\* No two tenants share a name or an email: in Postgres because of the constraints,
\* in memory, if calls about one tenant do not overlap, because the index names the
\* one row that has it.
THEOREM TenantsAlwaysUnique == StorageSpec => []TenantsUnique
<1>1. TenantsInv => TenantsUnique
  <2> SUFFICES ASSUME TenantsInv, backend = "pg" \/ contract # "racing",
                      NEW s \in T!Stored, NEW t \in T!Stored, s # t
               PROVE  byId[s].name # byId[t].name /\ byId[s].email # byId[t].email
    BY DEF TenantsUnique, T!TenantsUnique
  <2>1. CASE backend = "pg"
    BY <2>1 DEF TenantsInv, PgOK
  <2>2. CASE backend = "mem" /\ contract # "racing"
    BY <2>2 DEF TenantsInv, MemOK, RowsIndexed
  <2> QED
    BY <2>1, <2>2 DEF TenantsInv, T!TypeOK
<1> QED
  BY <1>1, TenantsInvariance, PTL

\* Once no call is at work, every tenant is found by its name and by its email, also
\* after renames; in memory unless creates of one name or email raced.
THEOREM TenantsAreFound == StorageSpec => []FoundByBoth
<1>1. TenantsInv => FoundByBoth
  <2> SUFFICES ASSUME TenantsInv, backend = "pg" \/ contract # "racing", NEW t \in T!Stored
               PROVE  T!IdOfName(byId[t].name) = t /\ T!IdOfEmail(byId[t].email) = t
    BY DEF FoundByBoth, T!FoundByBoth
  <2>1. CASE backend = "mem"
    BY <2>1 DEF TenantsInv, MemOK, RowsIndexed, T!IdOfName, T!IdOfEmail
  <2>2. CASE backend = "pg"
    <3>1. \A s \in T!Stored : s # t => byId[s].name # byId[t].name /\ byId[s].email # byId[t].email
      BY <2>2 DEF TenantsInv, PgOK
    <3>2. (CHOOSE s \in T!Stored : byId[s].name = byId[t].name) = t
      BY <3>1
    <3>3. (CHOOSE s \in T!Stored : byId[s].email = byId[t].email) = t
      BY <3>1
    <3> QED
      BY <2>2, <3>2, <3>3 DEF T!IdOfName, T!IdOfEmail
  <2> QED
    BY <2>1, <2>2 DEF TenantsInv, T!TypeOK
<1> QED
  BY <1>1, TenantsInvariance, PTL

\* What an index names is a stored tenant of that name or email once no call is at
\* work, however creates and deletes overlapped, if no save renames.
THEOREM LookupsAlwaysResolve == StorageSpec => []LookupsResolve
<1>1. TenantsInv => LookupsResolve
  <2> SUFFICES ASSUME TenantsInv, contract # "renaming", T!Quiet
               PROVE  /\ \A n \in Names : byName[n] # Nobody => byName[n] \in T!Stored /\ byId[byName[n]].name = n
                      /\ \A e \in Emails : byEmail[e] # Nobody => byEmail[e] \in T!Stored /\ byId[byEmail[e]].email = e
    BY DEF LookupsResolve, T!LookupsResolve
  <2>1. \A c \in Callers : ~Settling(c)
    BY DEF T!Quiet, T!Resting, Settling
  <2>2. /\ byName \in [Names -> TenantIds \cup {Nobody}] /\ byEmail \in [Emails -> TenantIds \cup {Nobody}]
        /\ backend \in {"mem", "pg"}
    BY DEF TenantsInv, T!TypeOK
  <2>3. CASE backend = "mem"
    BY <2>1, <2>2, <2>3 DEF TenantsInv, FreshOK, EntriesExplained, T!Stored
  <2>4. CASE backend = "pg"
    BY <2>4 DEF TenantsInv, PgOK
  <2> QED
    BY <2>2, <2>3, <2>4
<1> QED
  BY <1>1, TenantsInvariance, PTL

-----------------------------------------------------------------------------
(* Postgres: what PgSchemaProofs proves of any schema, for that of the runs. *)

PP == INSTANCE PgSchemaProofs
        WITH Keys <- SomeKeys, ChunkOf <- [e1 |-> "c1"], SetOf <- [e1 |-> "m1"]

\* The instance with the proofs is the instance of MCStorage.
LEMMA SameSchema ==
  /\ P!Init <=> PP!Init
  /\ P!Next <=> PP!Next
  /\ P!vars = PP!vars
  /\ PP!TenantsAgree <=> TenantsAgree
  /\ PP!TablesReferTables <=> TablesReferTables
<1>1. (P!Init <=> PP!Init) /\ P!vars = PP!vars
  BY DEF P!Init, PP!Init, P!vars, PP!vars
<1>2. PP!TenantsAgree <=> TenantsAgree
  BY DEF TenantsAgree, P!TenantsAgree, PP!TenantsAgree, P!TenantAgrees, PP!TenantAgrees,
         P!Refers, PP!Refers, P!ForeignKeys, PP!ForeignKeys
<1>3. PP!TablesReferTables <=> TablesReferTables
  BY DEF TablesReferTables, P!TablesReferTables, PP!TablesReferTables, P!RowTables, PP!RowTables,
         P!ForeignKeys, PP!ForeignKeys
<1>4. P!Next <=> PP!Next
  BY DEF P!Next, PP!Next, P!RunAll, PP!RunAll, P!ApplyNext, PP!ApplyNext, P!ApplyFails,
         PP!ApplyFails,
         P!MigratorStops, PP!MigratorStops, P!PgTenantsRepo, PP!PgTenantsRepo,
         P!PgDocumentsRepo, PP!PgDocumentsRepo, P!PgChunkSetsRepo, PP!PgChunkSetsRepo,
         P!PgChunksRepo, PP!PgChunksRepo, P!PgEmbeddingSetsRepo, PP!PgEmbeddingSetsRepo,
         P!PgEmbeddingsRefRepo, PP!PgEmbeddingsRefRepo, P!PgJobsRepo, PP!PgJobsRepo,
         P!PgAssetsRepo, PP!PgAssetsRepo, P!PgBlocksRepo, PP!PgBlocksRepo,
         P!SaveRejected, PP!SaveRejected, P!SaveAny, PP!SaveAny, P!DeleteAny, PP!DeleteAny,
         P!DeleteBy, PP!DeleteBy, P!Delete, PP!Delete, P!InsertDocument, PP!InsertDocument,
         P!UpdateDocument, PP!UpdateDocument, P!Upsert, PP!Upsert, P!Updated, PP!Updated,
         P!Statement, PP!Statement, P!KeepsTenants, PP!KeepsTenants,
         P!TenantAgrees, PP!TenantAgrees, P!Survivors, PP!Survivors, P!StoredAt, PP!StoredAt,
         P!Closed, PP!Closed, P!Resolves, PP!Resolves, P!Refers, PP!Refers, P!Refs, PP!Refs,
         P!Savable, PP!Savable, P!NamedColumns, PP!NamedColumns, P!ColumnsOf, PP!ColumnsOf,
         P!RowTables, PP!RowTables, P!ForeignKeys, PP!ForeignKeys, P!Migrations, PP!Migrations
<1> QED
  BY <1>1, <1>2, <1>3, <1>4

\* A behaviour of the stores is one of the database, which stands still while
\* another store is explored.
LEMMA StorageRunsSchema == StorageSpec => PP!Spec
<1>1. StorageInit => PP!Init
  BY SameSchema DEF StorageInit
<1>2. [StorageNext]_<<part, vars, tenantVars, pgVars, blobVars, vectorVars>> => [PP!Next]_(PP!vars)
  BY SameSchema DEF StorageNext, pgVars, PP!vars
<1> QED
  BY <1>1, <1>2, PTL DEF StorageSpec, PP!Spec

\* However the saves, moves and deletes of several callers that keep the tenants apart
\* interleave, no row but a chunk comes to refer to a row of another tenant.
THEOREM RowsStayApart == StorageSpec => []TenantsAgree
<1>1. PP!Spec => []PP!TenantsAgree
  BY PP!TenantsAlwaysAgree
<1> QED
  BY <1>1, SameSchema, StorageRunsSchema, PTL

\* However often migrators are stopped and start again, a table is there before
\* any table that refers to it, if no schema found starts with a table of rows.
THEOREM TablesAlwaysRefer ==
  ASSUME \A E \in Existing : E \cap P!RowTables = {}
  PROVE  StorageSpec => []TablesReferTables
<1>1. \A E \in Existing : E \cap PP!RowTables = {}
  BY DEF P!RowTables, PP!RowTables, P!ForeignKeys, PP!ForeignKeys
<1>2. PP!Spec => []PP!TablesReferTables
  BY <1>1, PP!TablesAlwaysReferTables
<1> QED
  BY <1>2, SameSchema, StorageRunsSchema, PTL

-----------------------------------------------------------------------------
(* The vector store and the indexer.                                       *)

SomeInput   == [chunk : Chunks, page : V!Pages, tenant_id : Tenants \cup {Absent}]
SomeChanges == [chunk : Chunks, point : SomePoints \cup {Absent},
                from : [tenant : Tenants, page : V!Pages] \cup {Absent}]

IndexTypes ==
  /\ collection \in {StoreDim, Absent}
  /\ points \in [Chunks -> SomePoints \cup {Absent}]
  /\ accepted \in Seq(SomeChanges)
  /\ job = [j \in Jobs |-> job[j]]
  /\ \A j \in Jobs : job[j].req \in Requests /\ DOMAIN job[j] = {"step", "req", "vectors"}
  /\ stands \subseteq Jobs
  /\ indexedFor = [k \in Chunks |-> indexedFor[k]]

\* What the provider answered is as it was asked: one vector for each input, made
\* from it and of the dimension of the request.
VectorsMatch(req, vectors) ==
  vectors = [i \in 1..Len(req.inputs) |-> [of |-> req.inputs[i].chunk, dim |-> req.dims]]

\* Point p is that of chunk c, indexed for a tenant with a page.
MadeFrom(p, c, from) ==
  /\ p.of = c /\ p.tenant_id = from.tenant
  /\ p.page = V!JsonToQdrantValue(from.page) /\ from.page \in V!Pages

Deletes(change, c) == change.chunk = c /\ change.point = Absent

\* Stays(c) of any state: what a step makes of it is said in these terms.
StaysIn(pts, acc, dim, c) ==
  \/ pts[c] # Absent /\ \A k \in DOMAIN acc : ~Deletes(acc[k], c)
  \/ \E i \in DOMAIN acc :
       /\ acc[i].chunk = c /\ acc[i].point # Absent /\ acc[i].point.dim = dim
       /\ \A k \in i..Len(acc) : ~Deletes(acc[k], c)

\* Every call is about to store the right vectors; nothing is acknowledged, and no
\* call stands, without a collection; and the points, those that are applied as those
\* that are only acknowledged, are what their chunks were indexed with.
IndexOK ==
  /\ \A j \in Jobs : job[j].step = "upsert" => VectorsMatch(job[j].req, job[j].vectors)
  /\ stands # {} \/ accepted # <<>> => collection # Absent
  /\ \A k \in Chunks : points[k] # Absent => MadeFrom(points[k], k, indexedFor[k])
  /\ \A i \in DOMAIN accepted :
       accepted[i].point # Absent => MadeFrom(accepted[i].point, accepted[i].chunk, accepted[i].from)
  /\ \A k \in Chunks : points[k] # Absent => points[k].dim = collection
  /\ \A j \in stands : job[j].req.dims = collection =>
       \A c \in V!ChunksOf(job[j].req) : StaysIn(points, accepted, collection, c)

LEMMA StaysMeans == \A c : V!Stays(c) <=> StaysIn(points, accepted, collection, c)
  BY DEF V!Stays, StaysIn, Deletes

LEMMA RequestTypes ==
  ASSUME NEW r \in Requests
  PROVE  /\ Len(r.inputs) \in Nat /\ DOMAIN r.inputs = 1..Len(r.inputs)
         /\ \A i \in DOMAIN r.inputs : r.inputs[i] \in SomeInput
         /\ r.tenant \in Tenants /\ r.dims \in Dims
<1>1. r.inputs \in Seq(SomeInput) /\ r.tenant \in Tenants /\ r.dims \in Dims
  BY RequestsAssumption DEF V!Request, V!Input, SomeInput
<1> QED
  BY <1>1

LEMMA PageTypes == ASSUME NEW p \in V!Pages PROVE p.list \in BOOLEAN /\ p.of \subseteq 1..2
<1>1. CASE p \in [list : {FALSE}, of : {{1}, {2}}]
  <2>1. p.list \in {FALSE} /\ p.of \in {{1}, {2}}
    BY <1>1
  <2>2. \A S \in {{1}, {2}} : S \subseteq 1..2
    OBVIOUS
  <2> QED
    BY <2>1, <2>2
<1>2. CASE p \in [list : {TRUE}, of : SUBSET (1..2)]
  BY <1>2
<1> QED
  BY <1>1, <1>2 DEF V!Pages

\* The changes of an upsert: points only, each made from its input, and one at least
\* for every chunk of the request.
LEMMA UpsertChanges ==
  ASSUME NEW r \in Requests, NEW vectors, VectorsMatch(r, vectors)
  PROVE  LET u == V!Upserts(r, vectors) IN
         /\ u \in Seq(SomeChanges) /\ DOMAIN u = DOMAIN r.inputs
         /\ \A i \in DOMAIN u : /\ u[i].point # Absent /\ u[i].point.dim = r.dims
                                /\ u[i].chunk = r.inputs[i].chunk
                                /\ MadeFrom(u[i].point, u[i].chunk, u[i].from)
<1> DEFINE n == Len(r.inputs)
           u == V!Upserts(r, vectors)
           q(i) == [of |-> r.inputs[i].chunk, dim |-> r.dims, tenant_id |-> r.tenant,
                    page |-> V!JsonToQdrantValue(r.inputs[i].page)]
           new(i) == [chunk |-> r.inputs[i].chunk, point |-> q(i),
                      from |-> [tenant |-> r.tenant, page |-> r.inputs[i].page]]
<1>1. n \in Nat /\ DOMAIN r.inputs = 1..n /\ DOMAIN vectors = 1..n
  BY RequestTypes DEF VectorsMatch
<1>2. \A i \in 1..n : vectors[i] = [of |-> r.inputs[i].chunk, dim |-> r.dims]
  BY DEF VectorsMatch
<1>3. u = [i \in 1..n |-> new(i)]
  <2> DEFINE put(i) == V!Change(r.inputs[i].chunk, V!Point(vectors[i], V!BuildPayload(r, i)),
                                [tenant |-> r.tenant, page |-> r.inputs[i].page])
  <2>1. u = [i \in 1..n |-> put(i)]
    BY <1>1 DEF V!Upserts
  <2>2. ASSUME NEW i \in 1..n PROVE put(i) = new(i)
    <3>1. V!BuildPayload(r, i).tenant_id = r.tenant /\ V!BuildPayload(r, i).page = r.inputs[i].page
      BY DEF V!BuildPayload
    <3>2. vectors[i].of = r.inputs[i].chunk /\ vectors[i].dim = r.dims
      <4>1. vectors[i] = [of |-> r.inputs[i].chunk, dim |-> r.dims]
        BY <1>2, Zenon
      <4> QED
        BY <4>1
    <3>3. V!Point(vectors[i], V!BuildPayload(r, i)) = q(i)
      BY <3>1, <3>2, Zenon DEF V!Point
    <3> QED
      BY <3>3 DEF V!Change
  <2> HIDE DEF put, new, u
  <2> QED
    BY <2>1, <2>2
<1>4. ASSUME NEW i \in 1..n
      PROVE  /\ new(i) \in SomeChanges /\ q(i) # Absent
             /\ MadeFrom(q(i), r.inputs[i].chunk, [tenant |-> r.tenant, page |-> r.inputs[i].page])
  <2>1. /\ r.inputs[i].chunk \in Chunks /\ r.inputs[i].page \in V!Pages
        /\ r.tenant \in Tenants /\ r.dims \in Dims
    BY <1>1, RequestTypes DEF SomeInput
  <2>2. V!JsonToQdrantValue(r.inputs[i].page) \subseteq [text : BOOLEAN, n : 1..2]
    <3>1. r.inputs[i].page.list \in BOOLEAN /\ r.inputs[i].page.of \subseteq 1..2
      BY <2>1, PageTypes
    <3> QED
      BY <3>1 DEF V!JsonToQdrantValue
  <2>3. q(i) \in SomePoints
    BY <2>1, <2>2 DEF SomePoints
  <2>4. MadeFrom(q(i), r.inputs[i].chunk, [tenant |-> r.tenant, page |-> r.inputs[i].page])
    BY <2>1 DEF MadeFrom
  <2> QED
    BY <2>1, <2>3, <2>4, AbsentAssumption DEF SomeChanges
<1>5. u \in Seq(SomeChanges)
  BY <1>1, <1>3, <1>4
<1>6. \A i \in 1..n : u[i] = new(i) /\ new(i).point = q(i) /\ q(i).dim = r.dims
                      /\ new(i).chunk = r.inputs[i].chunk
                      /\ new(i).from = [tenant |-> r.tenant, page |-> r.inputs[i].page]
  BY <1>3
<1>7. DOMAIN u = 1..n
  BY <1>3
<1> HIDE DEF u, new, q
<1>8. \A i \in 1..n : /\ u[i].point # Absent /\ u[i].point.dim = r.dims
                      /\ u[i].chunk = r.inputs[i].chunk
                      /\ MadeFrom(u[i].point, u[i].chunk, u[i].from)
  BY <1>4, <1>6, Zenon
<1> QED
  BY <1>1, <1>5, <1>7, <1>8 DEF u

\* More changes at the end let a chunk stay unless one of them deletes it.
LEMMA StaysAppended ==
  ASSUME NEW acc \in Seq(SomeChanges), NEW u \in Seq(SomeChanges), NEW pts, NEW dim, NEW c,
         \A i \in DOMAIN u : ~Deletes(u[i], c),
         \/ StaysIn(pts, acc, dim, c)
         \/ \E i \in DOMAIN u : u[i].chunk = c /\ u[i].point # Absent /\ u[i].point.dim = dim
  PROVE  StaysIn(pts, acc \o u, dim, c)
<1> DEFINE all == acc \o u
<1>1. /\ Len(acc) \in Nat /\ Len(u) \in Nat /\ Len(all) = Len(acc) + Len(u)
      /\ DOMAIN acc = 1..Len(acc) /\ DOMAIN u = 1..Len(u) /\ DOMAIN all = 1..(Len(acc) + Len(u))
  OBVIOUS
<1>2. \A i \in 1..Len(acc) : all[i] = acc[i]
  OBVIOUS
<1>3. \A i \in 1..Len(u) : all[Len(acc) + i] = u[i]
  OBVIOUS
<1>4. ASSUME NEW k \in (Len(acc) + 1)..(Len(acc) + Len(u)) PROVE ~Deletes(all[k], c)
  <2>1. k - Len(acc) \in 1..Len(u) /\ Len(acc) + (k - Len(acc)) = k
    BY <1>1
  <2> QED
    BY <1>1, <1>3, <2>1
<1> HIDE DEF all
<1>5. CASE pts[c] # Absent /\ \A k \in DOMAIN acc : ~Deletes(acc[k], c)
  <2>1. ASSUME NEW k \in DOMAIN all PROVE ~Deletes(all[k], c)
    <3>1. k \in 1..Len(acc) \/ k \in (Len(acc) + 1)..(Len(acc) + Len(u))
      BY <1>1
    <3> QED
      BY <1>1, <1>2, <1>4, <1>5, <3>1
  <2> QED
    BY <1>5, <2>1 DEF StaysIn, all
<1>6. ASSUME NEW i \in DOMAIN acc,
             acc[i].chunk = c, acc[i].point # Absent, acc[i].point.dim = dim,
             \A k \in i..Len(acc) : ~Deletes(acc[k], c)
      PROVE  StaysIn(pts, all, dim, c)
  <2>1. i \in 1..Len(acc) /\ i \in DOMAIN all /\ all[i] = acc[i]
    BY <1>1, <1>2
  <2>2. ASSUME NEW k \in i..Len(all) PROVE ~Deletes(all[k], c)
    <3>1. \/ k \in i..Len(acc) /\ k \in 1..Len(acc)
          \/ k \in (Len(acc) + 1)..(Len(acc) + Len(u))
      BY <1>1, <2>1
    <3> QED
      BY <1>2, <1>4, <1>6, <3>1
  <2> QED
    BY <1>6, <2>1, <2>2 DEF StaysIn
<1>7. ASSUME NEW i \in DOMAIN u, u[i].chunk = c, u[i].point # Absent, u[i].point.dim = dim
      PROVE  StaysIn(pts, all, dim, c)
  <2>1. Len(acc) + i \in DOMAIN all /\ all[Len(acc) + i] = u[i] /\ i \in 1..Len(u)
    BY <1>1, <1>3
  <2>2. ASSUME NEW k \in (Len(acc) + i)..Len(all) PROVE ~Deletes(all[k], c)
    <3>1. k \in (Len(acc) + 1)..(Len(acc) + Len(u))
      BY <1>1, <2>1
    <3> QED
      BY <1>4, <3>1
  <2> QED
    BY <1>7, <2>1, <2>2 DEF StaysIn
<1> QED
  BY <1>5, <1>6, <1>7 DEF StaysIn, all

\* To apply the first change lets a chunk stay.
LEMMA StaysApplied ==
  ASSUME NEW acc \in Seq(SomeChanges), acc # <<>>, NEW pts, NEW new, NEW dim, NEW c,
         StaysIn(pts, acc, dim, c),
         new[c] = IF acc[1].chunk # c \/ (acc[1].point # Absent /\ acc[1].point.dim # dim)
                  THEN pts[c] ELSE acc[1].point
  PROVE  StaysIn(new, Tail(acc), dim, c)
<1> DEFINE rest == Tail(acc)
<1>1. /\ Len(acc) \in Nat \ {0} /\ DOMAIN acc = 1..Len(acc) /\ Len(rest) = Len(acc) - 1
      /\ DOMAIN rest = 1..(Len(acc) - 1) /\ Len(rest) \in Nat
      /\ \A k \in 1..(Len(acc) - 1) : rest[k] = acc[k + 1]
  OBVIOUS
<1> HIDE DEF rest
<1>2. CASE pts[c] # Absent /\ \A k \in DOMAIN acc : ~Deletes(acc[k], c)
  <2>1. ~Deletes(acc[1], c) /\ \A k \in DOMAIN rest : ~Deletes(rest[k], c)
    BY <1>1, <1>2
  <2>2. new[c] # Absent
    BY <1>2, <2>1 DEF Deletes
  <2> QED
    BY <2>1, <2>2 DEF StaysIn, rest
<1>3. ASSUME NEW i \in DOMAIN acc,
             acc[i].chunk = c, acc[i].point # Absent, acc[i].point.dim = dim,
             \A k \in i..Len(acc) : ~Deletes(acc[k], c)
      PROVE  StaysIn(new, rest, dim, c)
  <2>1. ASSUME NEW k \in (i - 1)..Len(rest), k >= 1 PROVE ~Deletes(rest[k], c)
    <3>1. k \in 1..(Len(acc) - 1) /\ k + 1 \in i..Len(acc)
      BY <1>1, <2>1
    <3> QED
      BY <1>1, <1>3, <3>1
  <2>2. CASE i = 1
    <3>1. new[c] # Absent /\ \A k \in DOMAIN rest : k \in (i - 1)..Len(rest) /\ k >= 1
      BY <1>1, <1>3, <2>2
    <3> QED
      BY <2>1, <3>1 DEF StaysIn
  <2>3. CASE i # 1
    <3>1. i - 1 \in DOMAIN rest /\ rest[i - 1] = acc[i]
      BY <1>1, <2>3
    <3>2. \A k \in (i - 1)..Len(rest) : ~Deletes(rest[k], c)
      BY <1>1, <2>1, <2>3
    <3> QED
      BY <1>3, <3>1, <3>2 DEF StaysIn
  <2> QED
    BY <2>2, <2>3
<1> QED
  BY <1>2, <1>3 DEF StaysIn, rest

LEMMA InitIndex == V!Init => IndexTypes /\ IndexOK
<1> SUFFICES ASSUME V!Init PROVE IndexTypes /\ IndexOK
  OBVIOUS
<1>1. job \in [Jobs -> [step : {"new"}, req : Requests, vectors : {<<>>}]]
  BY DEF V!Init
<1>2. /\ job = [j \in Jobs |-> job[j]]
      /\ \A j \in Jobs : /\ job[j].req \in Requests /\ job[j].step = "new"
                         /\ DOMAIN job[j] = {"step", "req", "vectors"}
  BY <1>1
<1> QED
  BY <1>2 DEF V!Init, IndexTypes, IndexOK

\* A step of call j is about this call, of which the request stays.
LEMMA CallChanges ==
  ASSUME IndexTypes, NEW j \in Jobs,
         \/ V!Begin(j) \/ V!CollectionExists(j) \/ V!CreateCollection(j) \/ V!Embed(j)
         \/ V!Upsert(j) \/ V!CallFails(j) \/ V!CallAgain(j)
  PROVE  /\ job' = [job EXCEPT ![j] = job'[j]]
         /\ job'[j].req = job[j].req /\ DOMAIN job'[j] = {"step", "req", "vectors"}
         /\ job'[j].step = "upsert" => VectorsMatch(job[j].req, job'[j].vectors)
<1> USE DEF IndexTypes
<1>1. ASSUME NEW s, s # "upsert", V!Goto(j, s)
      PROVE  /\ job' = [job EXCEPT ![j] = job'[j]]
             /\ job'[j].req = job[j].req /\ DOMAIN job'[j] = {"step", "req", "vectors"}
             /\ job'[j].step # "upsert"
  BY <1>1 DEF V!Goto
<1>2. CASE V!Begin(j)
  BY <1>1, <1>2 DEF V!Begin
<1>3. CASE V!CollectionExists(j)
  BY <1>1, <1>3 DEF V!CollectionExists
<1>4. CASE V!CreateCollection(j)
  BY <1>1, <1>4 DEF V!CreateCollection
<1>5. CASE V!Upsert(j) \/ V!CallFails(j) \/ V!CallAgain(j)
  <2>1. V!Goto(j, "ok") \/ V!Goto(j, "error") \/ V!Goto(j, "new")
    BY <1>5 DEF V!Upsert, V!CallFails, V!CallAgain
  <2> QED
    BY <1>1, <2>1
<1>6. CASE V!Embed(j)
  <2> DEFINE req == job[j].req  n == Len(req.inputs)
             vectors(k, d) == [i \in 1..k |-> [of |-> req.inputs[i].chunk, dim |-> d]]
  <2>1. PICK k \in {n - 1, n}, d \in Dims \ {0} :
          job' = [job EXCEPT ![j] =
                    IF V!ShapeAgrees(vectors(k, d), n, req.dims)
                    THEN [@ EXCEPT !.step = "upsert", !.vectors = vectors(k, d)]
                    ELSE [@ EXCEPT !.step = "error"]]
    BY <1>6, Zenon DEF V!Embed
  <2> DEFINE new == IF V!ShapeAgrees(vectors(k, d), n, req.dims)
                    THEN [job[j] EXCEPT !.step = "upsert", !.vectors = vectors(k, d)]
                    ELSE [job[j] EXCEPT !.step = "error"]
  <2>2. job' = [job EXCEPT ![j] = new]
    BY <2>1
  <2>3. new.req = job[j].req /\ DOMAIN new = {"step", "req", "vectors"}
    OBVIOUS
  <2>4. new.step = "upsert" =>
          V!ShapeAgrees(vectors(k, d), n, req.dims) /\ new.vectors = vectors(k, d)
    OBVIOUS
  <2>5. V!ShapeAgrees(vectors(k, d), n, req.dims) => VectorsMatch(req, vectors(k, d))
    <3> SUFFICES ASSUME V!ShapeAgrees(vectors(k, d), n, req.dims)
                 PROVE  vectors(k, d) = vectors(n, req.dims)
      BY DEF VectorsMatch
    <3>1. n \in Nat /\ DOMAIN vectors(k, d) = 1..k /\ k \in Int
      BY RequestTypes
    <3>2. Len(vectors(k, d)) = n /\ \A x \in 1..k : d = req.dims
      BY <3>1 DEF V!ShapeAgrees
    <3>3. 1..k = 1..n
      <4>1. CASE k = n
        BY <4>1
      <4>2. CASE k = n - 1
        <5>1. CASE n = 0
          BY <4>2, <5>1
        <5>2. CASE n # 0
          BY <3>1, <3>2, <4>2, <5>2
        <5> QED
          BY <5>1, <5>2
      <4> QED
        BY <4>1, <4>2
    <3> QED
      BY <3>2, <3>3
  <2>6. new = job'[j]
    BY <2>2
  <2> HIDE DEF new, vectors
  <2> QED
    BY <2>2, <2>3, <2>4, <2>5, <2>6
<1> QED
  BY <1>2, <1>3, <1>4, <1>5, <1>6

\* What a step of call j does to the collection and to what is acknowledged.
LEMMA CallSteps ==
  ASSUME IndexTypes, IndexOK, NEW j \in Jobs,
         \/ V!Begin(j) \/ V!CollectionExists(j) \/ V!CreateCollection(j) \/ V!Embed(j)
         \/ V!Upsert(j) \/ V!CallFails(j) \/ V!CallAgain(j)
  PROVE  /\ points' = points /\ indexedFor' = indexedFor /\ search' = Absent
         /\ \/ /\ collection' = collection \/ (collection = Absent /\ collection' = StoreDim)
               /\ accepted' = accepted /\ stands' = stands
            \/ /\ collection # Absent /\ collection' = collection
               /\ accepted' = accepted \o V!Upserts(job[j].req, job[j].vectors)
               /\ VectorsMatch(job[j].req, job[j].vectors)
               /\ stands' = stands \/ stands' = stands \cup {j}
<1>1. CASE V!Begin(j) \/ V!CollectionExists(j) \/ V!Embed(j) \/ V!CallAgain(j)
  BY <1>1, Zenon DEF V!Begin, V!CollectionExists, V!Embed, V!CallAgain
<1>2. CASE V!CreateCollection(j)
  BY <1>2 DEF V!CreateCollection
<1>3. CASE V!Upsert(j)
  BY <1>3 DEF V!Upsert, IndexOK
<1>4. CASE V!CallFails(j)
  BY <1>4 DEF V!CallFails, IndexOK
<1> QED
  BY <1>1, <1>2, <1>3, <1>4

\* A step of a call keeps what the calls, the points and the collection have to do with
\* each other.
LEMMA CallKeeps ==
  ASSUME IndexTypes, IndexOK, NEW j \in Jobs,
         \/ V!Begin(j) \/ V!CollectionExists(j) \/ V!CreateCollection(j) \/ V!Embed(j)
         \/ V!Upsert(j) \/ V!CallFails(j) \/ V!CallAgain(j)
  PROVE  (IndexTypes /\ IndexOK)'
<1>1. /\ points' = points /\ indexedFor' = indexedFor
      /\ job' = [job EXCEPT ![j] = job'[j]]
      /\ job'[j].req = job[j].req /\ DOMAIN job'[j] = {"step", "req", "vectors"}
      /\ job'[j].step = "upsert" => VectorsMatch(job[j].req, job'[j].vectors)
  BY CallSteps, CallChanges
<1>2. /\ job' = [k \in Jobs |-> job'[k]]
      /\ \A k \in Jobs : /\ job'[k].req = job[k].req
                         /\ DOMAIN job'[k] = {"step", "req", "vectors"}
      /\ \A k \in Jobs : job'[k].step = "upsert" => VectorsMatch(job'[k].req, job'[k].vectors)
  BY <1>1 DEF IndexTypes, IndexOK
<1>3. CASE /\ collection' = collection \/ (collection = Absent /\ collection' = StoreDim)
           /\ accepted' = accepted /\ stands' = stands
  <2>1. collection' # collection => stands = {} /\ accepted = <<>> /\ \A k \in Chunks : points[k] = Absent
    <3>1. \A k \in Chunks : points[k] # Absent => points[k].dim # Absent
      BY AbsentAssumption DEF IndexTypes, SomePoints
    <3> QED
      BY <1>3, <3>1 DEF IndexOK
  <2>2. IndexTypes'
    BY <1>1, <1>2, <1>3 DEF IndexTypes
  <2>3. \A k \in stands' : job'[k].req = job[k].req
    BY <1>2, <1>3 DEF IndexTypes
  <2>4. \A k \in stands' : job'[k].req.dims = collection' =>
          \A c \in V!ChunksOf(job'[k].req) : StaysIn(points', accepted', collection', c)
    BY <1>1, <1>3, <2>1, <2>3 DEF IndexOK
  <2>5. stands' # {} \/ accepted' # <<>> => collection' # Absent
    BY <1>3, <2>1 DEF IndexOK
  <2>6. \A k \in Chunks : points'[k] # Absent => points'[k].dim = collection'
    BY <1>1, <2>1 DEF IndexOK
  <2> QED
    BY <1>1, <1>2, <1>3, <2>2, <2>4, <2>5, <2>6 DEF IndexOK
<1>4. CASE /\ collection # Absent /\ collection' = collection
           /\ accepted' = accepted \o V!Upserts(job[j].req, job[j].vectors)
           /\ VectorsMatch(job[j].req, job[j].vectors)
           /\ stands' = stands \/ stands' = stands \cup {j}
  <2> DEFINE req == job[j].req
             u == V!Upserts(req, job[j].vectors)
  <2>1. req \in Requests /\ accepted \in Seq(SomeChanges)
    BY DEF IndexTypes
  <2>2. /\ u \in Seq(SomeChanges) /\ DOMAIN u = DOMAIN req.inputs
        /\ \A i \in DOMAIN u : /\ u[i].point # Absent /\ u[i].point.dim = req.dims
                               /\ u[i].chunk = req.inputs[i].chunk
                               /\ MadeFrom(u[i].point, u[i].chunk, u[i].from)
    BY <1>4, <2>1, UpsertChanges
  <2>3. \A c : \A i \in DOMAIN u : ~Deletes(u[i], c)
    BY <2>2 DEF Deletes
  <2>4. \A c \in V!ChunksOf(req) :
          \E i \in DOMAIN u : u[i].chunk = c /\ u[i].point # Absent /\ u[i].point.dim = req.dims
    BY <2>2 DEF V!ChunksOf
  <2>5. accepted' = accepted \o u
    BY <1>4
  <2> HIDE DEF u
  <2>6. accepted' \in Seq(SomeChanges)
    BY <2>1, <2>2, <2>5
  <2>7. IndexTypes'
    BY <1>1, <1>2, <1>4, <2>6 DEF IndexTypes
  <2>8. ASSUME NEW i \in DOMAIN accepted', accepted'[i].point # Absent
        PROVE  MadeFrom(accepted'[i].point, accepted'[i].chunk, accepted'[i].from)
    <3>1. \/ i \in DOMAIN accepted /\ accepted'[i] = accepted[i]
          \/ i - Len(accepted) \in DOMAIN u /\ accepted'[i] = u[i - Len(accepted)]
      BY <2>1, <2>2, <2>5, <2>8
    <3> QED
      BY <2>2, <2>8, <3>1 DEF IndexOK
  <2>9. ASSUME NEW k \in stands', job'[k].req.dims = collection', NEW c \in V!ChunksOf(job'[k].req)
        PROVE  StaysIn(points', accepted', collection', c)
    <3>1. k \in Jobs /\ job'[k].req = job[k].req
      BY <1>2, <1>4 DEF IndexTypes
    <3>2. StaysIn(points, accepted, collection, c)
            \/ \E i \in DOMAIN u : u[i].chunk = c /\ u[i].point # Absent /\ u[i].point.dim = collection
      BY <1>4, <2>4, <2>9, <3>1 DEF IndexOK
    <3>3. StaysIn(points, accepted \o u, collection, c)
      BY <2>1, <2>2, <2>3, <3>2, StaysAppended
    <3> QED
      BY <1>1, <1>4, <2>5, <3>3
  <2> QED
    BY <1>1, <1>2, <1>4, <2>7, <2>8, <2>9 DEF IndexOK
<1> QED
  BY <1>3, <1>4, CallSteps

\* To apply a change keeps them as well.
LEMMA ApplyKeeps == ASSUME IndexTypes, IndexOK, V!Apply PROVE (IndexTypes /\ IndexOK)'
<1> DEFINE change == accepted[1]
           kept == change.point # Absent /\ change.point.dim # collection
<1>1. /\ accepted # <<>> /\ accepted' = Tail(accepted)
      /\ UNCHANGED <<collection, job, stands>>
      /\ points' = IF kept THEN points ELSE [points EXCEPT ![change.chunk] = change.point]
      /\ indexedFor' = IF kept THEN indexedFor ELSE [indexedFor EXCEPT ![change.chunk] = change.from]
  BY DEF V!Apply
<1>2. accepted \in Seq(SomeChanges) /\ 1 \in DOMAIN accepted /\ change \in SomeChanges
  BY <1>1 DEF IndexTypes
<1>3. change.chunk \in Chunks /\ change.point \in SomePoints \cup {Absent}
  BY <1>2 DEF SomeChanges
<1>4. Tail(accepted) \in Seq(SomeChanges)
  BY <1>1, <1>2
<1> DEFINE new(c) == IF change.chunk # c \/ kept THEN points[c] ELSE change.point
<1>5. \A c \in Chunks : /\ points'[c] = new(c)
                        /\ change.chunk = c /\ ~kept => indexedFor'[c] = change.from
                        /\ change.chunk # c \/ kept => indexedFor'[c] = indexedFor[c]
  BY <1>1, <1>3 DEF IndexTypes
<1>6. IndexTypes'
  <2>1. points' \in [Chunks -> SomePoints \cup {Absent}]
    BY <1>1, <1>3 DEF IndexTypes
  <2>2. indexedFor' = [k \in Chunks |-> indexedFor'[k]]
    BY <1>1, <1>3 DEF IndexTypes
  <2> QED
    BY <1>1, <1>4, <2>1, <2>2 DEF IndexTypes
<1>7. ASSUME NEW i \in DOMAIN accepted', accepted'[i].point # Absent
      PROVE  MadeFrom(accepted'[i].point, accepted'[i].chunk, accepted'[i].from)
  <2>1. i + 1 \in DOMAIN accepted /\ accepted'[i] = accepted[i + 1]
    BY <1>1, <1>2, <1>7
  <2> QED
    BY <1>7, <2>1 DEF IndexOK
<1>8. ASSUME NEW c \in Chunks, points'[c] # Absent
      PROVE  MadeFrom(points'[c], c, indexedFor'[c]) /\ points'[c].dim = collection'
  <2>1. CASE change.chunk # c \/ kept
    BY <1>1, <1>5, <1>8, <2>1 DEF IndexOK
  <2>2. CASE change.chunk = c /\ ~kept
    <3>1. points'[c] = change.point /\ indexedFor'[c] = change.from /\ change.point # Absent
      BY <1>5, <1>8, <2>2
    <3>2. MadeFrom(change.point, change.chunk, change.from)
      BY <1>2, <3>1 DEF IndexOK
    <3> QED
      BY <1>1, <2>2, <3>1, <3>2
  <2> QED
    BY <2>1, <2>2
<1>9. ASSUME NEW k \in stands', job'[k].req.dims = collection', NEW c \in V!ChunksOf(job'[k].req)
      PROVE  StaysIn(points', accepted', collection', c)
  <2>1. StaysIn(points, accepted, collection, c) /\ job[k].req \in Requests
    BY <1>1, <1>9 DEF IndexOK, IndexTypes
  <2>2. c \in Chunks
    BY <1>1, <1>9, <2>1, RequestTypes DEF V!ChunksOf, SomeInput
  <2>3. points'[c] = new(c)
    BY <1>5, <2>2
  <2>4. StaysIn(points', Tail(accepted), collection, c)
    BY <1>1, <1>2, <2>1, <2>3, StaysApplied
  <2> QED
    BY <1>1, <2>4
<1>10. stands' # {} \/ accepted' # <<>> => collection' # Absent
  BY <1>1 DEF IndexOK
<1>11. \A k \in Jobs : job'[k].step = "upsert" => VectorsMatch(job'[k].req, job'[k].vectors)
  BY <1>1 DEF IndexOK
<1> QED
  BY <1>6, <1>7, <1>8, <1>9, <1>10, <1>11 DEF IndexOK

\* Acknowledged deletions keep them: the calls whose chunks they name stand no more.
LEMMA DeleteKeeps ==
  ASSUME IndexTypes, IndexOK, NEW ids \in IdLists, V!DeleteByIds(ids) PROVE (IndexTypes /\ IndexOK)'
<1> DEFINE u == [i \in DOMAIN ids |-> V!Change(ids[i], Absent, Absent)]
<1>1. /\ collection # Absent /\ accepted' = accepted \o u
      /\ stands' = {k \in stands : \A i \in DOMAIN ids : ids[i] \notin V!ChunksOf(job[k].req)}
      /\ UNCHANGED <<collection, points, job, indexedFor>>
  BY DEF V!DeleteByIds
<1>2. ids \in Seq(Chunks) /\ accepted \in Seq(SomeChanges)
  BY LimitsAssumption DEF IndexTypes
<1>3. u \in Seq(SomeChanges) /\ \A i \in DOMAIN u : u[i].chunk = ids[i] /\ u[i].point = Absent
  <2> DEFINE d(i) == [chunk |-> ids[i], point |-> Absent, from |-> Absent]
  <2>1. u = [i \in 1..Len(ids) |-> d(i)] /\ Len(ids) \in Nat
    BY <1>2 DEF V!Change
  <2>2. \A i \in 1..Len(ids) : d(i) \in SomeChanges /\ d(i).chunk = ids[i] /\ d(i).point = Absent
    BY <1>2 DEF SomeChanges
  <2> HIDE DEF d, u
  <2> QED
    BY <2>1, <2>2
<1>4. DOMAIN u = DOMAIN ids
  OBVIOUS
<1> HIDE DEF u
<1>5. accepted' \in Seq(SomeChanges)
  BY <1>1, <1>2, <1>3
<1>6. IndexTypes'
  BY <1>1, <1>5 DEF IndexTypes
<1>7. ASSUME NEW i \in DOMAIN accepted', accepted'[i].point # Absent
      PROVE  MadeFrom(accepted'[i].point, accepted'[i].chunk, accepted'[i].from)
  <2>1. \/ i \in DOMAIN accepted /\ accepted'[i] = accepted[i]
        \/ i - Len(accepted) \in DOMAIN u /\ accepted'[i] = u[i - Len(accepted)]
    BY <1>1, <1>2, <1>3, <1>7
  <2> QED
    BY <1>3, <1>7, <2>1 DEF IndexOK
<1>8. ASSUME NEW k \in stands', job'[k].req.dims = collection', NEW c \in V!ChunksOf(job'[k].req)
      PROVE  StaysIn(points', accepted', collection', c)
  <2>1. StaysIn(points, accepted, collection, c)
    BY <1>1, <1>8 DEF IndexOK
  <2>2. \A i \in DOMAIN u : ~Deletes(u[i], c)
    BY <1>1, <1>3, <1>4, <1>8 DEF Deletes
  <2>3. StaysIn(points, accepted \o u, collection, c)
    BY <1>2, <1>3, <2>1, <2>2, StaysAppended
  <2> QED
    BY <1>1, <2>3
<1>9. /\ stands' # {} \/ accepted' # <<>> => collection' # Absent
      /\ \A k \in Jobs : job'[k].step = "upsert" => VectorsMatch(job'[k].req, job'[k].vectors)
      /\ \A k \in Chunks : points'[k] # Absent =>
           MadeFrom(points'[k], k, indexedFor'[k]) /\ points'[k].dim = collection'
  BY <1>1 DEF IndexOK
<1> QED
  BY <1>6, <1>7, <1>8, <1>9 DEF IndexOK

\* Every step does.
LEMMA StepIndex ==
  ASSUME IndexTypes, IndexOK, [V!Next]_(V!vars) PROVE (IndexTypes /\ IndexOK)'
<1>1. CASE V!DropCollection
  BY <1>1 DEF V!DropCollection, IndexTypes, IndexOK
<1>2. ASSUME UNCHANGED <<collection, points, accepted, job, stands, indexedFor>>
      PROVE  (IndexTypes /\ IndexOK)'
  <2>1. IndexTypes'
    BY <1>2 DEF IndexTypes
  <2>2. IndexOK'
    BY <1>2 DEF IndexOK
  <2> QED
    BY <2>1, <2>2
<1>3. ASSUME NEW conds, NEW limit, V!Search(conds, limit) PROVE (IndexTypes /\ IndexOK)'
  BY <1>2, <1>3 DEF V!Search
<1>4. CASE UNCHANGED V!vars
  BY <1>2, <1>4 DEF V!vars
<1> QED
  BY <1>1, <1>3, <1>4, CallKeeps, ApplyKeeps, DeleteKeeps DEF V!Next

\* A point that is applied meets a condition when its chunk does, but for lists.
LEMMA MatchesMeets ==
  ASSUME IndexOK, NEW k \in Chunks, points[k] # Absent, NEW c \in V!Conditions,
         \/ c.type \in {"string", "strings"}
         \/ c.type = "integer" /\ ~indexedFor[k].page.list
  PROVE  V!Matches(points[k], c) <=> V!Meets(k, c)
<1>1. MadeFrom(points[k], k, indexedFor[k])
  BY DEF IndexOK
<1>2. CASE c.type \in {"string", "strings"}
  BY <1>1, <1>2 DEF MadeFrom, V!Matches, V!Meets
<1>3. CASE c.type = "integer" /\ ~indexedFor[k].page.list
  <2>1. indexedFor[k].page.list = FALSE
    BY <1>1, <1>3 DEF MadeFrom, V!Pages
  <2>2. points[k].page = {[text |-> FALSE, n |-> x] : x \in indexedFor[k].page.of}
    BY <1>1, <2>1 DEF MadeFrom, V!JsonToQdrantValue
  <2>3. [text |-> FALSE, n |-> c.value] \in points[k].page <=> c.value \in indexedFor[k].page.of
    BY <2>2
  <2> QED
    BY <1>3, <2>3 DEF V!Matches, V!Meets
<1> QED
  BY <1>2, <1>3

\* Cardinality is the same in Indexing.
LEMMA SameCardinality == \A S : V!Cardinality(S) = Cardinality(S)
  BY Zenon DEF V!Cardinality, Cardinality

\* The hits are as asked when the points match as their chunks meet the conditions.
LEMMA HitsAsAsked ==
  ASSUME NEW conds, NEW limit \in Nat, NEW H \in V!Hits(conds, limit),
         \A c \in conds : c.type # "other",
         \A k \in Chunks, c \in conds : points[k] # Absent => (V!Matches(points[k], c) <=> V!Meets(k, c))
  PROVE  LET met == {k \in Chunks : points[k] # Absent /\ \A c \in conds : V!Meets(k, c)} IN
         /\ H \subseteq met
         /\ Cardinality(H) <= limit
         /\ Cardinality(met) <= limit => H = met
<1> DEFINE met == {k \in Chunks : points[k] # Absent /\ \A c \in conds : V!Meets(k, c)}
<1>1. V!Filter(conds) = conds
  BY DEF V!Filter
<1>2. V!Matching(conds) = met
  BY <1>1 DEF V!Matching
<1>3. H \subseteq met /\ Cardinality(H) = IF Cardinality(met) <= limit THEN Cardinality(met) ELSE limit
  <2> DEFINE M == V!Matching(conds)
  <2>1. H \in {K \in SUBSET M : Cardinality(K) = IF Cardinality(M) <= limit THEN Cardinality(M)
                                                 ELSE limit}
    BY SameCardinality, Zenon DEF V!Hits
  <2>2. M = met
    BY <1>2
  <2> HIDE DEF M, met
  <2> QED
    BY <2>1, <2>2
<1>4. met \subseteq Chunks
  OBVIOUS
<1> HIDE DEF met
<1>5. IsFiniteSet(met)
  BY <1>4, ChunksAssumption, FS_Subset
<1>6. Cardinality(met) \in Nat
  BY <1>5, FS_CardinalityType
<1>7. Cardinality(H) = Cardinality(met) => H = met
  BY <1>3, <1>5, FS_Subset
<1> QED
  BY <1>3, <1>6, <1>7 DEF met

\* Meets and FoundAsAsked of any state.
MeetsIn(given, k, c) ==
  CASE c.type = "string"   -> given[k].tenant = c.value
    [] c.type = "strings"  -> given[k].tenant \in c.value
    [] c.type = "integer"  -> c.value \in given[k].page.of
    [] c.type = "integers" -> given[k].page.of \cap c.value # {}

FoundIn(pts, given, found) ==
  LET met == {k \in Chunks : pts[k] # Absent /\ \A c \in found.conds : MeetsIn(given, k, c)} IN
  /\ found.hits \subseteq met
  /\ Cardinality(found.hits) <= found.limit
  /\ Cardinality(met) <= found.limit => found.hits = met

LEMMA FoundMeans == V!FoundAsAsked <=> FoundIn(points, indexedFor, search)
  BY SameCardinality, Zenon DEF V!FoundAsAsked, V!Meets, FoundIn, MeetsIn

LEMMA FoundMeansNext == (V!FoundAsAsked <=> FoundIn(points, indexedFor, search))'
  BY FoundMeans, PTL

\* A search that has strings, integers or lists of strings to compare to finds what
\* meets its conditions; any other step forgets the search.
LEMMA SearchStep ==
  ASSUME IndexTypes, IndexOK, SearchExact, [V!Next]_(V!vars) PROVE SearchExact'
<1>1. ASSUME NEW conds \in Searches, NEW limit \in SearchLimits, V!Search(conds, limit)
      PROVE  SearchExact'
  <2> DEFINE strings == \A c \in conds : c.type \in {"string", "strings"}
             numbers == /\ \A c \in conds : c.type \in {"string", "strings", "integer"}
                        /\ \A k \in Chunks : points[k] # Absent => ~indexedFor[k].page.list
  <2>1. PICK H \in V!Hits(conds, limit) : search' = [conds |-> conds, limit |-> limit, hits |-> H]
    BY <1>1 DEF V!Search
  <2>2. points' = points /\ indexedFor' = indexedFor
    BY <1>1 DEF V!Search
  <2>3. conds \subseteq V!Conditions /\ limit \in Nat
    BY SearchesAssumption, LimitsAssumption
  <2> DEFINE met == {k \in Chunks : points[k] # Absent /\ \A c \in conds : V!Meets(k, c)}
  <2>4. ASSUME strings \/ numbers
        PROVE  /\ H \subseteq met
               /\ Cardinality(H) <= limit
               /\ Cardinality(met) <= limit => H = met
    <3>1. \A c \in conds : c.type # "other"
      BY <2>4
    <3>2. ASSUME NEW k \in Chunks, NEW c \in conds, points[k] # Absent
          PROVE  V!Matches(points[k], c) <=> V!Meets(k, c)
      <4>1. c \in V!Conditions
        BY <2>3
      <4>2. \/ c.type \in {"string", "strings"}
            \/ c.type = "integer" /\ ~indexedFor[k].page.list
        BY <2>4, <3>2
      <4> QED
        BY <3>2, <4>1, <4>2, MatchesMeets
    <3> QED
      BY <2>3, <3>1, <3>2, HitsAsAsked
  <2>5. search'.conds = conds /\ search'.limit = limit /\ search'.hits = H
    BY <2>1
  <2>6. FoundIn(points, indexedFor, search') <=>
          /\ H \subseteq met
          /\ Cardinality(H) <= limit
          /\ Cardinality(met) <= limit => H = met
    BY <2>5 DEF FoundIn, MeetsIn, V!Meets
  <2>7. V!FoundAsAsked' <=> FoundIn(points', indexedFor', search')
    BY FoundMeansNext DEF FoundIn, MeetsIn
  <2>8. strings \/ numbers => V!FoundAsAsked'
    BY <2>2, <2>4, <2>6, <2>7
  <2>9. /\ V!Searched({"string", "strings"})' => strings
        /\ V!Searched({"string", "strings", "integer"})' /\ V!NoListStored' => numbers
    BY <2>2, <2>5 DEF V!Searched, V!NoListStored
  <2> HIDE DEF strings, numbers
  <2> QED
    BY <2>8, <2>9 DEF SearchExact, V!SearchExact
<1>2. CASE UNCHANGED V!vars
  <2>1. /\ V!FoundAsAsked' <=> V!FoundAsAsked
        /\ V!NoListStored' <=> V!NoListStored
        /\ V!Searched({"string", "strings"})' <=> V!Searched({"string", "strings"})
        /\ V!Searched({"string", "strings", "integer"})' <=> V!Searched({"string", "strings", "integer"})
    BY <1>2 DEF V!vars, V!FoundAsAsked, V!NoListStored, V!Searched, V!Meets
  <2> QED
    BY <2>1 DEF SearchExact, V!SearchExact
<1>3. CASE search' = Absent
  BY <1>3 DEF SearchExact, V!SearchExact, V!Searched
<1>4. ASSUME NEW j \in Jobs,
             \/ V!Begin(j) \/ V!CollectionExists(j) \/ V!CreateCollection(j) \/ V!Embed(j)
             \/ V!Upsert(j) \/ V!CallFails(j) \/ V!CallAgain(j)
      PROVE  search' = Absent
  BY <1>4, CallSteps
<1>5. ASSUME V!Apply \/ V!DropCollection \/ \E ids \in IdLists : V!DeleteByIds(ids)
      PROVE  search' = Absent
  BY <1>5 DEF V!Apply, V!DropCollection, V!DeleteByIds
<1> QED
  BY <1>1, <1>2, <1>3, <1>4, <1>5 DEF V!Next

IndexInv == IndexTypes /\ IndexOK /\ SearchExact

\* What the calls are about to store is right, what Qdrant acknowledged comes to be
\* stored, and what it has applied is what the chunks were indexed with.
THEOREM IndexInvariance == StorageSpec => []IndexInv
<1>1. StorageInit => IndexInv
  <2>1. V!Init => SearchExact
    BY DEF V!Init, SearchExact, V!SearchExact, V!Searched
  <2> QED
    BY <2>1, InitIndex DEF StorageInit, IndexInv
<1>2. [StorageNext]_<<part, vars, tenantVars, pgVars, blobVars, vectorVars>> => [V!Next]_(V!vars)
  BY DEF StorageNext, vectorVars, V!vars
<1>3. IndexInv /\ [V!Next]_(V!vars) => IndexInv'
  BY StepIndex, SearchStep DEF IndexInv
<1> QED
  BY <1>1, <1>2, <1>3, PTL DEF StorageSpec

\* An index call that returned success has its chunks stored once what Qdrant has
\* acknowledged is applied, whatever fails, is dropped or is indexed at the same time,
\* until one of them is deleted.
THEOREM IndexedAlwaysStored == StorageSpec => []IndexedIsStored
<1>1. IndexInv => IndexedIsStored
  <2> SUFFICES ASSUME IndexInv PROVE IndexedIsStored
    OBVIOUS
  <2>1. \A j \in stands : job[j].req.dims = collection =>
          \A c \in V!ChunksOf(job[j].req) : V!Stays(c)
    BY StaysMeans DEF IndexInv, IndexOK
  <2>2. \A c \in Chunks : points[c] # Absent => points[c].of = c /\ points[c].dim = collection
    BY DEF IndexInv, IndexOK, MadeFrom
  <2> QED
    BY <2>1, <2>2 DEF IndexedIsStored, V!IndexedIsStored
<1> QED
  BY <1>1, IndexInvariance, PTL

\* A search for strings, integers or lists of strings finds what meets its conditions
\* among the points that are applied, as many as its limit allows, and no other
\* tenant's chunks.
THEOREM SearchesExact == StorageSpec => []SearchExact
<1>1. IndexInv => SearchExact
  BY DEF IndexInv
<1> QED
  BY <1>1, IndexInvariance, PTL

-----------------------------------------------------------------------------
(* The blob store and the extraction.                                      *)

BlobKey(n) == [slash |-> FALSE, name |-> n]

Fetching == step \in {"pdf", "file", "http"}

\* The source is, or was when the PDF extractor left it, no PDF with text.
NoPdf(s) == ~(X!SaysPdf(s) /\ s.format = "pdf")

ExtractTypes ==
  /\ asset \in Assets
  /\ blobs \in [X!Keys -> X!Formats \cup {Absent}]
  /\ page \in X!Contents \cup {Absent}
  /\ held = [n \in BlobNames \cup Uploads |-> held[n]]
  /\ step \in {"upload", "route", "pdf", "file", "http", "done"}

\* Under the key that every spelling is normalised to is what was put last; what the
\* source holds has been seen; a likely PDF that comes to another extractor was none.
ExtractOK ==
  /\ \A n \in BlobNames \cup Uploads : blobs[BlobKey(n)] = held[n]
  /\ step = "upload" => ~X!Unnamed /\ asset.key.name \in Uploads
  /\ Fetching => X!Held \in seen
  /\ step \in {"file", "http"} /\ X!IsLikelyPdf => \E s \in seen : NoPdf(s)

LEMMA KeyWith ==
  ASSUME NEW B, NEW N, NEW v, NEW key \in [slash : B, name : N]
  PROVE  [key EXCEPT !.slash = v] = [slash |-> v, name |-> key.name]
  OBVIOUS

LEMMA KeyOf ==
  ASSUME NEW B, NEW N, NEW key \in [slash : B, name : N], NEW v, key.slash = v
  PROVE  key = [slash |-> v, name |-> key.name]
  OBVIOUS

\* Normalised, a key is the one without a slash.
LEMMA Normalized ==
  /\ \A key \in X!Keys : /\ X!NormalizeKey(key) = BlobKey(key.name)
                         /\ key.name \in BlobNames \cup Uploads
  /\ \A n \in BlobNames \cup Uploads :
       BlobKey(n) \in X!Keys /\ BlobKey(n).name = n /\ X!NormalizeKey(BlobKey(n)) = BlobKey(n)
<1>1. ASSUME NEW key \in X!Keys
      PROVE  X!NormalizeKey(key) = BlobKey(key.name) /\ key.name \in BlobNames \cup Uploads
  <2>1. key \in [slash : BOOLEAN, name : BlobNames \cup Uploads]
    BY DEF X!Keys
  <2>2. \A v : [key EXCEPT !.slash = v] = [slash |-> v, name |-> key.name]
    BY <2>1, KeyWith
  <2>3. key.name \in BlobNames \cup Uploads
    BY <2>1
  <2> QED
    BY <2>2, <2>3 DEF X!NormalizeKey, BlobKey
<1>2. \A n \in BlobNames \cup Uploads : BlobKey(n) \in X!Keys /\ BlobKey(n).name = n
  BY DEF X!Keys, BlobKey
<1> QED
  BY <1>1, <1>2

\* The key of an asset is one of the blob store or a URL, and one that is uploaded has
\* no slash.
LEMMA AssetKeys ==
  ASSUME ExtractTypes, ~X!Unnamed
  PROVE  /\ ~X!IsUrl => asset.key \in X!Keys
         /\ asset.key.name \in Uploads => asset.key = BlobKey(asset.key.name)
<1>1. /\ asset.key \in [slash : BOOLEAN, name : BlobNames \cup Uploads \cup Urls]
      /\ asset.key.name \in Uploads => ~asset.key.slash
  BY AssetsAssumption DEF ExtractTypes, X!Unnamed
<1>2. asset.key.name \in BlobNames \cup Uploads \cup Urls /\ asset.key.slash \in BOOLEAN
  BY <1>1
<1>3. asset.key.name \in Uploads => asset.key = BlobKey(asset.key.name)
  BY <1>1, <1>2, KeyOf DEF BlobKey
<1>4. ~X!IsUrl => asset.key.name \in BlobNames \cup Uploads
  BY <1>2 DEF X!IsUrl
<1>5. asset.key.name \in BlobNames \cup Uploads => asset.key \in X!Keys
  BY <1>1, <1>2 DEF X!Keys
<1> QED
  BY <1>3, <1>4, <1>5

\* A fetch finds what the source holds.
LEMMA SourceIsHeld == ASSUME ExtractTypes, ExtractOK PROVE X!Source = X!Held
<1>1. CASE X!IsUrl \/ X!Unnamed
  BY <1>1 DEF X!Source, X!Held
<1>2. CASE ~X!IsUrl /\ ~X!Unnamed
  <2>1. X!NormalizeKey(asset.key) = BlobKey(asset.key.name)
    BY <1>2, AssetKeys, Normalized
  <2>2. blobs[BlobKey(asset.key.name)] = held[asset.key.name]
    BY <1>2, AssetKeys, Normalized DEF ExtractOK
  <2> QED
    BY <1>2, <2>1, <2>2 DEF X!Source, X!Held
<1> QED
  BY <1>1, <1>2

LEMMA InitExtract == X!Init => ExtractTypes /\ ExtractOK
<1> SUFFICES ASSUME X!Init PROVE ExtractTypes /\ ExtractOK
  OBVIOUS
<1>1. PICK format \in X!Formats \cup {Absent} :
        /\ held = [n \in BlobNames \cup Uploads |->
                     IF step = "route" /\ ~X!Unnamed /\ n = asset.key.name THEN format ELSE Absent]
        /\ blobs = [k \in X!Keys |-> IF k = X!NormalizeKey(k) THEN held[k.name] ELSE Absent]
  BY DEF X!Init
<1>2. ASSUME NEW n \in BlobNames \cup Uploads PROVE blobs[BlobKey(n)] = held[n]
  <2>1. BlobKey(n) \in X!Keys /\ X!NormalizeKey(BlobKey(n)) = BlobKey(n) /\ BlobKey(n).name = n
    BY Normalized
  <2> QED
    BY <1>1, <2>1
<1>3. /\ asset \in Assets
      /\ step = IF ~X!Unnamed /\ asset.key.name \in Uploads THEN "upload" ELSE "route"
  BY DEF X!Init
<1>4. ExtractTypes
  <2>1. \A k \in X!Keys : held[k.name] \in X!Formats \cup {Absent}
    BY <1>1, Normalized
  <2>2. page \in X!Contents \cup {Absent}
    BY DEF X!Init
  <2> QED
    BY <1>1, <1>3, <2>1, <2>2 DEF ExtractTypes
<1> QED
  BY <1>2, <1>3, <1>4 DEF ExtractOK, Fetching

\* A put or a delete under key, by whatever spelling, is one of the normalised key.
LEMMA PutStep ==
  ASSUME ExtractTypes, ExtractOK, NEW key \in X!Keys, NEW format \in X!Formats \cup {Absent},
         blobs' = [blobs EXCEPT ![X!NormalizeKey(key)] = format],
         held' = [held EXCEPT ![key.name] = format],
         X!Change(key.name, X!Labelled(format)), UNCHANGED page
  PROVE  (ExtractTypes /\ ExtractOK)'
<1>1. X!NormalizeKey(key) = BlobKey(key.name) /\ key.name \in BlobNames \cup Uploads
  BY Normalized
<1>2. \A n \in BlobNames \cup Uploads : BlobKey(n) \in X!Keys /\ BlobKey(n).name = n
  BY Normalized
<1>3. /\ UNCHANGED <<asset, step, outcome>> /\ step # "upload"
      /\ seen' = IF ~X!Unnamed /\ asset.key.name = key.name
                 THEN seen \cup {X!Labelled(format)} ELSE seen
  BY DEF X!Change
<1>4. ExtractTypes'
  BY <1>1, <1>2, <1>3 DEF ExtractTypes
<1>5. \A n \in BlobNames \cup Uploads : blobs'[BlobKey(n)] = held'[n]
  <2> SUFFICES ASSUME NEW n \in BlobNames \cup Uploads PROVE blobs'[BlobKey(n)] = held'[n]
    OBVIOUS
  <2>1. BlobKey(n) = BlobKey(key.name) => n = key.name
    BY <1>1, <1>2
  <2>2. blobs'[BlobKey(n)] = IF n = key.name THEN format ELSE blobs[BlobKey(n)]
    BY <1>1, <1>2, <2>1 DEF ExtractTypes
  <2>3. held'[n] = IF n = key.name THEN format ELSE held[n]
    BY DEF ExtractTypes
  <2> QED
    BY <2>2, <2>3 DEF ExtractOK
<1>6. Fetching => X!Held' \in seen'
  <2>1. CASE X!IsUrl \/ X!Unnamed
    <3>1. X!Held' = X!Held
      BY <1>3, <2>1 DEF X!Held, X!IsUrl, X!Unnamed
    <3> QED
      BY <1>3, <3>1 DEF ExtractOK
  <2>2. CASE ~X!IsUrl /\ ~X!Unnamed
    <3>1. /\ X!Held = X!Labelled(held[asset.key.name])
          /\ X!Held' = X!Labelled(held'[asset.key.name])
      BY <1>3, <2>2 DEF X!Held, X!IsUrl, X!Unnamed, X!Labelled
    <3>2. asset.key.name \in BlobNames \cup Uploads
      BY <2>2, AssetKeys, Normalized
    <3>3. held'[asset.key.name] = IF asset.key.name = key.name THEN format ELSE held[asset.key.name]
      BY <3>2 DEF ExtractTypes
    <3> QED
      BY <1>3, <2>2, <3>1, <3>3 DEF ExtractOK
  <2> QED
    BY <2>1, <2>2
<1>7. seen \subseteq seen' /\ (X!IsLikelyPdf' <=> X!IsLikelyPdf) /\ (X!Unnamed' <=> X!Unnamed)
  BY <1>3 DEF X!IsLikelyPdf, X!Unnamed
<1> QED
  BY <1>3, <1>4, <1>5, <1>6, <1>7 DEF ExtractOK, Fetching

\* What the source holds has one of the formats.
LEMMA SourceFormat ==
  ASSUME ExtractTypes, ExtractOK, X!Source # Absent PROVE X!Source.format \in X!Formats
<1>1. CASE X!IsUrl
  BY <1>1 DEF X!Source, ExtractTypes, X!Contents
<1>2. CASE ~X!IsUrl
  <2>1. ~X!Unnamed /\ X!Source = X!Labelled(blobs[X!NormalizeKey(asset.key)])
    BY <1>2 DEF X!Source
  <2>2. X!NormalizeKey(asset.key) \in X!Keys
    BY <1>2, <2>1, AssetKeys, Normalized
  <2>3. blobs[X!NormalizeKey(asset.key)] \in X!Formats \cup {Absent}
    BY <2>2 DEF ExtractTypes
  <2> QED
    BY <2>1, <2>3 DEF X!Labelled
<1> QED
  BY <1>1, <1>2

\* What a fetch brings has been seen.
LEMMA FetchSeen ==
  ASSUME ExtractTypes, ExtractOK, Fetching, NEW content, X!Fetches(content)
  PROVE  content \in seen' /\ seen \subseteq seen' /\ UNCHANGED <<blobs, held, page, asset>>
  BY SourceIsHeld DEF ExtractOK, X!Fetches

\* Each extractor ends with an outcome that what it fetched explains, or leaves what
\* is no PDF to the next.
LEMMA ExtractorStep ==
  ASSUME ExtractTypes, ExtractOK, NEW content \in {X!Source, Absent},
         X!PdfExtract(content) \/ X!FileExtract(content) \/ X!HttpExtract(content)
  PROVE  ExtractTypes' /\ ExtractOK' /\ OutcomeExplained'
<1>1. Fetching /\ X!Fetches(content)
  BY DEF X!PdfExtract, X!FileExtract, X!HttpExtract, Fetching
<1>2. content \in seen' /\ seen \subseteq seen' /\ UNCHANGED <<blobs, held, page, asset>>
  BY <1>1, FetchSeen
<1>3. /\ X!Held' = X!Held /\ (X!IsLikelyPdf' <=> X!IsLikelyPdf) /\ (X!Unnamed' <=> X!Unnamed)
      /\ X!NoPdfRoute \in {"file", "http"}
  BY <1>2 DEF X!Held, X!IsUrl, X!Unnamed, X!Labelled, X!IsLikelyPdf, X!NoPdfRoute
<1>4. CASE step = "pdf" /\ content # Absent /\ X!LeftByPdf(content) /\ step' = X!NoPdfRoute
  <2>1. NoPdf(content)
    BY <1>4 DEF NoPdf, X!LeftByPdf, X!SaysPdf
  <2>2. ExtractTypes' /\ step' # "done" /\ step' # "upload"
    BY <1>2, <1>3, <1>4 DEF ExtractTypes
  <2>3. ExtractOK'
    BY <1>1, <1>2, <1>3, <1>4, <2>1, <2>2 DEF ExtractOK, Fetching
  <2> QED
    BY <2>2, <2>3 DEF OutcomeExplained, X!OutcomeExplained
<1>5. ASSUME NEW r, NEW b, X!End(r, b),
             \/ r = "error" /\ b = Absent /\ (content = Absent \/ X!BrokenPdf(content))
             \/ r = "ok" /\ content # Absent /\ b = Absent /\ content.format = "empty"
             \/ r = "ok" /\ content # Absent /\ b # Absent /\ content.format = b.of,
             \/ step \in {"file", "http"}
             \/ NoPdf(content)
             \/ b = X!PdfBlock("pdf")
      PROVE  ExtractTypes' /\ ExtractOK' /\ OutcomeExplained'
  <2>1. step' = "done" /\ outcome' = [result |-> r, block |-> b]
    BY <1>5 DEF X!End
  <2>2. ExtractTypes' /\ ExtractOK'
    BY <1>2, <1>3, <2>1 DEF ExtractTypes, ExtractOK, Fetching
  <2>3. outcome'.result = r /\ outcome'.block = b
    BY <2>1
  <2>4. ~(X!IsLikelyPdf /\ \A s \in seen' : ~NoPdf(s)) \/ b = X!PdfBlock("pdf")
    BY <1>2, <1>5 DEF ExtractOK
  <2>5. (X!IsLikelyPdf' /\ \A s \in seen' : X!SaysPdf(s) /\ s.format = "pdf") =>
          b = X!PdfBlock("pdf")
    BY <1>3, <2>4 DEF NoPdf
  <2>6. (r = "error" /\ \A s \in seen' : ~X!BrokenPdf(s)) => Absent \in seen'
    BY <1>2, <1>5
  <2>7. (r = "ok" /\ b = Absent) => \E s \in seen' : s # Absent /\ s.format = "empty"
    BY <1>2, <1>5
  <2>8. (r = "ok" /\ b # Absent) => \E s \in seen' : s # Absent /\ s.format = b.of
    BY <1>2, <1>5
  <2> QED
    BY <2>2, <2>3, <2>5, <2>6, <2>7, <2>8 DEF OutcomeExplained, X!OutcomeExplained
<1>6. /\ \A f \in {"pdf", "scan"} : X!PdfBlock(f) # Absent /\ X!PdfBlock(f).of = f
      /\ content # Absent => X!BlockOf(content) # Absent /\ X!BlockOf(content).of = content.format
  <2> DEFINE blocks == [modality : {"text", "image", "binary"},
                        text : {"converted", "as it is", Absent}, of : X!Formats]
  <2>1. \A f \in X!Formats : X!PdfBlock(f) \in blocks /\ X!PdfBlock(f).of = f
    BY DEF X!PdfBlock
  <2>2. ASSUME content # Absent
        PROVE  X!BlockOf(content) \in blocks /\ X!BlockOf(content).of = content.format
    <3>1. content.format \in X!Formats
      BY <2>2, SourceFormat
    <3>2. \A m, f : /\ X!ToText(m, f) \in {"converted", "as it is", Absent}
                    /\ X!ModalityForMime(m) \in {"text", "image", "binary"}
      BY DEF X!ToText, X!ModalityForMime
    <3> QED
      BY <3>1, <3>2 DEF X!BlockOf
  <2>3. {"pdf", "scan"} \subseteq X!Formats
    BY DEF X!Formats
  <2> QED
    BY <2>1, <2>2, <2>3, BlockAssumption
<1>7. CASE X!PdfExtract(content)
  <2>1. CASE content = Absent
    BY <1>5, <1>7, <2>1 DEF X!PdfExtract, NoPdf, X!SaysPdf
  <2>2. CASE content # Absent /\ X!LeftByPdf(content)
    BY <1>4, <1>7, <2>2 DEF X!PdfExtract
  <2>3. CASE content # Absent /\ ~X!LeftByPdf(content)
    <3>1. /\ X!SaysPdf(content)
          /\ content.format \notin {"pdf", "scan"} => X!BrokenPdf(content)
      BY <2>3 DEF X!SaysPdf, X!LeftByPdf, X!BrokenPdf
    <3>2. IF content.format \in {"pdf", "scan"}
            THEN X!End("ok", X!PdfBlock(content.format)) ELSE X!End("error", Absent)
      BY <1>7, <2>3 DEF X!PdfExtract
    <3>3. content.format # "pdf" => NoPdf(content)
      BY DEF NoPdf
    <3> QED
      BY <1>5, <1>6, <2>3, <3>1, <3>2, <3>3
  <2> QED
    BY <2>1, <2>2, <2>3
<1>8. CASE X!FileExtract(content)
  <2>1. CASE content = Absent
    <3>1. step = "file" /\ X!End("error", Absent)
      BY <1>8, <2>1 DEF X!FileExtract
    <3> QED
      BY <1>5, <2>1, <3>1
  <2>2. CASE content # Absent /\ content.format = "empty"
    BY <1>5, <1>8, <2>2 DEF X!FileExtract
  <2>3. CASE content # Absent /\ content.format # "empty"
    BY <1>5, <1>6, <1>8, <2>3 DEF X!FileExtract
  <2> QED
    BY <2>1, <2>2, <2>3
<1>9. CASE X!HttpExtract(content)
  BY <1>5, <1>6, <1>9 DEF X!HttpExtract
<1> QED
  BY <1>7, <1>8, <1>9

LEMMA StepExtract ==
  ASSUME ExtractTypes, ExtractOK, OutcomeExplained, [X!Next]_(X!vars)
  PROVE  ExtractTypes' /\ ExtractOK' /\ OutcomeExplained'
<1>1. CASE X!Choose
  <2>1. /\ step' \in {"pdf", "file", "http"} /\ (X!IsLikelyPdf => step' = "pdf")
        /\ seen' = {X!Held} /\ UNCHANGED <<blobs, held, page, asset>>
    BY <1>1 DEF X!Choose, X!NoPdfRoute
  <2>2. X!Held' = X!Held /\ (X!IsLikelyPdf' <=> X!IsLikelyPdf)
    BY <2>1 DEF X!Held, X!IsUrl, X!Unnamed, X!Labelled, X!IsLikelyPdf
  <2> QED
    BY <2>1, <2>2 DEF ExtractTypes, ExtractOK, Fetching, OutcomeExplained, X!OutcomeExplained
<1>2. CASE \E content \in {X!Source, Absent} :
             X!PdfExtract(content) \/ X!FileExtract(content) \/ X!HttpExtract(content)
  BY <1>2, ExtractorStep
<1>3. ASSUME NEW name, NEW content, X!Change(name, content) PROVE OutcomeExplained'
  BY <1>3 DEF X!Change, OutcomeExplained, X!OutcomeExplained
<1>4. ASSUME NEW key \in X!Keys, X!Delete(key) PROVE ExtractTypes' /\ ExtractOK' /\ OutcomeExplained'
  <2>1. X!Labelled(Absent) = Absent
    BY DEF X!Labelled
  <2> QED
    BY <1>3, <1>4, <2>1, PutStep DEF X!Delete
<1>5. ASSUME NEW key \in X!Keys, NEW format \in X!Formats, X!PutBytes(key, format)
      PROVE  ExtractTypes' /\ ExtractOK' /\ OutcomeExplained'
  BY <1>3, <1>5, PutStep DEF X!PutBytes
<1>6. ASSUME NEW format \in X!Formats, X!PutReader(format)
      PROVE  ExtractTypes' /\ ExtractOK' /\ OutcomeExplained'
  <2>1. /\ asset.key = BlobKey(asset.key.name) /\ asset.key.name \in BlobNames \cup Uploads
        /\ step' = "route" /\ UNCHANGED <<page, asset>>
        /\ blobs' = [blobs EXCEPT ![asset.key] = format]
        /\ held' = [held EXCEPT ![asset.key.name] = format]
    BY <1>6, AssetKeys DEF X!PutReader, ExtractOK
  <2>2. \A n \in BlobNames \cup Uploads : BlobKey(n) \in X!Keys /\ BlobKey(n).name = n
    BY Normalized
  <2>3. ExtractTypes'
    BY <2>1, <2>2 DEF ExtractTypes
  <2>4. ASSUME NEW n \in BlobNames \cup Uploads PROVE blobs'[BlobKey(n)] = held'[n]
    <3>1. BlobKey(n) = asset.key => n = asset.key.name
      BY <2>1, <2>2
    <3>2. blobs'[BlobKey(n)] = IF n = asset.key.name THEN format ELSE blobs[BlobKey(n)]
      BY <2>1, <2>2, <3>1 DEF ExtractTypes
    <3>3. held'[n] = IF n = asset.key.name THEN format ELSE held[n]
      BY <2>1 DEF ExtractTypes
    <3> QED
      BY <3>2, <3>3 DEF ExtractOK
  <2> QED
    BY <2>1, <2>3, <2>4 DEF ExtractOK, Fetching, OutcomeExplained, X!OutcomeExplained
<1>7. ASSUME NEW content \in X!Contents \cup {Absent}, X!IsUrl, X!PageChanges(asset.key.name, content)
      PROVE  ExtractTypes' /\ ExtractOK' /\ OutcomeExplained'
  <2>1. /\ page' = content /\ UNCHANGED <<blobs, held, asset, step, outcome>> /\ step # "upload"
        /\ seen' = seen \cup {content} /\ ~X!Unnamed
    BY <1>7 DEF X!PageChanges, X!Change, X!IsUrl
  <2>2. X!Held' = content /\ (X!IsLikelyPdf' <=> X!IsLikelyPdf)
    BY <1>7, <2>1 DEF X!Held, X!IsUrl, X!Unnamed, X!IsLikelyPdf
  <2>3. ExtractTypes'
    BY <2>1 DEF ExtractTypes
  <2>4. ExtractOK'
    BY <2>1, <2>2 DEF ExtractOK, Fetching
  <2> QED
    BY <1>3, <1>7, <2>3, <2>4 DEF X!PageChanges
<1>8. CASE UNCHANGED X!vars
  <2>1. UNCHANGED <<blobs, held, page, asset, step, outcome, seen>>
    BY <1>8 DEF X!vars
  <2>2. /\ X!Held' = X!Held /\ (X!IsLikelyPdf' <=> X!IsLikelyPdf) /\ (X!Unnamed' <=> X!Unnamed)
    BY <2>1 DEF X!Held, X!IsUrl, X!Unnamed, X!Labelled, X!IsLikelyPdf
  <2> QED
    BY <2>1, <2>2 DEF ExtractTypes, ExtractOK, Fetching, OutcomeExplained, X!OutcomeExplained
<1> QED
  BY <1>1, <1>2, <1>4, <1>5, <1>6, <1>7, <1>8 DEF X!Next

\* Whatever changes while an asset is extracted, what comes out is explained by what its
\* source held at some moment: the key the asset was stored under finds what was put
\* last, what the source holds has been seen, and the extractor that looks first leaves
\* to the others only what is no PDF.
THEOREM OutcomesExplained == StorageSpec => []OutcomeExplained
<1> DEFINE Inv == ExtractTypes /\ ExtractOK /\ OutcomeExplained
<1>1. StorageInit => Inv
  <2>1. X!Init => OutcomeExplained
    BY DEF X!Init, OutcomeExplained, X!OutcomeExplained
  <2> QED
    BY <2>1, InitExtract DEF StorageInit
<1>2. [StorageNext]_<<part, vars, tenantVars, pgVars, blobVars, vectorVars>> => [X!Next]_(X!vars)
  BY DEF StorageNext, blobVars, X!vars
<1>3. Inv /\ [X!Next]_(X!vars) => Inv'
  BY StepExtract
<1> QED
  BY <1>1, <1>2, <1>3, PTL DEF StorageSpec
=============================================================================
