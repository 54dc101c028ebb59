------------------------ MODULE InMemoryReplayCache -------------------------
(***************************************************************************)
(* InMemoryReplayCache as written: a Map from key to expiry, and beside it *)
(* ExpiryMinHeap, a binary heap in an array, that orders the entries by    *)
(* expiry.  Nothing in the code ties the two together but the order of the *)
(* statements: the properties are that they never come apart.              *)
(***************************************************************************)
EXTENDS ReplayWindow, Sequences

CONSTANTS Expiries, Instants

ASSUME HeapAssumption == Expiries \subseteq Nat /\ Instants \subseteq Nat

VARIABLES entries,   \* the Map, as a function with NoEntry for absent keys
          items,     \* the heap's array, index 1 is items[0]
          reply      \* what the last consume() returned

heapVars == <<entries, items, reply>>

NonFinite == -2   \* NaN or infinite timestampMs + ttlMs

HeapAnswer(k, a) == [key |-> k, answer |-> a]

Items == [key : Keys, expiresAt : Expiries]

(* A loop: at most n rounds of a step, which changes nothing once the loop *)
(* has come to its break.                                                  *)
Rounds(step, x, n) ==
  LET after[m \in 0 .. n] == IF m = 0 THEN x ELSE step[after[m - 1]]
  IN  after[n]

-----------------------------------------------------------------------------
(* ExpiryMinHeap *)

Swap(s, i, j) == [s EXCEPT ![i] = s[j], ![j] = s[i]]

(* An array and the item of it that bubbles. *)
Bubbles == [heap : Seq(Items), at : Nat]

Rise == [b \in Bubbles |->
  LET parent == b.at \div 2
  IN  IF b.at = 1 \/ b.heap[parent].expiresAt <= b.heap[b.at].expiresAt
      THEN b
      ELSE [heap |-> Swap(b.heap, b.at, parent), at |-> parent]]

BubbleUp(s, i) == Rounds(Rise, [heap |-> s, at |-> i], Len(s)).heap

(* The child bubbleDown exchanges with: the right one only when it is      *)
(* smaller than the smaller of the two others; i itself when neither is.   *)
Smaller(s, a, b) ==
  IF b <= Len(s) /\ s[b].expiresAt < s[a].expiresAt THEN b ELSE a
Smallest(s, i) == Smaller(s, Smaller(s, i, 2 * i), 2 * i + 1)

Sink == [b \in Bubbles |->
  LET smallest == Smallest(b.heap, b.at)
  IN  IF smallest = b.at THEN b
      ELSE [heap |-> Swap(b.heap, b.at, smallest), at |-> smallest]]

BubbleDown(s, i) == Rounds(Sink, [heap |-> s, at |-> i], Len(s)).heap

Push(s, item) == BubbleUp(Append(s, item), Len(s) + 1)

(* pop(): the array without its first item; the last one takes its place   *)
(* and sinks.                                                              *)
LastFirst(s) == [SubSeq(s, 1, Len(s) - 1) EXCEPT ![1] = s[Len(s)]]
Pop(s) == IF Len(s) <= 1 THEN << >> ELSE BubbleDown(LastFirst(s), 1)

-----------------------------------------------------------------------------
(* InMemoryReplayCache.  A state of the cache is a pair [map, heap].       *)
Caches == [map : Windows, heap : Seq(Items)]

Matches(c, item) == c.map[item.key] = item.expiresAt

WithoutKey(c, k) == [c.map EXCEPT ![k] = NoEntry]

(* Fault: prune() stops at a key that expires at this very instant. *)
PruneHeapBefore(c, now) ==
  LET Forget == [d \in Caches |->
        IF d.heap = << >> \/ d.heap[1].expiresAt >= now THEN d
        ELSE [map |-> WithoutKey(d, d.heap[1].key), heap |-> Pop(d.heap)]]
  IN  Rounds(Forget, c, Len(c.heap))

(* prune(): the first items are popped while they are over, and their keys *)
(* deleted.                                                                *)
PruneFirst(now) == [c \in Caches |->
  IF c.heap = << >> \/ c.heap[1].expiresAt > now THEN c
  ELSE [map  |-> IF Matches(c, c.heap[1]) THEN WithoutKey(c, c.heap[1].key)
                 ELSE c.map,
        heap |-> Pop(c.heap)]]

PruneHeap(c, now) == Rounds(PruneFirst(now), c, Len(c.heap))

(* Fault: the Map's first key is evicted, the heap is left alone. *)
EvictFirstKey(c) == {[c EXCEPT !.map = WithoutKey(c, k)] : k \in Held(c.map)}

(* evictOne() passes over items whose key is not in the Map as they say. *)
PassOver == [c \in Caches |->
  IF c.heap = << >> \/ Matches(c, c.heap[1]) THEN c
  ELSE [c EXCEPT !.heap = Pop(c.heap)]]

(* evictOne(): the states it may leave.  The fallback drops the Map's      *)
(* first key without the heap; insertion order is not kept here, so any    *)
(* key may be the first one.                                               *)
EvictOne(c) ==
  LET d == Rounds(PassOver, c, Len(c.heap))
  IN  IF d.heap = << >>
      THEN {[d EXCEPT !.map = WithoutKey(d, k)] : k \in Held(d.map)}
      ELSE {[map |-> WithoutKey(d, d.heap[1].key), heap |-> Pop(d.heap)]}

Room(c) ==
  IF Cardinality(Held(c.map)) >= MaxEntries THEN EvictOne(c) ELSE {c}

Becomes(c, answer) == entries' = c.map /\ items' = c.heap /\ reply' = answer

Cache == [map |-> entries, heap |-> items]

HeapInit ==
  /\ entries = Empty
  /\ items = << >>
  /\ reply = HeapAnswer(NoEntry, "none")

(* consume(envelope, nowMs); an envelope whose times are not finite has    *)
(* the expiry NonFinite.                                                   *)
HeapConsume(k, expiresAt, now) ==
  LET c == PruneHeap(Cache, now)
      item == [key |-> k, expiresAt |-> expiresAt]
  IN  IF c.map[k] # NoEntry /\ c.map[k] > now THEN Becomes(c, HeapAnswer(k, "replay"))
      ELSE IF expiresAt = NonFinite THEN Becomes(c, HeapAnswer(k, "untrackable"))
      ELSE \E d \in Room(c) :
             Becomes([map  |-> [d.map EXCEPT ![k] = expiresAt],
                      heap |-> Push(d.heap, item)], HeapAnswer(k, "ok"))

(* prune(nowMs), which callers may also call themselves *)
PruneCall(now) == Becomes(PruneHeap(Cache, now), reply)

HeapNext ==
  \E now \in Instants :
    \/ PruneCall(now)
    \/ \E k \in Keys, x \in Expiries \cup {NonFinite} : HeapConsume(k, x, now)

HeapSpec == HeapInit /\ [][HeapNext]_heapVars

-----------------------------------------------------------------------------
HeapTypeOK ==
  /\ entries \in Windows
  /\ items \in Seq(Items)

(* The heap holds exactly one item for each key of the Map, with the Map's *)
(* expiry: so prune and evictOne always find what they look for, and       *)
(* evictOne's fallback never runs.                                         *)
HeapMatchesEntries ==
  /\ Len(items) = Cardinality(Held(entries))
  /\ \A k \in Held(entries) :
       \E i \in 1 .. Len(items) : items[i] = [key |-> k, expiresAt |-> entries[k]]

(* The array is a heap after every push and pop, whatever order the        *)
(* expiries come in: peek() is the earliest expiry, on which prune's       *)
(* stopping early relies.                                                  *)
HeapOrdered ==
  \A i \in 2 .. Len(items) : items[i \div 2].expiresAt <= items[i].expiresAt

(* The cache keeps to its capacity. *)
WithinCapacity == Cardinality(Held(entries)) <= MaxEntries

Abstract == INSTANCE ReplayCache WITH held <- entries

(* Map and heap together implement the abstract cache: a key is refused    *)
(* exactly while it is held, and an eviction takes the key that would have *)
(* been forgotten first.                                                   *)
ImplementsReplayCache == Abstract!Spec
=============================================================================
