------------------------------- MODULE ZHash -------------------------------
(***************************************************************************)
(* The hash table of src/src/common/zhash.c: chained buckets that grow by  *)
(* themselves, a table that is rebuilt with twice as many buckets when it  *)
(* is full, and an iterator through which entries may be removed.          *)
(* Allocation sizes are kept; a key is a model value with a given hash.    *)
(***************************************************************************)
EXTENDS Integers, Sequences, FiniteSets, SequencesExt

CONSTANTS
  Keys, Values, None,
  Hash,          \* the hash function, [Keys -> Nat]
  InitialBuckets, InitialCapacity, RehashRatio,
  MaxBuckets     \* bound: the table is not rebuilt beyond this size

VARIABLES
  buckets,       \* zh->buckets: entries and the allocation of each
  size,          \* zh->size
  iter,          \* the caller's iterator: bucket and idx, or None
  returned,      \* the key the iterator returned last and may remove, or None
  map,           \* history: what the caller has put and not removed
  remaining      \* history: the keys the iterator has yet to return

vars == <<buckets, size, iter, returned, map, remaining>>

Bucket(entries, alloc) == [entries |-> entries, alloc |-> alloc]

Empty(n) == [i \in 1 .. n |-> Bucket(<<>>, 0)]

IndexOf(k, bs) == (Hash[k] % Len(bs)) + 1

\* The place of a key in its bucket, 0 if it is not there.
Place(k, bs) ==
  LET es == bs[IndexOf(k, bs)].entries
  IN SelectInSeq(es, LAMBDA e : e.key = k)

Lookup(k) ==
  LET p == Place(k, buckets)
  IN IF p = 0 THEN None ELSE buckets[IndexOf(k, buckets)].entries[p].value

\* Mutant of Enlarged: the first allocation is forgotten.
Enlarged_Doubled(b) == IF Len(b.entries) < b.alloc THEN b.alloc ELSE b.alloc * 2
Enlarged(b) ==
  IF Len(b.entries) < b.alloc THEN b.alloc
  ELSE IF b.alloc = 0 THEN InitialCapacity ELSE b.alloc * 2

\* zhash_put_real
PutReal(bs, e) ==
  LET i == IndexOf(e.key, bs)
      p == Place(e.key, bs)
  IN IF p # 0 THEN [bs EXCEPT ![i].entries[p] = e]
     ELSE [bs EXCEPT ![i] = Bucket(Append(@.entries, e), Enlarged(@))]

AllEntries(bs) == FlattenSeq([i \in 1 .. Len(bs) |-> bs[i].entries])

\* Mutant of Rebuilt: the old buckets are kept where they are.
Rebuilt_Extended(bs, n) == IF Len(bs) * RehashRatio < n THEN bs \o Empty(Len(bs)) ELSE bs
\* The buckets bs of a table of n entries as zhash_put finds them after it made room.
Rebuilt(bs, n) ==
  IF Len(bs) * RehashRatio < n
  THEN FoldLeft(PutReal, Empty(2 * Len(bs)), AllEntries(bs))
  ELSE bs

\* The last entry of the bucket takes the place of the one removed.
Shuffled(es, p) == [i \in 1 .. Len(es) - 1 |-> IF i = p THEN es[Len(es)] ELSE es[i]]

RemoveKey(k) ==
  LET i == IndexOf(k, buckets)
      p == Place(k, buckets)
  IN IF p = 0
     THEN UNCHANGED <<buckets, size>>
     ELSE /\ buckets' = [buckets EXCEPT ![i].entries = Shuffled(@, p)]
          /\ size' = size - 1

\* Whatever changes the table invalidates the caller's iterator.
NoIterator == iter' = None /\ returned' = None /\ remaining' = {}

Put(k, v) ==
  LET bs  == Rebuilt(buckets, size)
      had == Place(k, bs) # 0
  IN /\ Len(bs) <= MaxBuckets
     /\ buckets' = PutReal(bs, [key |-> k, value |-> v])
     /\ size' = IF had THEN size ELSE size + 1
     /\ map' = [map EXCEPT ![k] = v]
     /\ NoIterator

RemoveEntry(k) ==
  /\ RemoveKey(k)
  /\ map' = [map EXCEPT ![k] = None]
  /\ NoIterator

\* zhash_copy puts every entry in a table of the initial size, which the caller
\* goes on with.
Copy ==
  LET es == AllEntries(buckets)
  IN /\ buckets' = FoldLeft(LAMBDA bs, n : PutReal(Rebuilt(bs, n - 1), es[n]),
                            Empty(InitialBuckets), [n \in 1 .. Len(es) |-> n])
     /\ size' = Len(es)
     /\ NoIterator
     /\ UNCHANGED map

IteratorInit ==
  /\ iter' = [bucket |-> 1, idx |-> 0]
  /\ remaining' = {k \in Keys : map[k] # None}
  /\ returned' = None
  /\ UNCHANGED <<buckets, size, map>>

\* The first bucket from the iterator's on that has an entry left for it.
Ahead ==
  {b \in iter.bucket .. Len(buckets) :
     Len(buckets[b].entries) > (IF b = iter.bucket THEN iter.idx ELSE 0)}

IteratorNext ==
  /\ iter # None
  /\ Ahead # {}
  /\ LET b == CHOOSE b \in Ahead : \A c \in Ahead : b <= c
         i == IF b = iter.bucket THEN iter.idx + 1 ELSE 1
     IN /\ iter' = [bucket |-> b, idx |-> i]
        /\ returned' = buckets[b].entries[i].key
        /\ remaining' = remaining \ {buckets[b].entries[i].key}
  /\ UNCHANGED <<buckets, size, map>>

IteratorEnd ==
  /\ iter # None
  /\ Ahead = {}
  /\ iter' = None
  /\ returned' = None
  /\ UNCHANGED <<buckets, size, map, remaining>>

\* Mutant of StepBack: the entry that took the place is passed over.
StepBack_Not == iter
StepBack == [iter EXCEPT !.idx = @ - 1]

IteratorRemove ==
  /\ returned # None
  /\ RemoveKey(returned)
  /\ map' = [map EXCEPT ![returned] = None]
  /\ iter' = StepBack
  /\ returned' = None
  /\ UNCHANGED remaining

Init ==
  /\ buckets = Empty(InitialBuckets)
  /\ size = 0
  /\ iter = None
  /\ returned = None
  /\ map = [k \in Keys |-> None]
  /\ remaining = {}

Next ==
  \/ \E k \in Keys : RemoveEntry(k) \/ \E v \in Values : Put(k, v)
  \/ Copy
  \/ IteratorInit
  \/ IteratorNext
  \/ IteratorEnd
  \/ IteratorRemove

-----------------------------------------------------------------------------
\* Through growth, replacement and removal with its shuffle, by key or through the
\* iterator, the table holds exactly what the caller put there and did not remove,
\* counts it right and stays within what it allocated.
TableIsMap ==
  /\ \A k \in Keys : Lookup(k) = map[k]
  /\ size = Cardinality({k \in Keys : map[k] # None})
  /\ Len(AllEntries(buckets)) = size
  /\ \A i \in 1 .. Len(buckets) : Len(buckets[i].entries) <= buckets[i].alloc

\* However the caller mixes next with removals through the iterator, each entry comes
\* once, and the iteration does not end before the last has come.
IterationIsComplete ==
  [][ /\ iter' = None => remaining' = {}
      /\ iter' # iter /\ returned' # None => returned' \in remaining ]_vars
=============================================================================
