----------------------------- MODULE SorteDeque -----------------------------
(***************************************************************************)
(* SorteDeque: a deque kept in order by bisection.  before[<<x, y>>] says  *)
(* that the item x is less than the item y.                                *)
(***************************************************************************)
EXTENDS Integers, Sequences, SequencesExt

\* bisect.bisect_left: the number of items left of the place where it stops, less[x]
\* saying that the item x of the deque is less than the one looked for.
BisectLeft(s, less) ==
  LET f[r \in (0..Len(s)) \X (0..Len(s))] ==    \* r: <<lo, hi>>
        LET mid == (r[1] + r[2]) \div 2
        IN  IF r[1] >= r[2] THEN r[1]
            ELSE IF less[s[mid + 1]] THEN f[<<mid + 1, r[2]>>] ELSE f[<<r[1], mid>>]
  IN  f[<<0, Len(s)>>]

Less(s, item, before) == [x \in ToSet(s) |-> before[<<x, item>>]]

Insort(s, item, before) == InsertAt(s, BisectLeft(s, Less(s, item, before)) + 1, item)

\* The bisection may meet the item itself.
Resort(s, item, before) ==
  LET i == BisectLeft(s, Less(s, item, before)) + 1
  IN  IF item \in ToSet(s) /\ i <= Len(s) /\ s[i] = item THEN s
      ELSE Insort(RemoveFirst(s, item), item, before)

\* Those of the items that are in keep, put into an empty deque one after the other.
InsortSome(items, keep, before) ==
  FoldLeft(LAMBDA s, item : IF item \in keep THEN Insort(s, item, before) ELSE s, <<>>, items)

InsortAll(items, before) == InsortSome(items, ToSet(items), before)
=============================================================================
