----------------------------- MODULE CyclicPort -----------------------------
(***************************************************************************)
(* cyclic_uint32_t: a counter that stays in a range and goes round in it.  *)
(* No operation of it leaves the range, so its width does not matter.      *)
(***************************************************************************)
EXTENDS Naturals

\* The constructor takes the ends of the range in any order.
Cyclic(start, end, value) ==
  LET first == IF start < end THEN start ELSE end
      last == IF start < end THEN end ELSE start
  IN  [start |-> first, end |-> last,
       data |-> IF value >= first /\ value <= last THEN value ELSE first]

IsNoncyclic(c) == c.start = c.end

\* Mutant: the last value of the range is skipped over.
NextBeyond(c) == [c EXCEPT !.data = IF c.data <= c.end THEN c.data + 1 ELSE c.start]

GotoNext(c) == [c EXCEPT !.data = IF c.data < c.end THEN c.data + 1 ELSE c.start]

GotoPrev(c) == [c EXCEPT !.data = IF c.data > c.start THEN c.data - 1 ELSE c.end]
=============================================================================
