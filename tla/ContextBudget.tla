---------------------------- MODULE ContextBudget ----------------------------
(***************************************************************************)
(* app/context/budgeter.py: the token estimate, the packing of a ranked    *)
(* list into a budget and the placement at head and tail.  Contents are    *)
(* their stripped lengths.  A loop is a function of how many items it has  *)
(* seen; its value is what the loop's variables hold then.                 *)
(***************************************************************************)
EXTENDS Naturals, Sequences, SequencesExt

(* About four characters to a token; blank text is free. *)
EstimateTokens(length) == IF length = 0 THEN 0 ELSE (length + 3) \div 4

TotalTokenCount(items, lengths) ==
  LET sum[n \in 0..Len(items)] == IF n = 0 THEN 0 ELSE sum[n - 1] + EstimateTokens(lengths[items[n]])
  IN  sum[Len(items)]

(* Mutant: an item that does not fit is skipped, and smaller ones go in. *)
PackWithGaps(items, lengths, budget) ==
  LET loop[n \in 0..Len(items)] ==
        IF n = 0 THEN <<>>
        ELSE LET more == Append(loop[n - 1], items[n])
             IN  IF TotalTokenCount(more, lengths) <= budget THEN more ELSE loop[n - 1]
  IN  loop[Len(items)]

(* pack_into_budget: the loop breaks at the first item that does not fit. *)
PackIntoBudget(items, lengths, budget) ==
  LET loop[n \in 0..Len(items)] ==
        IF n = 0 THEN [packed |-> <<>>, used |-> 0, open |-> TRUE]
        ELSE LET before == loop[n - 1]
                 used == before.used + EstimateTokens(lengths[items[n]])
             IN  IF before.open /\ used <= budget
                 THEN [packed |-> Append(before.packed, items[n]), used |-> used, open |-> TRUE]
                 ELSE [before EXCEPT !.open = FALSE]
  IN  loop[Len(items)].packed

(* Mutant: the tail fills from the left. *)
PlaceTailForward(items) ==
  LET n == Len(items)
      half == (n + 1) \div 2
  IN  [p \in 1..n |-> IF p <= half THEN items[2 * p - 1] ELSE items[2 * (p - half)]]

(* place_head_tail: items alternate between the next place from the left   *)
(* and the next place from the right.                                      *)
PlaceHeadTail(items) ==
  LET loop[n \in 0..Len(items)] ==
        IF n = 0 THEN [placed |-> items, left |-> 1, right |-> Len(items)]
        ELSE IF n % 2 = 1
        THEN [loop[n - 1] EXCEPT !.placed[loop[n - 1].left] = items[n], !.left = @ + 1]
        ELSE [loop[n - 1] EXCEPT !.placed[loop[n - 1].right] = items[n], !.right = @ - 1]
  IN  loop[Len(items)].placed
=============================================================================
