------------------------------ MODULE MCHeaders ------------------------------
(***************************************************************************)
(* Clocks that agree, and one ahead while the other is behind.             *)
(***************************************************************************)
EXTENDS Headers

Off(whole, late) == [whole |-> whole, late |-> late]

MCOffsets == {Off(0, 0), Off(1, -1), Off(-1, 1)}

\* Median is what the code's sort has in its middle.
ASSUME MedianOfSorted ==
  \A len \in 1..5 : \A times \in [1..len -> 0..3] :
    Median(times) = SortSeq(times, LAMBDA s, t : s < t)[len \div 2 + 1]
=============================================================================
