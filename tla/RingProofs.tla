----------------------------- MODULE RingProofs -----------------------------
(***************************************************************************)
(* Lemmas about the index arithmetic of Ring, for every queue size.        *)
(***************************************************************************)
EXTENDS Ring, TLAPS

\* An index register that is incremented and written back stays an index.
LEMMA WrapInIndex ==
  ASSUME NEW h \in Index, NEW i \in Index
  PROVE  /\ Wrap(h + i) \in Index
         /\ Wrap(h + 1) \in Index
  BY EntriesAssumption DEF Wrap, Index

\* The distance of two indices is itself smaller than the queue.
LEMMA DistInIndex ==
  ASSUME NEW h \in Index, NEW t \in Index
  PROVE  /\ Dist(h, t) \in Index
         /\ Dist(h, t) = 0 <=> h = t
  BY EntriesAssumption DEF Dist, Index

\* Moving the tail of a queue that is not full adds one slot at its end.
LEMMA DistTail ==
  ASSUME NEW h \in Index, NEW t \in Index, Dist(h, t) < Entries - 1
  PROVE  Dist(h, Wrap(t + 1)) = Dist(h, t) + 1
  BY EntriesAssumption DEF Dist, Wrap, Index

\* Moving the head of a queue that is not empty removes its first slot.
LEMMA DistHead ==
  ASSUME NEW h \in Index, NEW t \in Index, h # t
  PROVE  Dist(Wrap(h + 1), t) = Dist(h, t) - 1
  BY EntriesAssumption DEF Dist, Wrap, Index

\* The slots counted from the next head are the same slots, one further on.
LEMMA WrapShift ==
  ASSUME NEW h \in Index, NEW i \in Index, i + 1 \in Index
  PROVE  Wrap(Wrap(h + 1) + i) = Wrap(h + (i + 1))
  BY EntriesAssumption DEF Wrap, Index

\* The tail is the first slot after the occupied ones and none of them.
LEMMA TailIsFree ==
  ASSUME NEW h \in Index, NEW t \in Index
  PROVE  /\ Wrap(h + Dist(h, t)) = t
         /\ \A i \in Index : i < Dist(h, t) => Wrap(h + i) # t
  BY EntriesAssumption DEF Wrap, Dist, Index

=============================================================================
