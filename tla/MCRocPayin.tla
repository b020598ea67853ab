----------------------------- MODULE MCRocPayin -----------------------------
(* RocPayin on small instances, and the arithmetic it rests on (RocMoney),    *)
(* over every small amount of cents.                                          *)
EXTENDS RocPayin, TLC

CONSTANTS p1, p2, e1, h1, h2

OneEntry == [p \in Payments |-> e1]
\* Enough ids for every line, payment and request to refer to its own.
GroupIds == 1 .. (4 * Cardinality(Payments) + Cardinality(Handlers))
DesignSplit == DefaultSplit
\* The first payment goes to Stripe, any other is a mock one.
FirstLive == [p \in Payments |-> p = p1]
Symmetric == Permutations(Handlers)

-----------------------------------------------------------------------------
SmallCents == 0 .. 120
OddSplits == {DefaultSplit, [pf |-> 3333, op |-> 3333, pl |-> 3334],
              [pf |-> 0, op |-> 5001, pl |-> 4999], [pf |-> 5000, op |-> 3000, pl |-> 1000]}
Percents == {DefaultPlaces, <<10000>>, <<3333, 3333>>, <<1, 9999>>, <<9000, 5000>>}
Fixed == {<<50, 30, 20>>, <<7>>, <<33, 33, 33, 1>>}
=============================================================================
