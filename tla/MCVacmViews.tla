----------------------------- MODULE MCVacmViews -----------------------------
(* Entries for a subtree and two below it; what is asked lies above, beside *)
(* and below them.                                                          *)
EXTENDS VacmViews

TwoNames == 1..2
Entries  == {<<1>>, <<1, 1>>, <<1, 2>>}
Asked    == Entries \cup {<<2, 1>>, <<1, 2, 1>>}
=============================================================================
