----------------------------- MODULE MCSaveRounds -----------------------------
(* Three saves: month by month, with a month left out, and after a rollback.*)
EXTENDS SaveRounds

Played     == {<<1, 2, 3>>, <<1, 1, 3>>, <<2, 3, 1>>}
===============================================================================
