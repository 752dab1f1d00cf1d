--------------------------- MODULE MCSmallSearch ---------------------------
(* SmallSearch with one class and three slots.                             *)
EXTENDS SmallSearch, TLC

CONSTANT c1

ASSUME SmallSearchAssumption

MCClasses == {c1}
MCBlockSize == c1 :> 1

(* The system grants everything, or refuses: a segment, one that needs the *)
(* pool drained first, the commit as well, a class code, the directory.    *)
All == Answers \ {"age"}
MCFates == {All, (All \ {"reserve", "directory"}) \cup {"age"},
            All \ {"reserve", "retry", "commit", "codes"}, All \ {"code", "directory"}}
=============================================================================
