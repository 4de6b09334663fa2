---------------------------- MODULE MCBoardCrawl ----------------------------
(* Small instances of BoardCrawl for TLC: one career site and its rows. *)
EXTENDS BoardCrawl, TLC

CONSTANTS site, p1, p2, p3, n1

OneSite   == [p \in Posting |-> site]
SiteRank  == [p \in Posting |-> 4]
SameRow   == {}
RowSymmetry == Permutations(Posting \ Nameless)
=============================================================================
