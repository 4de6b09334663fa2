--------------------------- MODULE MCJobLifecycle ---------------------------
(* Small instances of JobLifecycle for TLC: postings on two boards, or on a
   board and an aggregator. *)
EXTENDS JobLifecycle, TLC

CONSTANTS A, B, G, a1, b1, g1

TwoBoards      == [p \in {a1, b1} |-> IF p = a1 THEN A ELSE B]
TwoBoardsRank  == [p \in {a1, b1} |-> IF p = a1 THEN 3 ELSE 4]
BoardAndFeed   == [p \in {a1, g1} |-> IF p = a1 THEN A ELSE G]
BoardAndFeedRank == [p \in {a1, g1} |-> IF p = a1 THEN 3 ELSE 1]
AllAlike       == Posting \X Posting
=============================================================================
