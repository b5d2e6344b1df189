---------------------------- MODULE MCRatingCommit ----------------------------
(* Small instances of RatingCommit for TLC.  Commands are numbers, which   *)
(* the scheduler takes in order.                                           *)
EXTENDS RatingCommit, TLC
=============================================================================
