---------------------------- MODULE MCPagedAnswers ----------------------------
(***************************************************************************)
(* PagedAnswers for TLC: one blob and one file are too large for a page.   *)
(***************************************************************************)
EXTENDS PagedAnswers

CONSTANTS a, b, big

MCOversize == {big, 4}
==============================================================================
