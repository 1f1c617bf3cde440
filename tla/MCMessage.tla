------------------------------ MODULE MCMessage ------------------------------
(* Words of two bits, subframes of three words, a week of two frames of two.  *)
EXTENDS Message

\* Of the two that pass for TLM and HOW one ends inside a word, one with a word.
MCLookalikes == {<<3, 1, 2>>, <<0, 1, 4>>}
MCStarts == {<<7, 0>>}
=============================================================================
