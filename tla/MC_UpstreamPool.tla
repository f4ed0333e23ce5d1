-------------------------- MODULE MC_UpstreamPool --------------------------
(* Model-checking instance of UpstreamPool. *)
EXTENDS UpstreamPool

CONSTANTS a, b

SeedTwo == <<a, b>>
PollLists == {<< >>, <<b, a>>, <<b>>}
=============================================================================
