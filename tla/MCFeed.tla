------------------------------- MODULE MCFeed -------------------------------
(* Two legs; a sample is good, not positive, or of a wide interval, and new, *)
(* stale or ahead of the clock.                                              *)
EXTENDS Feed

MCOffers == {<<2, 0>>, <<2, 1>>, <<0, 0>>}
MCAges == -1..1
=============================================================================
