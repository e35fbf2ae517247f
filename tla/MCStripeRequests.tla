-------------------------- MODULE MCStripeRequests --------------------------
(* Instances of StripeRequests for TLC: list pages that compete for tokens,  *)
(* a GET and a POST that need none.                                          *)
EXTENDS StripeRequests, TLC

CONSTANTS l1, l2, l3, get, post

Kinds == [c \in {l1, l2, l3, get, post} |->
             IF c = get THEN "get" ELSE IF c = post THEN "post" ELSE "list"]
Lists == Permutations({l1, l2, l3})
=============================================================================
