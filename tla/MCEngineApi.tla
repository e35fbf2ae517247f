---------------------------- MODULE MCEngineApi -----------------------------
(* An instance of EngineApi for TLC: a request of any operation, beside one *)
(* that shares the resolver with it.                                        *)
EXTENDS EngineApi

CONSTANTS r1, r2

Requests == {r1, r2}
AnyAndDiscover == [r \in Requests |-> IF r = r1 THEN Op ELSE {"discover"}]
=============================================================================
