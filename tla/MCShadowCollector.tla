------------------------- MODULE MCShadowCollector -------------------------
(* ShadowCollector with two deployments for TLC. *)
EXTENDS ShadowCollector

CONSTANTS i1, i2, m1

TwoInstances == {i1, i2}
OldInstance  == {i1}
OneMarket    == {m1}
=============================================================================
