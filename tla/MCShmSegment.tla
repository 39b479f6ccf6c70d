---------------------------- MODULE MCShmSegment ----------------------------
(* Two size classes: two small blocks or one large one.                    *)
EXTENDS ShmSegment, TLC

TwoThenOne == (1 :> 2) @@ (2 :> 1)

=============================================================================
