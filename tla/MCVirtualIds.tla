---------------------------- MODULE MCVirtualIds ----------------------------
(* Instances of VirtualIds.                                                *)
EXTENDS VirtualIds

TwoKinds == {"comm", "request"}
(* Slot 1 has a handle that equals a predefined constant.                  *)
OneConstant == {<<"comm", 1, 1>>}
NoConstants == {}
=============================================================================
