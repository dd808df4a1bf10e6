---------------------------- MODULE MCPSResources ----------------------------
(***************************************************************************)
(* PSResources for TLC.  Tables of one slot that grow by one, so that      *)
(* every table grows; two addresses, so that a freed one is used again     *)
(* while another font lives.                                               *)
(***************************************************************************)
EXTENDS PSResources

TwoAddresses == {1, 2}
=============================================================================
