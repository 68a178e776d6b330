--------------------------- MODULE MCPodController ---------------------------
(* One node with a CIDR of its own; until it is in the cache, its pods     *)
(* would get addresses of the default CIDR.                                *)
EXTENDS PodController
=============================================================================
