---------------------------- MODULE MCJsonBuilder ----------------------------
(* Values for JsonBuilder: a null, a scalar and an object with a member;   *)
(* keys that descend up to three levels, with and without empty parts.     *)
EXTENDS JsonBuilder

CONSTANTS a, x

MCPart == {a, Empty}
MCInput ==
  {<<Empty>>, <<a>>, <<a, Empty>>, <<Empty, a>>, <<a, a>>, <<a, Empty, a>>, <<a, a, a>>}
MCValue == {Null, (<<>> :> x), (<<>> :> "object" @@ <<a>> :> x)}
=============================================================================
