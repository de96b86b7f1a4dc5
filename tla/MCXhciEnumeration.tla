------------------------- MODULE MCXhciEnumeration -------------------------
(* Model-checking instance of XhciEnumeration: two root ports, so that one *)
(* device is queued behind the other on addressing_port, a keyboard and a  *)
(* device with no class driver, and a short event ring.                    *)
EXTENDS XhciEnumeration

MCKinds == {"Keyboard", "Other"}
=============================================================================
