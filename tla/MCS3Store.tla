---------------------------- MODULE MCS3Store ----------------------------
(***************************************************************************)
(* Small instances of S3Store: an empty body and one or two others.         *)
(***************************************************************************)
EXTENDS S3Store

CONSTANTS nil, x, y

MCBodies == {nil, x, y}
MCHash == [b \in MCBodies |-> IF b = nil THEN 1 ELSE IF b = x THEN 2 ELSE 3]
=============================================================================
