--------------------------- MODULE MCRecordStore ---------------------------
(***************************************************************************)
(* Small instances of RecordStore for TLC: an empty body, an inline body    *)
(* and a blob reference; hashes in that order.  Sessions that are editors    *)
(* and removers both are interchangeable.                                  *)
(***************************************************************************)
EXTENDS RecordStore, TLC

CONSTANTS nil, text, ref

MCBodies == {nil, text, ref}
MCHash == [b \in MCBodies |-> IF b = nil THEN 1 ELSE IF b = text THEN 2 ELSE 3]
SessionSymmetry == Permutations(Editors)
=============================================================================
