--------------------------- MODULE MCDataTransfer ---------------------------
(***************************************************************************)
(* Instances of DataTransfer for TLC: an object whose payload takes two    *)
(* buffers and an object without payload.                                  *)
(***************************************************************************)
EXTENDS DataTransfer, TLC

CONSTANTS o1, o2

MCObjects == {o1, o2}
MCDataLen == o1 :> 3 @@ o2 :> 0
=============================================================================
