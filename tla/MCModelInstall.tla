--------------------------- MODULE MCModelInstall --------------------------
(***************************************************************************)
(* A few calls for ModelInstall, and a device with no model, a shorter or  *)
(* a longer one.                                                           *)
(***************************************************************************)
EXTENDS ModelInstall

MCOldLengths == {1, 4}

=============================================================================
