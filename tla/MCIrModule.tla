----------------------------- MODULE MCIrModule -----------------------------
(***************************************************************************)
(* Two signatures are enough to tell a matching one from another.          *)
(***************************************************************************)
EXTENDS IrModule

MCSignatures == {"none", "u64"}
=============================================================================
