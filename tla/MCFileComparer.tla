--------------------------- MODULE MCFileComparer ----------------------------
(* FileComparer for model checking: bytes are model values. *)
EXTENDS FileComparer, TLC
=============================================================================
