------------------------------ MODULE MCLSClient ------------------------------
(***************************************************************************)
(* LSClient with levels on both sides of every boundary of the 16-bit      *)
(* field.                                                                  *)
(***************************************************************************)
EXTENDS LSClient

SomeLevels == {-65536, -1, 0, 3, 4, 65535, 65536, 65539}

=============================================================================
