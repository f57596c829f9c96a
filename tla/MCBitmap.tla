------------------------------ MODULE MCBitmap ------------------------------
(* Model-checking instances of Bitmap. *)
EXTENDS Bitmap
=============================================================================
