------------------------- MODULE MCUploadIsolation -------------------------
(* UploadIsolation on small chunks; the .cfg files choose the site. *)
EXTENDS UploadIsolation
=============================================================================
