--------------------------- MODULE MCProcessImage ---------------------------
(* Two contents, so that a length can be paired with the wrong bytes, and one buffer
   for every pointer of the image and of the initial values. *)
EXTENDS ProcessImage
=============================================================================
