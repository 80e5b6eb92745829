----------------------------- MODULE MCHttpOta -----------------------------
(* Downloads of an image with a header of two infos and a host firmware. *)
EXTENDS HttpOta
=============================================================================
