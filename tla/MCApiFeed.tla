----------------------------- MODULE MCApiFeed -----------------------------
(***************************************************************************)
(* One page and two requests at a time: the page's, the one it abandoned,  *)
(* or a visitor's.  Two commits about the open token make three versions;  *)
(* one failure.  The values of the constants are in the .cfg files.        *)
(***************************************************************************)
EXTENDS ApiFeed
=============================================================================
