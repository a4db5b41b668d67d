--------------------------- MODULE MCSelectServer ---------------------------
(* Up to three connections over three descriptors and two lines on stdin.  *)
EXTENDS SelectServer
============================================================================
