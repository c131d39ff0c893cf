--------------------------- MODULE MCDocumentView ---------------------------
(* A TLC instance of DocumentView: two Python threads and two handles, so  *)
(* five documents; nobody holds more than one request on the wire.         *)
EXTENDS DocumentView
=============================================================================
