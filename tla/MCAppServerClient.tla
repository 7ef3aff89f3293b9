--------------------------- MODULE MCAppServerClient ---------------------------
(* Instances of AppServerClient for TLC; the values are in the .cfg files.    *)
EXTENDS AppServerClient
=============================================================================
