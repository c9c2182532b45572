--------------------------- MODULE MCRegiloVisual ---------------------------
(* The run of RegiloVisual; its constants are in the configuration.        *)
EXTENDS RegiloVisual
=============================================================================
