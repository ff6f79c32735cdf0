--------------------------- MODULE MCConfigPublish ---------------------------
(* Small instances of ConfigPublish: e1 and e2 send whole configurations,  *)
(* e3 changes one resource.                                                *)
EXTENDS ConfigPublish

CONSTANTS e1, e2, e3

MCReplaces == {e1, e2} \cap Edits
=============================================================================
