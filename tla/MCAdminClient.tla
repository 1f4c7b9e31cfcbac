--------------------------- MODULE MCAdminClient ----------------------------
(* Small instances of AdminClient.                                          *)
EXTENDS AdminClient

CONSTANTS q1, q2
=============================================================================
