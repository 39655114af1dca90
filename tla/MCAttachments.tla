----------------------------- MODULE MCAttachments -----------------------------
(* A small instance of Attachments: two items and three requests.  It checks *)
(* a liveness property too, so no symmetry is declared.                      *)
EXTENDS Attachments

=============================================================================
