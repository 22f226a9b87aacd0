------------------------- MODULE MCIncidentNotices -------------------------
(* Small instances of IncidentNotices for TLC.                             *)
EXTENDS IncidentNotices

=============================================================================
