---------------------------- MODULE MCStudioJobs ----------------------------
(* StudioJobs on a small instance.                                          *)
EXTENDS StudioJobs
=============================================================================
