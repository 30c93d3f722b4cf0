-------------------------- MODULE MCDownloadPipeline --------------------------
(* A finite instance of DownloadPipeline for TLC. *)
EXTENDS DownloadPipeline
=============================================================================
