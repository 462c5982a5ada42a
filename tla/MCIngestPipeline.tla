------------------------- MODULE MCIngestPipeline -------------------------
(***************************************************************************)
(* The instance of IngestPipeline for TLC: a video and an image from a URL *)
(* that are to be published, and an image from Telegram that is to be      *)
(* saved.                                                                  *)
(***************************************************************************)
EXTENDS IngestPipeline

MCSubmitted ==
    {[from_url |-> TRUE, video |-> TRUE, publishing |-> TRUE],
     [from_url |-> TRUE, video |-> FALSE, publishing |-> TRUE],
     [from_url |-> FALSE, video |-> FALSE, publishing |-> FALSE]}

=============================================================================
