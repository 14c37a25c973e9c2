------------------------- MODULE MCTopicProvisioning -------------------------
(* The module TLC runs on; TopicProvisioning needs no further definitions. *)
EXTENDS TopicProvisioning
=============================================================================
