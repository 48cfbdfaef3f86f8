-------------------------- MODULE MCSuggestionStream --------------------------
(* SuggestionStream for TLC: two streams repeat one request id for two      *)
(* subjects, and two of the same subject share a minute.                    *)
EXTENDS SuggestionStream

MCStreams == {"s1", "s2", "s3"}
MCRequestOf == [s \in MCStreams |-> IF s = "s3" THEN "other" ELSE "same"]
MCSubjectOf == [s \in MCStreams |-> IF s = "s2" THEN "user" ELSE "guest"]
=============================================================================
