---------------------------- MODULE MCSettings ----------------------------
(* Two overlapping requests on a number, a secret and a key without field. *)
EXTENDS Settings

OneNumber == {"llm_temperature"}
OneSecret == {"llm_api_key"}
BothFields == OneNumber \cup OneSecret
OneRowOnly == {"llm_provider"}
============================================================================
