----------------------------- MODULE MCVenueChain -----------------------------
(* A chain of three venues of which two are configured.                     *)
EXTENDS VenueChain

CONSTANTS local, groq, openai, q1, q2, q3

MCLegs == <<local, groq, openai>>
=============================================================================
