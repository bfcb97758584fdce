-------------------------- MODULE MCVisibilityTimeout --------------------------
(* An instance of VisibilityTimeout.                                         *)
EXTENDS VisibilityTimeout

CONSTANTS a, b, c

\* 5, 15 and 30 s in units of 15 s, the first rounded up.
MCCountdowns == <<1, 1, 2>>
=============================================================================
