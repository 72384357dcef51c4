--------------------------- MODULE StreamRetryMC ---------------------------
(* Small instances of StreamRetry for TLC. *)
EXTENDS StreamRetry

CONSTANTS a1, a2

\* One refusal per way the handlers treat it.
Refusals == {<<400, "context">>, <<401, "other">>, <<429, "limit">>,
             <<500, "transient">>, <<503, "other">>}

=============================================================================
