----------------------------- MODULE MCLifecycle -----------------------------
(* One listener for the passing run and the reload run, two for the drain    *)
(* run; whether a listener holds its emergency descriptor is left open.      *)
EXTENDS Lifecycle
=============================================================================
