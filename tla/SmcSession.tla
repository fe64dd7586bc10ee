----------------------------- MODULE SmcSession -----------------------------
(***************************************************************************)
(* What a secure-function-evaluation session promises, without messages,   *)
(* processes or failures: the two parties agree on a computation once the  *)
(* evaluator's enclave is attested, the enclave computes exactly that, and *)
(* the sender is given exactly what was computed.  A session may stop      *)
(* anywhere; it never skips a phase and never delivers anything else.      *)
(***************************************************************************)
CONSTANTS Answers,   \* what can be computed
          Nothing    \* before anything was

VARIABLES
    trusted,     \* the enclave is the one the sender expects
    phase,       \* how far the session is
    asked,       \* the computation agreed on
    result       \* what was computed, then delivered

svars == <<trusted, phase, asked, result>>

SInit ==
    /\ trusted \in BOOLEAN
    /\ phase = "open"
    /\ asked = Nothing
    /\ result = Nothing

Attest ==
    /\ phase = "open"
    /\ trusted
    /\ phase' = "attested"
    /\ asked' \in Answers
    /\ UNCHANGED <<trusted, result>>

Compute ==
    /\ phase = "attested"
    /\ phase' = "computed"
    /\ result' = asked
    /\ UNCHANGED <<trusted, asked>>

Deliver ==
    /\ phase = "computed"
    /\ phase' = "delivered"
    /\ UNCHANGED <<trusted, asked, result>>

SNext == Attest \/ Compute \/ Deliver

SSpec == SInit /\ [][SNext]_svars

=============================================================================
