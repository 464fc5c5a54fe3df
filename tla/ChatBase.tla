------------------------------- MODULE ChatBase -------------------------------
(***************************************************************************)
(* The identities and run states that the chat store, the chat service and *)
(* the Hermes gateway have in common.                                      *)
(***************************************************************************)
EXTENDS Naturals

CONSTANTS
  Request,      \* request_id values a client may use; each has a dispatch key
  Run,          \* run identities the runtime may hand out
  NULL          \* SQL NULL, Python None

ASSUME IdentityAssumption ==
  /\ Run \subseteq Nat
  /\ NULL \notin Run \cup Request
  /\ NULL \notin Nat

\* store.TERMINAL
Terminal == {"completed", "failed", "cancelled", "interrupted"}

\* The other states a run may report (integrations/hermes.py, _STATES).
Live == {"queued", "running", "waiting_for_approval", "stopping"}

=============================================================================
