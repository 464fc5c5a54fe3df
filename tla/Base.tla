-------------------------------- MODULE Base --------------------------------
(* What the modules of the deployment's parts share.                        *)
EXTENDS Naturals

None == "none"      \* the absent value

\* The part a behaviour follows. The state of the other parts is absent, and
\* their properties say nothing of it.
VARIABLE part
=============================================================================
