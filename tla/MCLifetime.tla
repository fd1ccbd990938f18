----------------------------- MODULE MCLifetime -----------------------------
(* A machine with everything that is optional, and one with nothing.        *)
EXTENDS Lifetime

All == Optionals
=============================================================================
