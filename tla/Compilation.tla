----------------------------- MODULE Compilation -----------------------------
(* What the compiler of the companion hands on, and the client receives. *)

\* PageKind, in the order in which kinds are stored and asked for.
Kinds == <<"network", "cosmetic", "diagnostics">>

VARIABLE compiled  \* kind -> sequence of items, once there is a result
=============================================================================
