------------------------------- MODULE MCFlow -------------------------------
(***************************************************************************)
(* What is under way on a connection, for TLC: a header of two bytes and a *)
(* frame that is accepted or one byte too large, then other data; two      *)
(* connections and a message for the extensions.                           *)
(***************************************************************************)
EXTENDS Flow

\* The largest frame that is accepted, and one that is not.
MCBodySizes == {MaxSize, MaxSize + 1}
=============================================================================
