------------------------------- MODULE Values -------------------------------
(***************************************************************************)
(* Two values that every field of a bundle may have.                       *)
(***************************************************************************)
CONSTANTS
    None,      \* Python's None, and the null of JSON
    Malformed  \* a value of a shape the reader does not expect

=============================================================================
