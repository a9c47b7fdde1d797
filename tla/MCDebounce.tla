---------------------------- MODULE MCDebounce ----------------------------
(***************************************************************************)
(* Two keys, or two rows that read nothing, one key or two keys.           *)
(***************************************************************************)
EXTENDS Debounce, TLC

CONSTANTS x, y, c1, c2

MCRowValue == {{}, {c1}, {c1, c2}}

KeySymmetry == Permutations(Unit)
=============================================================================
