------------------------------- MODULE MCCombo -------------------------------
(***************************************************************************)
(* Keymaps with combos.                                                    *)
(***************************************************************************)
EXTENDS Combo

CONSTANTS k1, k2, k3, k4, k5

\* Combos that share a key, and one that contains another.
NestedCombos == <<{k1, k2}, {k2, k3}, {k2, k3, k4}>>

\* Two combos that overlap, and one beside them.
ApartCombos == <<{k1, k2}, {k3, k4}, {k3, k5}>>
=============================================================================
