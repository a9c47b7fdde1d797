----------------------------- MODULE MCTapping -----------------------------
(***************************************************************************)
(* Keymaps for TLC.  A key of Key in none of a build's sets is a letter.   *)
(***************************************************************************)
EXTENDS Tapping

CONSTANTS a, b, p, s

Letters ==
  [modTap |-> {}, layerTap |-> {}, modKey |-> {}, permissive |-> {}, onOther |-> {}]

\* Two mod-taps, decided in the same way or each in its own: by the release, by
\* the next press, or by a nested tap.
TwoModTaps == [Letters EXCEPT !.modTap = {a, b}]
TwoOnOther == [TwoModTaps EXCEPT !.onOther = {a, b}, !.permissive = {a}]
TwoPermissive == [TwoModTaps EXCEPT !.permissive = {a, b}]
OneOfEach == [TwoModTaps EXCEPT !.onOther = {a}, !.permissive = {b}]

\* A mod-tap, a layer-tap and a modifier.
TapsAndModifier == [Letters EXCEPT !.modTap = {a}, !.layerTap = {b}, !.modKey = {s}]

\* One mod-tap that a nested tap settles, and two letters.
OnePermissive == [Letters EXCEPT !.modTap = {a}, !.permissive = {a}]

ModTapBuilds == {TwoModTaps, TwoOnOther, TwoPermissive, OneOfEach}
NestingBuilds == {TapsAndModifier, OnePermissive}
LayerBuilds == {TapsAndModifier}
DefaultBuilds == {TwoModTaps}
=============================================================================
