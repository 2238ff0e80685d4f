-------------------------- MODULE MCHotkeyInput --------------------------
(* r is a gameplay key, j a letter.  The first configuration binds j to the *)
(* toggle and leaves r alone; the second moves j to a preset and to the     *)
(* mode switch at once, and gives r to another preset.                      *)
EXTENDS HotkeyInput
CONSTANTS r, j, p1, p2
MCPresets(a, b) == [p \in Presets |-> IF p = p1 THEN a ELSE b]
MCConfigs == {
  [toggle |-> j, mode |-> NoKey, preset |-> MCPresets(NoKey, NoKey),
   ignored |-> {}, pause |-> TRUE, auto |-> TRUE],
  [toggle |-> NoKey, mode |-> j, preset |-> MCPresets(j, r),
   ignored |-> {j}, pause |-> TRUE, auto |-> TRUE]}
=============================================================================
