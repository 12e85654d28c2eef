---------------------------- MODULE MCSettingsTx ----------------------------
(* SettingsTx on a small instance: one typed key, one untyped key.         *)
EXTENDS SettingsTx, TLC

CONSTANTS theme, legacy, dark, light

MCTypedKeys   == {theme}
MCUntypedKeys == {legacy}
MCValues      == {dark, light}

MCTunerPatches == {theme :> dark, theme :> Absent}
MCProfilePatch == theme :> light

\* The user's file, with an untyped key the host will drop.
UserDoc == theme :> Absent @@ legacy :> dark

MCInitialFiles == {NoFile, UserDoc}
MCUserFiles    == {NoFile, theme :> light @@ legacy :> Absent}
=============================================================================
