-------------------------- MODULE MCSettingsLayout --------------------------
(* TLC instances of SettingsLayout.                                        *)
EXTENDS SettingsLayout

MCWorkAreas == {[w |-> 1200, h |-> 700], [w |-> 4000, h |-> 3000]}
=============================================================================
