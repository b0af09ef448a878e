---------------------------- MODULE MCRenderRing ----------------------------
(* TLC instances of RenderRing.                                            *)
EXTENDS RenderRing

=============================================================================
