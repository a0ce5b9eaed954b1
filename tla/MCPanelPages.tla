---------------------------- MODULE MCPanelPages ----------------------------
(* PanelPages with pages that can be exchanged: no action and no invariant *)
(* tells one target from another.                                          *)
EXTENDS PanelPages, TLC

PageSymmetry == Permutations(Targets)

=============================================================================
