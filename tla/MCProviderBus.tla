---------------------------- MODULE MCProviderBus ----------------------------
(* Instances of ProviderBus: one plugin, as images have it, or two.          *)
EXTENDS ProviderBus

CONSTANTS p1, p2

OnePlugin  == {p1}
TwoPlugins == {p1, p2}
=============================================================================
