--------------------------- MODULE MCPluginSidecars ---------------------------
(***************************************************************************)
(* Instances of PluginSidecars for TLC.                                    *)
(***************************************************************************)
EXTENDS PluginSidecars, TLC

CONSTANTS b1, b2, s1, good

mechanic == <<"mechanic">>
police   == <<"police">>
main     == <<"main">>

MCOnePlugin  == {mechanic}
MCTwoPlugins == {mechanic, police}
MCServers    == {main}
MCServer     == main

BundleOf(id, plugin) ==
    [id |-> id, pluginId |-> plugin, signerId |-> s1, bundleHash |-> good,
     signed |-> TRUE, sandboxApproved |-> TRUE]
MCOnePerPlugin == {BundleOf(b1, mechanic), BundleOf(b2, police)}
MCOneSigned    == {BundleOf(b1, mechanic), [BundleOf(b2, mechanic) EXCEPT !.signed = FALSE]}
=============================================================================
