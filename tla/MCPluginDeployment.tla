-------------------------- MODULE MCPluginDeployment --------------------------
(***************************************************************************)
(* Instances of PluginDeployment for TLC: ids, the bundles that may be     *)
(* registered, and the bounds.                                             *)
(***************************************************************************)
EXTENDS PluginDeployment, TLC

CONSTANTS b1, b2, s1, s2, good, bad

mechanic == <<"mechanic">>
police   == <<"police">>
main     == <<"main">>
event    == <<"event">>

MCOnePlugin  == {mechanic}
MCTwoPlugins == {mechanic, police}
MCOneServer  == {main}
BundleOf(id, plugin, signer, signed, approved) ==
    [id |-> id, pluginId |-> plugin, signerId |-> signer, bundleHash |-> good,
     signed |-> signed, sandboxApproved |-> approved]
MCTrustedBundles == {BundleOf(b1, mechanic, s1, TRUE, TRUE),
                     BundleOf(b2, mechanic, s2, TRUE, TRUE)}
MCMixedBundles   == MCTrustedBundles \cup {BundleOf(b2, mechanic, s1, FALSE, TRUE),
                                          BundleOf(b2, mechanic, s2, TRUE, FALSE)}
MCOnePerPlugin   == {BundleOf(b1, mechanic, s1, TRUE, TRUE),
                     BundleOf(b2, police, s1, TRUE, TRUE)}
MCBothPlugins    == MCMixedBundles \cup {BundleOf(b2, police, s1, TRUE, TRUE)}
=============================================================================
