-------------------------- MODULE MCCtxNavigation --------------------------
(* One organization with a space that has a group with a control plane and *)
(* a space that cannot be reached; no space is known from the kubeconfig.  *)
EXTENDS CtxNavigation

MCDisconnected == <<"disconnected">>
MCReachable == {<<>>, <<"org">>, <<"org", "s">>, <<"org", "s", "g">>, <<"org", "s", "g", "c">>,
                <<"disconnected">>}
MCUnreachable == {<<"org", "u">>}
MCNodes == MCReachable \cup MCUnreachable
MCPathArguments == {<<"org", "s", "g">>, <<"..", "">>, <<".">>, <<"org", "u">>, <<"disconnected">>}
=============================================================================
