---------------------------- MODULE MCBrowserSession ----------------------------
(* BrowserSession with the values its configuration gives the constants.      *)
EXTENDS BrowserSession

CONSTANTS t1, t2

MCTabs == {t1, t2}
(* With tokens of 2 seconds and a skew of 1: clocks within the skew, tokens   *)
(* that are past but accepted (-2), that are never accepted (-3), and that    *)
(* are accepted only some time after they were issued (2).                    *)
MCDeployments == {<<"disabled", 0>>, <<"local", 0>>, <<"keycloak", -1>>,
                  <<"keycloak_ui_local_api", 1>>, <<"keycloak", -2>>,
                  <<"keycloak_ui_local_api", -3>>, <<"keycloak_ui_local_api", 2>>}
MCGrants == {{}, {"viewer"}, {"operator"}}
MCFirstGrants == {{"operator"}}
==============================================================================
