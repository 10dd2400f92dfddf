------------------------------ MODULE MCBrowser ------------------------------
(* Small instances of Browser: five pages, one of which redirects to the     *)
(* form and one of which is a document without a body, and two selectors,    *)
(* one of which matches a hidden element of home.                            *)
EXTENDS Browser

CONSTANTS blank, home, form, old, feed, button, banner

MCUrls == {blank, home, form, old, feed}
MCBodiless == {feed}
MCSelectors == {button, banner}
MCLanding == [u \in MCUrls |-> IF u = old THEN form ELSE u]
MCElements ==
    [u \in MCUrls |-> CASE u = home -> {banner}
                        [] u = form -> {button, banner}
                        [] OTHER -> {}]
MCVisible ==
    [u \in MCUrls |-> IF u = form THEN {button, banner} ELSE {}]
=============================================================================
