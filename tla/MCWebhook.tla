----------------------------- MODULE MCWebhook -----------------------------
(***************************************************************************)
(* Webhook for TLC: eleven names, one of them longer than a field.          *)
(***************************************************************************)
EXTENDS Webhook

Strings == {"", "refs", "heads", "dev", "feature", "long", "clipped", "root", "joe",
            "compile all", "fix"}
Clipped == [n \in Strings |-> IF n = "long" THEN "clipped" ELSE n]

Refs == {<<"">>, <<"refs", "heads", "dev">>, <<"refs", "heads", "feature", "dev">>,
         <<"refs", "heads", "feature">>, <<"refs", "heads", "long">>}
SomePushes == [ref : Refs, user : {"root", "joe"},
               commits : {<<>>, <<"fix">>, <<"compile all">>, <<"fix", "compile all">>}]
=============================================================================
