---------------------------- MODULE MCHostPlugins ----------------------------
(***************************************************************************)
(* Two services of the host for its plugins, checked side by side: their   *)
(* reload when their source is saved, and their menus in the tray.  `part` *)
(* says which one a behaviour is about; the other one stays as it begins,  *)
(* so that the states are the sum of theirs.                               *)
(***************************************************************************)
EXTENDS PluginReload, Tray

VARIABLE part

MCInit == part \in {"reload", "tray"} /\ Init /\ TrayInit

MCNext ==
    /\ UNCHANGED part
    /\ \/ part = "reload" /\ Next     /\ UNCHANGED trayVars
       \/ part = "tray"   /\ TrayNext /\ UNCHANGED vars

\* None of the fair steps is enabled where its part begins, so that fairness
\* asks nothing of the part that stays there.
MCSpec ==
    /\ MCInit /\ [][MCNext]_<<part, vars, trayVars>>
    /\ Fairness /\ TrayFairness
=============================================================================
