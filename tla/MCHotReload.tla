---------------------------- MODULE MCHotReload ----------------------------
(* HotReload for TLC: a file beside a folder with a file in it. *)
EXTENDS HotReload

CONSTANTS root, sub, f, g

TreeBelow ==
    [p \in {root, sub, f, g} |-> CASE p = root -> {root, sub, f, g} [] p = sub -> {sub, g} [] OTHER -> {p}]
=============================================================================
