-------------------------- MODULE MCProviderFiles --------------------------
(* Texts for TLC: nothing, a line, two lines, hooks already installed, and a text over *)
(* the bound; inode numbers and directories are interchangeable.                       *)
EXTENDS ProviderFiles, TLC

CONSTANTS a, b

Texts == {<<>>, <<a>>, <<a, b>>, <<Hooks>>, <<a, b, a>>}
Chunks == {a, b, Hooks}
Symmetric == Permutations(Inode) \cup Permutations(Dir)
=============================================================================
