------------------------------ MODULE MCHooks ------------------------------
(* Hooks on a small instance: three handlers and two priorities, so that   *)
(* handlers share a priority; a handler's symbol is a model value.         *)
EXTENDS Hooks, TLC

CONSTANTS f, g, h, t, u

MCHandler == {f, g, h}
MCPriority == {10, 50}
MCText == {t, u}
MCGiven == {OneText(t), ListOf(<<t, u>>)}
Symmetric == Permutations(MCHandler)
=============================================================================
