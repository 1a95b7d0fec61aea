----------------------------- MODULE MCSessions -----------------------------
(* Sessions on small instances; hooks are model values. *)
EXTENDS Sessions

CONSTANTS inputHook, fkeyHook

MCInitHooks == {inputHook}
MCUserHooks == {fkeyHook}
=============================================================================
