-------------------------- MODULE MCWorkspaceLock --------------------------
(* Three incarnations on two pid numbers and an earlier-version writer whose *)
(* pid one of them may be reissued.                                          *)
EXTENDS WorkspaceLock, TLC

CONSTANTS old, a, b, c

MCProcs == {old, a, b, c}
MCPidOf == (old :> 1) @@ (a :> 1) @@ (b :> 2) @@ (c :> 3)
=============================================================================
