-------------------------- MODULE MCObfuscatedAgain --------------------------
(***************************************************************************)
(* Two of the scripts of MCGscObfuscator, obfuscated twice.                *)
(***************************************************************************)
EXTENDS ObfuscatedAgain, MCGscObfuscator

AgainScripts == {Demo, Twins}

AgainOptions ==
  {Defaults, [Defaults EXCEPT !.noTrampoline = TRUE], [Defaults EXCEPT !.noDebugKill = TRUE]}
=============================================================================
