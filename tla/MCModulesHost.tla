---------------------------- MODULE MCModulesHost ----------------------------
(***************************************************************************)
(* ModulesHost for TLC: one module.  Events wait while MaxQueued operations *)
(* stand behind the one that runs; a returning connect and the installer   *)
(* may still add three to those.                                           *)
(***************************************************************************)
EXTENDS ModulesHost
=============================================================================
