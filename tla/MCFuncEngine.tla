---------------------------- MODULE MCFuncEngine ----------------------------
(* Instances of FuncEngine for TLC. *)
EXTENDS FuncEngine

AllPrograms == {"if", "map", "except", "fail", "for", "stmtif"}

\* those whose failures are all caught, and no for statement (MCFuncEngineFor.cfg)
Expressions == {"if", "map", "except"}
=============================================================================
