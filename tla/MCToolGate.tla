------------------------------ MODULE MCToolGate ------------------------------
(* One tool of every kind: governed built-ins of both catalogs and of either, *)
(* a tool of the app, a tool of the vendor; selections of all of them, of     *)
(* some, of none, and some that must be refused.                              *)
EXTENDS ToolGate, TLC

CONSTANTS k1, k2

MCManifest == "shell" :> {"default", "codex"} @@ "grep" :> {"default"} @@ "rg" :> {"codex"}
Everything == [tools |-> <<"lookup">>, available |-> {}, excluded |-> FALSE]
Narrow == [Everything EXCEPT !.available = {{<<"builtin", "shell">>, <<"builtin", "grep">>}}]
NoTools == [Everything EXCEPT !.available = {{}}]
Vendor == [Everything EXCEPT !.available = {{<<"builtin", "task">>}}]
Disguised == [Everything EXCEPT !.tools = <<"shell">>]
Excluding == [Everything EXCEPT !.excluded = TRUE]
MCRequests == {Everything, Narrow, NoTools, Vendor, Disguised, Excluding}
Symmetry == Permutations({k1, k2})
=============================================================================
