----------------------------- MODULE MCPending ------------------------------
(* Instances of Pending for TLC. *)
EXTENDS Pending

Pkg == <<"pkg">>
File == <<"file">>
Server == <<"http", "server">>
Ui == Append(Server, "ui")
Input == Append(Ui, "input")

Four == 1..4
\* packages only, packages and files, and a hierarchy next to a file or with two leaves
FourKinds ==
    {<<Pkg, Pkg, Pkg, Pkg>>, <<Pkg, Pkg, File, File>>, <<Input, Ui, Server, File>>,
     <<Input, Input, Ui, Server>>}
=============================================================================
