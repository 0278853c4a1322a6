---------------------------- MODULE MCStackTrace ----------------------------
(* The helper over a three-frame stack (Ip(k) = 100 + k), with two tables *)
(* LoadSymbolsMap may build for the one executable region 100..104.      *)
EXTENDS StackTrace

CONSTANTS p1, f1, f2, f3

Region == [path |-> p1, pgoff |-> 0]

(* A symbol at every frame's address, so that the frames name apart.     *)
PerFrame == (100 :> MapName(Region)) @@ (101 :> SymName(f1)) @@
            (102 :> SymName(f2)) @@ (103 :> SymName(f3)) @@ (104 :> Sentinel)

(* One function spanning the frames: the inner ones get name+0xOFF.      *)
OneFunction == (100 :> MapName(Region)) @@ (101 :> SymName(f1)) @@ (104 :> Sentinel)

MCTables == {PerFrame, OneFunction}
=============================================================================
