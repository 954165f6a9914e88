--------------------------- MODULE MCCollectorLoop ---------------------------
(***************************************************************************)
(* TLC instance of CollectorLoop: SPX, a second symbol that is published   *)
(* and one that is not.                                                    *)
(***************************************************************************)
EXTENDS CollectorLoop, TLC

Order == <<"SPX", "QQQ", "RUT">>
SymbolOfCode == "x1" :> "SPX" @@ "x2" :> "SPX" @@ "x3" :> "SPX" @@ "q1" :> "QQQ" @@ "r1" :> "RUT"
=============================================================================
