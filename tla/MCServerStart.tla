--------------------------- MODULE MCServerStart ----------------------------
(* ServerStart for TLC: one file of each kind of statement.                *)
EXTENDS ServerStart

Stmt(kind, object, soft) == [kind |-> kind, object |-> object, soft |-> soft]

MCBody ==
    << <<Stmt("create", "trigramIndex", TRUE), Stmt("create", "table", FALSE)>>,
       <<Stmt("drop", "foreignKey", FALSE), Stmt("add", "foreignKey", FALSE)>>,
       <<Stmt("create", "column", FALSE)>> >>

=============================================================================
