--------------------------- MODULE MCSearchDaemon ---------------------------
(* A small instance of SearchDaemon for TLC. *)
EXTENDS SearchDaemon, TLC

(* An update of two fields and another request. *)
MCOps == "update" :> <<"age", "delinterests">> @@ "delete" :> <<"delete">>
MCKind == "age" :> "set" @@ "delinterests" :> "unset" @@ "delete" :> "delete"

MCRequests == DOMAIN MCOps
=============================================================================
