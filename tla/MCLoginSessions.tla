--------------------------- MODULE MCLoginSessions ---------------------------
(* Two users, one of them in two groups, and mappings whose order matters,  *)
(* that name an unknown role, or that are empty.                            *)
EXTENDS LoginSessions

MCClaims == [u \in Users |-> IF u = "ann" THEN {"staff", "admins"} ELSE {"staff"}]

MCMappings ==
    {<< >>,
     <<[value |-> "admins", role |-> "Administrator"], [value |-> "staff", role |-> "Viewer"]>>,
     <<[value |-> "staff", role |-> "Owner"], [value |-> "staff", role |-> "Viewer"]>>}
=============================================================================
