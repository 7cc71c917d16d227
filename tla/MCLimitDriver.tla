--------------------------- MODULE MCLimitDriver ---------------------------
(***************************************************************************)
(* LimitDriver on small instances: the default of Settings, every driver   *)
(* that may be selected automatically, and explicit lists.                 *)
(***************************************************************************)
EXTENDS LimitDriver

MCKindLists == {<<"Auto">>, <<"AutoDangerous">>, <<"Prlimit", "CgroupAuto">>,
                <<"CgroupV2", "CgroupV1">>, <<>>}
=============================================================================
