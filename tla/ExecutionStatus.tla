--------------------------- MODULE ExecutionStatus ---------------------------
(***************************************************************************)
(* project_outlines.execution_status, the column through which a project's *)
(* contract, its spending and its final evaluation see each other          *)
(* (app/constants/module56.ts, assertExecution in module56_common.ts).     *)
(***************************************************************************)

CONSTANT None

VARIABLE exec   \* execution_status; None while the column is null

ExecStatus ==
    {"DANG_THUC_HIEN", "DGCK_DRAFT", "DGCK_CHO_PKH", "DGCK_BS",
     "DGCK_HOP_HD", "DGCK_CHINH_SUA", "DGCK_KHONG_DAT", "DGCK_DINH_CHI",
     "DGCK_CHO_QUYET_TOAN", "DGCK_CHO_THANH_LY", "HOAN_THANH"}

\* The council has given its verdict.
Judged ==
    {"DGCK_CHINH_SUA", "DGCK_KHONG_DAT", "DGCK_DINH_CHI",
     "DGCK_CHO_QUYET_TOAN", "DGCK_CHO_THANH_LY", "HOAN_THANH"}

ASSUME NoneAssumption == None \notin ExecStatus
=============================================================================
