------------------------------- MODULE SmcStm -------------------------------
(***************************************************************************)
(* The state machine both programs run: the tags and states of             *)
(* include/smcsgx.h, the two transition tables and the dense table that    *)
(* init_stm_tbl() builds from each.                                        *)
(*                                                                         *)
(* A table is a set of rows.  init_stm_tbl() first fills every cell with   *)
(* entry_stub and then copies the rows before the padding into the cells   *)
(* they name, literally: SMC_SGX_STM_ANY and SMC_SGX_MSG_TAG_ANY index the *)
(* cells of a state and of a tag called ANY, they are not wildcards.       *)
(***************************************************************************)

Tags ==
    {"ATT_CHALLENGE", "ATT_S1", "ATT_S2", "ATT_S3", "ATT_RESULT",
     "INPUT", "RESULT", "YAO_INPUT", "ANY", "STUB", "FINI"}

SendStates ==
    {"INIT", "ATT_STARTED", "ATT_S1_RECVD", "ATT_S2_SENT", "ATT_S3_RECVD",
     "ATT_RES_SENT", "INPUT_SENT", "RES_RECVD", "ERROR", "FINI"}

EvalStates ==
    {"INIT", "ATT_RECVD", "ATT_S1_SENT", "ATT_S2_RECVD", "ATT_S3_SENT",
     "ATT_RES_RECVD", "INPUT_WAIT", "INPUT_RECVD", "RES_SENT", "ERROR", "FINI"}

Row(current_state, event, new_state, transition) ==
    [current_state |-> current_state, event |-> event,
     new_state |-> new_state, transition |-> transition]

\* Variant: the INPUT row names the state that ATT_RESULT's row leads to, not
\* the one handle_att_res sets.
MisplacedInputRow ==
    {Row("INIT",          "ATT_CHALLENGE", "ATT_RECVD",     "handle_att_nonce"),
     Row("ATT_S1_SENT",   "ATT_S2",        "ATT_S2_RECVD",  "handle_att_S2"),
     Row("ATT_S3_SENT",   "ATT_RESULT",    "ATT_RES_RECVD", "handle_att_res"),
     Row("ATT_RES_RECVD", "INPUT",         "INPUT_RECVD",   "handle_input")}

eval_stm_trans ==
    {Row("INIT",        "ATT_CHALLENGE", "ATT_RECVD",     "handle_att_nonce"),
     Row("ATT_S1_SENT", "ATT_S2",        "ATT_S2_RECVD",  "handle_att_S2"),
     Row("ATT_S3_SENT", "ATT_RESULT",    "ATT_RES_RECVD", "handle_att_res"),
     Row("INPUT_WAIT",  "INPUT",         "INPUT_RECVD",   "handle_input"),
     Row("RES_SENT",    "STUB",          "INIT",          "handle_stub"),
     Row("ANY",         "ATT_CHALLENGE", "ATT_RECVD",     "handle_att_nonce"),
     Row("ERROR",       "ANY",           "ERROR",         "handle_err"),
     Row("ANY",         "INPUT",         "ERROR",         "handle_err")}

send_stm_trans ==
    {Row("INIT",        "ATT_CHALLENGE", "ATT_STARTED",  "start_att_nonce"),
     Row("ATT_STARTED", "ATT_S1",        "ATT_S1_RECVD", "handle_att_S1"),
     Row("ATT_S2_SENT", "ATT_S3",        "ATT_S3_RECVD", "handle_att_S3"),
     Row("INPUT_SENT",  "RESULT",        "RES_RECVD",    "handle_result"),
     Row("INPUT_SENT",  "YAO_INPUT",     "INPUT_SENT",   "start_yao"),
     Row("RES_RECVD",   "STUB",          "INIT",         "handle_stub"),
     Row("ERROR",       "ANY",           "ERROR",        "handle_err")}

\* The cell of the dense table for a state and a tag holds this new state and
\* this handler: those of the row that names the cell, else entry_stub's.
Cell(table, state, tag, new_state, transition) ==
    \/ Row(state, tag, new_state, transition) \in table
    \/ /\ \A r \in table : ~(r.current_state = state /\ r.event = tag)
       /\ new_state = "FINI"
       /\ transition = "handle_stub"

=============================================================================
