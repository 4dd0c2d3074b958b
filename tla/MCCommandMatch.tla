-------------------------- MODULE MCCommandMatch --------------------------
(* CommandMatch with BUF_SIZE and TASK_COMM_LEN scaled from 32 and 16.      *)
EXTENDS CommandMatch
=============================================================================
