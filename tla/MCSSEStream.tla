---------------------------- MODULE MCSSEStream -----------------------------
(***************************************************************************)
(* SSEStream for TLC.  Records differ only in what amendments may change,  *)
(* which allows every amendment and so the most losses.                    *)
(***************************************************************************)
EXTENDS SSEStream

SameStay(record) == "stay"
=============================================================================
