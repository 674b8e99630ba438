--------------------------- MODULE MCLossyTransfer ---------------------------
(* Small instances of LossyTransfer. *)
EXTENDS LossyTransfer

MCFile2 == <<"text", "text">>
MCFile3 == <<"text", "text", "text">>
MCFileMixed == <<"text", "blank", "exit">>

StartOnly    == <<"start">>
StartThenExit == <<"start", "exit">>
LineStartExit == <<"text", "start", "exit">>
LineExit == <<"text", "text", "exit">>
=============================================================================
