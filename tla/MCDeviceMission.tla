--------------------------- MODULE MCDeviceMission ---------------------------
(***************************************************************************)
(* Instances of DeviceMission for TLC.                                     *)
(***************************************************************************)
EXTENDS DeviceMission

OneCommand      == <<"command">>
TwoCommands     == <<"command", "command">>
CommandCollect  == <<"command", "collect">>
CollectCommand  == <<"collect", "command">>
=============================================================================
