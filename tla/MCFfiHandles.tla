---------------------------- MODULE MCFfiHandles ----------------------------
(***************************************************************************)
(* Two host threads and two handles.  "" asks for the offline default; a   *)
(* document that is not UTF-8 is refused.                                  *)
(***************************************************************************)
EXTENDS FfiHandles

MCConfigs == {"", "stripe", "not utf-8"}
MCRailOf == [d \in MCConfigs |->
                CASE d = "" -> "mock" [] d = "stripe" -> "stripe"
                  [] OTHER -> Refused]
=============================================================================
