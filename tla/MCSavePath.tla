------------------------------ MODULE MCSavePath ------------------------------
(* Two campaigns with one file each; the game writes twice after the start. *)
EXTENDS SavePath, TLC

MCDirOf == "a.sav" :> "campaign_a" @@ "b.sav" :> "campaign_b"
===============================================================================
