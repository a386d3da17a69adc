------------------------------- MODULE MCPanel -------------------------------
EXTENDS Panel, TLC

(* Frames that share pixels and frames that do not. *)
MCFrames == [pd \in (Pages \cup {"saver"}) \X Data |->
    CASE pd[1] = "menu"  -> {1}
      [] pd[1] = "live"  -> IF pd[2] = 0 THEN {1, 2} ELSE {1, 3}
      [] pd[1] = "alert" -> {2, 3}
      [] pd[1] = "saver" -> {3}]
=============================================================================
