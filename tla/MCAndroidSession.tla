--------------------------- MODULE MCAndroidSession ---------------------------
(* Instances of AndroidSession: the input method and one account screen.    *)
EXTENDS AndroidSession

Users == [ime |-> "ime", signIn |-> "page", sync |-> "page"]
=============================================================================
