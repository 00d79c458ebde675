----------------------------- MODULE ConsoleUser -----------------------------
(* The operator in front of web/app.js, whose pages disable some buttons   *)
(* while a request is under way, and never all of them.                    *)

VARIABLE patient   \* whether the user waits for one answer before the next act

None == "none"

UserInit == patient \in BOOLEAN

==============================================================================
