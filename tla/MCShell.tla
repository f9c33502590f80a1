------------------------------ MODULE MCShell -------------------------------
(* A screen that the longest line fits on beside the prompt, but not in one  *)
(* row; "c" is cls, "e" is echo, "ce" mkfile and so on.                      *)
EXTENDS Shell

MCNotice == <<>>
MCCommandOf ==
  (<<"c">> :> "cls") @@ (<<"e">> :> "echo") @@ (<<"c", "e">> :> "mkfile")
    @@ (<<"e", "c">> :> "dir") @@ (<<"e", "e">> :> "help")
MCWords == DOMAIN MCCommandOf

=============================================================================
