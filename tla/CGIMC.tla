--------------------------------- MODULE CGIMC ---------------------------------
(* The instances of CGI that TLC checks.                                   *)
EXTENDS CGI

CONSTANTS r1, r2   \* requests, as model values

TwoRequests == {r1, r2}
OnePost == {r2}

(* Less output than the pipe holds, more, and none; a NUL byte inside it.  *)
AllScripts == {s \in [output : {0, 1, 3}, nul : {0, 2}, ends : {"zero", "one", "hangs", "closes"}] :
                 s.nul <= s.output}
OneScript == [output : {1}, nul : {0}, ends : {"zero"}]
ExecFails == {"exec"}
=============================================================================
