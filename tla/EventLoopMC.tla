----------------------------- MODULE EventLoopMC -----------------------------
(* The instances of EventLoop that TLC checks.                             *)
EXTENDS EventLoop

CONSTANTS c1, c2, c3   \* connections, as model values

OneConn == {c1}
TwoConns == {c1, c2}
ThreeConns == {c1, c2, c3}

(* Connections are interchangeable; used where no liveness is checked.     *)
Symmetry == Permutations(Conns)

EverythingEnv == Behaviours
PoliteEnv == {"part", "last", "fin"}
SilentEnv == {"part", "clock"}
SlowEnv == {"last", "clock"}
ResetEnv == {"part", "rst"}
BadBodyEnv == {"last", "bad"}
=============================================================================
