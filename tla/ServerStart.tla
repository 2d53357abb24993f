---------------------------- MODULE ServerStart -----------------------------
(***************************************************************************)
(* Servers from start to crash: each migrates the shared database and then *)
(* serves, with a login limiter that lives in its memory.  The limiter of  *)
(* one server, Gate, is followed.                                          *)
(***************************************************************************)
EXTENDS Migrations, LoginLimiter

CONSTANT Gate

ASSUME GateAssumption == Gate \in Servers

vars == <<mvars, lvars>>

Init == MInit /\ LInit

\* handleLogin of a server that serves, when Authenticate returned an error:
\* only now is the limiter asked.
LoginFails(k) ==
    /\ server[Gate].pc = "serving"
    /\ allow(k)
    /\ UNCHANGED mvars

\* handleLogin when Authenticate found the password right.
LoginSucceeds(k) ==
    /\ server[Gate].pc = "serving"
    /\ NotAsked(k)
    /\ UNCHANGED mvars

TimePasses ==
    /\ server[Gate].pc = "serving"
    /\ Tick
    /\ UNCHANGED mvars

\* A crash takes the limiter's memory with it.
ServerCrash(s) ==
    /\ Crash(s)
    /\ IF s = Gate THEN newLoginLimiter ELSE UNCHANGED lvars

Next ==
    \/ \E s \in Servers : (MStep(s) /\ UNCHANGED lvars) \/ ServerCrash(s)
    \/ \E k \in LoginKeys : LoginFails(k) \/ LoginSucceeds(k)
    \/ TimePasses

Spec == Init /\ [][Next]_vars

=============================================================================
