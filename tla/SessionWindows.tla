--------------------------- MODULE SessionWindows ---------------------------
(***************************************************************************)
(* What a session promises about its windows, whoever looks: a revision    *)
(* that rises by one with every change, and handles that are given once.   *)
(*                                                                          *)
(* The control plane implements it (ControlPlane!ImplementsSession); what   *)
(* the host does to a session is modelled on top of it (AgentCalls).        *)
(***************************************************************************)
EXTENDS Naturals

VARIABLES
    rev,    \* the session revision
    live,   \* handles of the windows there are
    given   \* handles assigned so far: 1 .. given

sessionVars == <<rev, live, given>>

SessionInit == rev = 0 /\ live = {} /\ given = 0

Rises == rev' = rev + 1

\* A window appears under a handle nobody had.
Opens ==
    /\ given' = given + 1
    /\ live' = live \cup {given'}
    /\ Rises

\* A window disappears, for good.
Disappears(h) ==
    /\ h \in live
    /\ live' = live \ {h}
    /\ Rises
    /\ UNCHANGED given

\* A window is activated, moved, resized or changes its state.
Alters(h) ==
    /\ h \in live
    /\ Rises
    /\ UNCHANGED <<live, given>>

SessionNext == Opens \/ \E h \in live : Disappears(h) \/ Alters(h)

SessionSpec == SessionInit /\ [][SessionNext]_sessionVars

=============================================================================
