--------------------------- MODULE MCInteraction ---------------------------
(***************************************************************************)
(* Instances of Interaction: two commands on one session with one window.  *)
(***************************************************************************)
EXTENDS Interaction

CONSTANTS m1, m2, shift, k

\* One character that needs shift.
Capital == <<<<k, TRUE>>>>

Beside(first, second) == (m1 :> first) @@ (m2 :> second)

\* A text beside whatever else moves keys, and commands that look at windows.
PairsOfCommands ==
    {Beside("type", other) : other \in {"type", "tap", "press", "release"}}
    \cup {Beside("click", "windows"), Beside("tap", "close"),
          Beside("window", "resize"), Beside("close", "window")}

ClickBesideWindows == {Beside("click", "windows")}

=============================================================================
