------------------------- MODULE MCPayloadReceiver -------------------------
(***************************************************************************)
(* Instances of PayloadReceiver: every small archive, and binaries below, at *)
(* and above the limit, beside a payload that claims the same name or        *)
(* another.                                                                  *)
(***************************************************************************)
EXTENDS PayloadReceiver, TLC

CONSTANTS r1, r2

Entry(path, type, size) == [path |-> path, type |-> type, size |-> size]

Entries ==
    {Entry(<<"a">>, "file", 1), Entry(<<"a">>, "dir", 0), Entry(<<"a", "b">>, "file", 0),
     Entry(<<"a", "b">>, "dir", 0), Entry(<<"c">>, "other", 0), Entry(<<"c">>, "file", 2),
     Entry(<< >>, "dir", 0), Entry(<< >>, "file", 0)}

Archive(name, entries) == [kind |-> "tar", name |-> name, entries |-> entries]
Binary(name, size) ==
    [kind |-> "binary", name |-> name, entries |-> <<Entry(<< >>, "file", size)>>]

\* An entry of 2 bytes makes 3: alone it is below the limit of 4, with an empty
\* one at it, with a file of 1 byte above.  The last two exceed the limits on
\* declared sizes and on entries.
Archives == {Archive("app", s) : s \in BoundedSeq(Entries, 2)}
            \cup {Archive("app", <<Entry(<<"a", "b">>, "file", 0), e, f>>) : e, f \in Entries}
            \cup {Archive("app", <<Entry(<<"c">>, "file", 9)>>),
                  Archive("app", [i \in 1 .. 4 |-> Entry(<< >>, "dir", 0)])}
Binaries == {Binary("app", n) : n \in {0, 4, 5}}

Others == {Binary("app", 2), Archive("app", <<Entry(<<"c">>, "dir", 0)>>), Binary("tool", 4)}

Contested == {(r1 :> p) @@ (r2 :> q) : p \in Archives \cup Binaries, q \in Others}

=============================================================================
