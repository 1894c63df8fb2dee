---------------------------- MODULE MCImageBuild ----------------------------
(***************************************************************************)
(* Instances of ImageBuild: small checkouts with every kind of node, and    *)
(* manifests that should and should not be accepted.                        *)
(***************************************************************************)
EXTENDS ImageBuild, TLC

CONSTANTS b1, b2, dir, base, im1, im2, mine

Checkout == <<"work", "app">>
File == [type |-> "file"]
Dir == [type |-> "dir"]
Other == [type |-> "other"]
Link(to) == [type |-> "link", to |-> to]

App(path) == <<"work", "app">> \o path
Dirs == {<< >>, <<"work">>, App(<< >>), <<"work", "lib">>, App(<<"s">>), App(<<"s", ".git">>)}
Files == {<<"work", "lib", "go.mod">>, App(<<"key">>), App(<<"go.mod">>), App(<<"g">>),
          App(<<"s", "f">>), App(<<"s", ".git", "x">>)}

\* A checkout and what it has besides.
Tree(more) ==
    [p \in Dirs \cup Files \cup DOMAIN more |->
        IF p \in Dirs THEN Dir ELSE IF p \in Files THEN File ELSE more[p]]
Plain == Tree(<< >>)

Trees ==
    {Plain, Tree(App(<<"s", "o">>) :> Other)}
    \cup {Tree(App(<<"s", "l">>) :> Link(to)) :
            to \in {App(<<"s", "f">>), App(<<"s">>), App(<<"g">>), App(<<"s", "none">>)}}
    \cup {Tree([p \in {App(<<"s", "d">>), App(<<"s", "d", "l">>)} |->
                    IF Len(p) = 4 THEN Dir ELSE Link(App(<<"s", "d">>))])}
    \cup {Tree([p \in {App(<<"s", "d">>), App(<<"s", "d", "h">>), App(<<"s", "l">>)} |->
                    CASE p = App(<<"s", "d">>) -> Dir [] Len(p) = 5 -> File
                      [] OTHER -> Link(App(<<"s", "d">>))])}

Source(name, to) == [from |-> <<"work", "app", name>>, to |-> to]
Manifest(sources, modules, own, digest, writable) ==
    [image |-> IF own THEN im1 ELSE base, own |-> own, digest |-> digest,
     sources |-> sources, modules |-> modules, writable |-> writable]

Usual == Manifest(<<Source("s", <<"src">>)>>, << >>, FALSE, im1, {})
Layered == Manifest(<<Source("s", <<"src", "lib">>), Source("g", <<"src", "lib", "f">>)>>,
                    <<<<"work", "lib">>>>, TRUE, Nowhere, {<<"var">>})
Elsewhere == [Usual EXCEPT !.sources = <<Source("s", <<"lib">>)>>]
Refused == {
    Manifest(<<Source("s", <<"a">>)>>, << >>, TRUE, im1, {}),
    Manifest(<<Source("s", <<"a">>)>>, << >>, FALSE, Nowhere, {}),
    Manifest(<<Source("key", <<"a">>)>>, << >>, TRUE, Nowhere, {}),
    Manifest(<<Source("none", <<"a">>)>>, << >>, TRUE, Nowhere, {}),
    Manifest(<<[from |-> <<"work", "lib">>, to |-> <<"a">>]>>, << >>, TRUE, Nowhere, {}),
    Manifest(<<Source("s", <<"a">>), Source("g", <<"a">>)>>, << >>, TRUE, Nowhere, {}),
    Manifest(<<Source("s", <<"var", "a">>)>>, << >>, TRUE, Nowhere, {<<"var">>}),
    Manifest(<<Source("s", <<"run", "a">>)>>, << >>, TRUE, Nowhere, {}),
    Manifest(<< >>, <<<<"work", "app", "s">>>>, TRUE, Nowhere, {})}

Asks(m, tag, staging) == [manifest |-> m, tag |-> tag, staging |-> staging]
Both(t, x, y) == [tree |-> t, request |-> (b1 :> x) @@ (b2 :> y)]

\* Every tree beside a manifest that is refused, and every manifest that is
\* refused beside one that is not; two manifests, and one twice.
Unpinned == Manifest(<<Source("s", <<"a">>)>>, << >>, FALSE, Nowhere, {})
Checkouts ==
    {Both(t, Asks(m, Default, Temporary), Asks(Unpinned, Default, Temporary)) :
        t \in Trees, m \in {Usual, Layered}}
    \cup {Both(Plain, Asks(Usual, mine, Temporary), Asks(m, Default, Temporary)) :
            m \in {Layered} \cup Refused}
    \cup {Both(Plain, Asks(Usual, Default, Temporary), Asks(Elsewhere, Default, Temporary))}
    \cup {Both(Plain, Asks(Usual, Default, Temporary), Asks(Usual, Default, Temporary))}

\* One directory assembles one build's context after the other's.
ReusedDirectory == {Both(Plain, Asks(Usual, Default, dir), Asks(Usual, Default, dir))}

HeldAtFirst == base :> im1
ReservedTargets == {<<"run">>, <<"proc">>}

=============================================================================
