----------------------------- MODULE MCCatalog -----------------------------
(***************************************************************************)
(* Catalog for TLC: two backends, and configurations that createProxyServer*)
(* accepts or refuses.                                                     *)
(***************************************************************************)
EXTENDS Catalog, TLC

CONSTANTS b1, b2, p1, p2, p3

KeyA == <<"a">>
KeyB == <<"b">>

Serves(pages, endless) == [pages |-> pages, endless |-> endless]
T == <<"t">>
Wide == <<"w", "_", "_", "w">>

Tools ==
  [ mesh |-> TRUE, surface |-> "tools", entries |-> <<b2, b1>>,
    keys |-> b1 :> KeyA @@ b2 :> KeyB,
    serves |-> b1 :> {"tools"} @@ b2 :> {"tools", "prompts"},
    notifies |-> b1 :> {"tools"} @@ b2 :> {"tools"},
    local |-> <<NamespaceName(KeyA, T), T>>, hidden |-> {NamespaceName(KeyB, T)},
    catalogs |-> {Serves(<<T, Wide>>, FALSE), Serves(<<Wide>>, TRUE)},
    maxChanges |-> 1 ]

\* Backend b2 does not say when its resources change.
Resources ==
  [Tools EXCEPT !.surface = "resources", !.local = <<>>,
                !.serves = b1 :> {"resources"} @@ b2 :> {"resources", "prompts"},
                !.notifies = b1 :> {"resources"} @@ b2 :> {"prompts"},
                !.hidden = {NamespaceUri(KeyB, T)},
                !.catalogs = {Serves(<<T, Wide>>, FALSE), Serves(<<>>, FALSE)}]

Single ==
  [Tools EXCEPT !.maxChanges = 2, !.mesh = FALSE, !.entries = <<b1>>,
                !.keys = b1 :> <<>> @@ b2 :> KeyB,
                !.local = <<T>>, !.hidden = {},
                !.catalogs = {Serves(<<T, Wide>>, FALSE), Serves(<<>>, FALSE)}]

\* Options that are refused.
BadKey == [Tools EXCEPT !.keys = b1 :> (KeyA \o Separator \o KeyB) @@ b2 :> KeyA]
SameNames == [Tools EXCEPT !.local = <<T, T>>]

MCCharacter == {"a", "b", "t", "w", "_", "/", Scheme}

MCConfiguration == {Tools, Resources, Single, BadKey, SameNames}

=============================================================================
