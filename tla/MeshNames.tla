----------------------------- MODULE MeshNames -----------------------------
(***************************************************************************)
(* How a mesh names what its backends serve (packages/core/src/mesh.ts):   *)
(* tools and prompts as <key>__<name>, resources as mcpose://<key>/<uri>,  *)
(* and the way back.  A name is a sequence of characters, because where    *)
(* the separator is found is the point.                                    *)
(***************************************************************************)
EXTENDS Integers, Sequences

CONSTANTS
  None,          \* `undefined`
  Scheme         \* "mcpose://", which no other URI starts with

Separator == <<"_", "_">>

\* The positions at which `part` begins in s.
Occurrences(s, part) ==
  {i \in 1..(Len(s) - Len(part) + 1) : SubSeq(s, i, i + Len(part) - 1) = part}

Least(S) == CHOOSE i \in S : \A j \in S : i <= j

From(s, i) == SubSeq(s, i, Len(s))

(***************************************************************************)
(* The keys normalizeBackends accepts: not empty, without the separator,   *)
(* an identifier (letters, digits, ".", "_", "-", the first a letter or a  *)
(* digit).  Of the characters in use here only "/" and "_" matter.         *)
(***************************************************************************)
AcceptedKey(key) ==
  /\ key # <<>>
  /\ Occurrences(key, Separator) = {}
  /\ key[1] # "_" /\ \A i \in 1..Len(key) : key[i] \notin {"/", Scheme}

\* A key that ends in an underscore is accepted too.  The separator of such a name
\* is found one place early, and the name does not lead back: see Apart.
Apart(key) == key[Len(key)] # "_"

NamespaceName(key, name) == key \o Separator \o name

\* Defect: the separator is looked for from the end.
RouteNamespaced_LastSeparator(name, keys) ==
  LET found == Occurrences(name, Separator)
      at == CHOOSE i \in found : \A j \in found : j <= i
  IN IF /\ found # {} /\ at > 1
        /\ SubSeq(name, 1, at - 1) \in keys /\ From(name, at + 2) # <<>>
     THEN [key |-> SubSeq(name, 1, at - 1), name |-> From(name, at + 2)]
     ELSE None

\* The backend key and the upstream name of an exposed name.
RouteNamespaced(name, keys) ==
  LET found == Occurrences(name, Separator)
      at == Least(found)
  IN IF /\ found # {} /\ at > 1
        /\ SubSeq(name, 1, at - 1) \in keys /\ From(name, at + 2) # <<>>
     THEN [key |-> SubSeq(name, 1, at - 1), name |-> From(name, at + 2)]
     ELSE None

NamespaceUri(key, uri) == <<Scheme>> \o key \o <<"/">> \o uri

\* The backend key and the upstream URI of an exposed URI.
RouteResourceUri(uri, keys) ==
  LET rest == Tail(uri)
      slashes == Occurrences(rest, <<"/">>)
      slash == Least(slashes)
  IN IF /\ uri # <<>> /\ uri[1] = Scheme
        /\ slashes # {} /\ slash > 1
        /\ SubSeq(rest, 1, slash - 1) \in keys /\ From(rest, slash + 1) # <<>>
     THEN [key |-> SubSeq(rest, 1, slash - 1), name |-> From(rest, slash + 1)]
     ELSE None

=============================================================================
