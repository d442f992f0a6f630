-------------------------- MODULE MCVersionOrder --------------------------
(***************************************************************************)
(* Versions for TLC, around a word of 16: numbers with one and two digits, *)
(* numbers beyond the word, texts that begin like numbers.                 *)
(***************************************************************************)
EXTENDS VersionOrder

a == 10

Identifiers ==
  {<<0>>, <<9>>, <<1, 0>>, <<1, 6>>, <<9, 9>>, <<1, 0, 0>>, <<a>>, <<1, a>>, <<Hyphen>>, <<a, Hyphen>>}

Prereleases ==
  {<<>>} \cup {<<i>> : i \in Identifiers}
    \cup {<<<<a>>, i>> : i \in {<<0>>, <<1, 0>>, <<1, a>>}} \cup {<<<<9>>, <<a>>>>}

Cores == {<<<<1>>, <<0>>, <<0>>>>, <<<<1>>, <<0>>, <<9>>>>, <<<<1>>, <<0>>, <<1, 0>>>>, <<<<9>>, <<0>>, <<0>>>>}

Sound ==
  [core : Cores, pre : Prereleases, build : {<<>>}]
    \cup {[core |-> <<<<1>>, <<0>>, <<0>>>>, pre |-> pre, build |-> <<<<0, 1>>>>] : pre \in {<<>>, <<<<a>>>>}}

\* A core of two numbers, one beyond the word, leading zeros, empty parts.
Unsound ==
  {[core |-> core, pre |-> <<>>, build |-> <<>>] :
     core \in {<<<<1>>, <<0>>>>, <<<<1, 6>>, <<0>>, <<0>>>>, <<<<0, 1>>, <<0>>, <<0>>>>}}
  \cup {[core |-> <<<<1>>, <<0>>, <<0>>>>, pre |-> pre, build |-> build] :
          pre \in {<<<<>>>>, <<<<0, 1>>>>}, build \in {<<>>, <<<<>>>>}}

SomeVersions == Sound \cup Unsound
=============================================================================
