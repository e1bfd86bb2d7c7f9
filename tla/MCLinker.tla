------------------------------ MODULE MCLinker ------------------------------
EXTENDS Linker

CONSTANTS root, a, b, k, v1, v2, empty

SeqsUpTo(S, n) == UNION {[1 .. i -> S] : i \in 0 .. n}

Quoted(f) == [op |-> "include", file |-> f, quoted |-> TRUE]
Bare(f) == [op |-> "include", file |-> f, quoted |-> FALSE]
Package == [op |-> "package"]
Broken == [op |-> "broken"]
Def(v) == [op |-> "define", key |-> k, value |-> v]
Undef == [op |-> "undef", key |-> k]
Params == [op |-> "params", key |-> k]

\* a includes b, and the root both: no circle.
Layered ==
  [f \in Files |->
     CASE f = root -> SeqsUpTo({Quoted(a), Bare(b), Def(v1)}, 2)
                        \cup {<<Def(v1), Quoted(a), Quoted(a)>>, <<Bare(b), Quoted(a), Bare(b)>>}
       [] f = a -> { <<Package>>, <<Package, Quoted(b)>>, <<Quoted(b), Package, Quoted(b)>>,
                     <<Package, Bare(b), Bare(b)>>, <<Def(v2), Package, Quoted(b)>>,
                     <<Package, Quoted(b), Def(v2)>>, <<Bare(b), Broken, Package>> }
       [] f = b -> { <<>>, <<Package>>, <<Package, Def(v1), Undef>>, <<Package, Params>>,
                     <<Package, Package>>, <<Def(empty), Broken>> }]

\* a and b may include each other.
Tangled ==
  [f \in Files |->
     CASE f = root -> {<<Quoted(a)>>}
       [] f = a -> {<<Package, Quoted(b)>>}
       [] f = b -> {<<Package>>, <<Package, Quoted(a)>>}]
=============================================================================
