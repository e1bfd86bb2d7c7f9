------------------------------ MODULE MCScenes ------------------------------
EXTENDS Scenes

CONSTANTS p, m, t, g, x, s1, s2, a, b, c

\* The package p, asked for materials, vertex descriptions and lights.  The mesh
\* has two groups, and its description is one p may lack.
SomeContents ==
  {[f \in {p, m, t} |->
      CASE f = p -> held
        [] f = m -> [desc |-> <<p, a>>, groups |-> <<<<p, b>>, <<p, c>>>>]
        [] f = t -> [desc |-> <<p, a>>, programs |-> Programs]] :
     held \in {{a, b}, {b, c}}}

SomeSounds == {{t, m, x}, {t, x, p}, {t, m, x, p}}

Entry(label, type, attach, kids) ==
  [label |-> label, type |-> type, attach |-> attach, kids |-> kids]

Kids == {<<<<s1, b>>, <<s1, c>>>>, <<<<s2, b>>, <<s1, c>>>>, <<<<s1, b>>, <<s2, b>>>>}

Rests ==
  {<<Entry(b, "mesh", m, <<>>), Entry(c, "light", <<p, b>>, <<>>)>>,
   <<Entry(b, "scene", Null, <<<<s2, a>>, <<s1, c>>>>), Entry(c, "mesh", m, <<>>)>>,
   <<Entry(b, "scene", Null, <<<<s1, c>>>>), Entry(c, "scene", Null, <<<<s1, a>>>>)>>,
   <<Entry(a, "light", <<p, b>>, <<>>), Entry(c, "mesh", m, <<>>)>>,
   <<Entry(b, "light", <<p, a>>, <<>>), Entry(c, "bad", Null, <<>>)>>}

Others == {<<>>,
           <<Entry(a, "mesh", m, <<>>), Entry(b, "mesh", Null, <<>>)>>,
           <<Entry(a, "scene", Null, <<<<s2, b>>>>), Entry(b, "mesh", m, <<>>)>>}

SomeTexts ==
  {[s \in {s1, s2} |-> IF s = s1 THEN <<Entry(a, "scene", Null, r[1])>> \o r[2] ELSE r[3]] :
     r \in Kids \X Rests \X Others}
=============================================================================
