--------------------------- MODULE MCPushToChroma ---------------------------
(***************************************************************************)
(* Two sources whose pages have up to three chunks, some of them equal up  *)
(* to their case: a page may lose a chunk, yield none, exceed the embedder *)
(* or have two chunks with one id.                                         *)
(***************************************************************************)
EXTENDS PushToChroma

Chunk(id, text) == [id |-> id, text |-> text]

Page(chunks) == [ok |-> TRUE, chunks |-> chunks]

MCPages ==
  ("s1" :> {Page(<<Chunk("a", "Nav"), Chunk("b", "Fee"), Chunk("c", "nav")>>),
            Page(<<Chunk("b", "Aum")>>), Page(<<>>)})
  @@ ("s2" :> {Page(<<Chunk("d", "NAV"), Chunk("e", "")>>),
               Page(<<Chunk("d", "Fee"), Chunk("d", "Aum")>>)})

MCSources == <<"s1", "s2">>

Texts == {"Nav", "nav", "NAV", "Fee", "Aum", ""}

MCDisplay == [t \in Texts |-> t]

MCLower == [t \in Texts |-> IF t \in {"Nav", "NAV"} THEN "nav" ELSE t]
=============================================================================
