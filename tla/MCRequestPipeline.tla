------------------------- MODULE MCRequestPipeline -------------------------
(***************************************************************************)
(* Two requests over two workers; four queries; two chunks of two pages    *)
(* with different dates; an LLM that obeys the prompt, cites nothing,      *)
(* invents a page and gives advice, or writes null for answer and date.    *)
(***************************************************************************)
EXTENDS RequestPipeline, TLC

CONSTANTS r1, r2

Plain == [pii |-> {}, injection |-> FALSE, advisory |-> FALSE, performance |-> FALSE,
          nonFund |-> FALSE, namedFund |-> TRUE, knownScheme |-> TRUE]

MCQueries == {Plain, [Plain EXCEPT !.pii = {{"phone", "Aadhaar"}}],
              [Plain EXCEPT !.advisory = TRUE], [Plain EXCEPT !.injection = TRUE]}

Row(c, deleted) ==
  [chunk |-> c, version |-> "v", scheme |-> "s", deleted |-> deleted, words |-> {}]

MCCollection == {Row("c1", FALSE), Row("c2", FALSE), Row("gone", TRUE)}

MCPages == ("c1" :> [url |-> "u1", date |-> "d1"]) @@ ("c2" :> [url |-> "u2", date |-> "d2"])
             @@ ("gone" :> [url |-> "u1", date |-> "d0"])

Text(answer, citation, date) ==
  [kind |-> "text", answer |-> answer, citation |-> citation, date |-> date]

MCReplies ==
  {Text(<<"fact", "fact", "footer">>, "u2", ""),
   Text(<<"fact", "fact", "fact", "footer">>, "", "d9"),
   Text(<<"fact", "advice">>, "u9", ""),
   Text(Null, "u1", Null),
   [Text(<<>>, "", "") EXCEPT !.kind = "sentinel"]}

MCRerankerConfig == [type |-> "passthrough"]

MCAbbreviations == [w \in {} |-> {}]
=============================================================================
