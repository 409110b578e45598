--------------------------- MODULE MCPageToAnswer ---------------------------
(***************************************************************************)
(* Small pages: bodies of six words with every arrangement of three        *)
(* separators, plain or with one word longer than a piece; tables of up to *)
(* five rows; and pages whose headings share a slug.                       *)
(***************************************************************************)
EXTENDS PageToAnswer

NoFacts == [f \in {} |-> ""]

\* A body of the words first..first+Len(gaps)-1; long maps word ids to lengths.
Body(first, gaps, long) ==
  [i \in DOMAIN gaps |->
     [id |-> first + i - 1, gap |-> gaps[i],
      chars |-> IF first + i - 1 \in DOMAIN long THEN long[first + i - 1] ELSE 2]]

SectionPages ==
  {[facts |-> NoFacts, tables |-> <<>>,
    sections |-> <<[heading |-> "Fees", body |-> Body(1, gaps, long)]>>] :
     gaps \in [1..6 -> {3, 5, 6}], long \in {<<>>, 2 :> 12, 4 :> 24}}

TablePages ==
  {[facts |-> [f \in {"nav", "aum"} |-> IF f = "nav" THEN "v" ELSE ""], sections |-> <<>>,
    tables |-> <<[caption |-> "Fees", header |-> 1,
                  rows |-> [i \in DOMAIN widths |-> [id |-> i, tokens |-> widths[i]]]]>>] :
     widths \in UNION {[1..n -> {1, 3, 9}] : n \in 0..4}}

\* Two sections and two tables under headings that may share a slug.
TwoSectionPages ==
  {[facts |-> [f \in {"nav"} |-> "v"],
    sections |-> <<[heading |-> "Fees", body |-> Body(1, <<6>>, <<>>)],
                   [heading |-> second, body |-> Body(11, <<6>>, <<>>)]>>,
    tables |-> <<>>] : second \in {"Risk", "Fees!"}}

MCPages == SectionPages \cup TablePages \cup TwoSectionPages

MCSlugify == ("Fees" :> "fees") @@ ("Fees!" :> "fees") @@ ("Risk" :> "risk")

MCQuestions == {{<<"word", 1>>}, {<<"fact", "TER">>, <<"word", 11>>}, {<<"row", 1>>}}

\* The abbreviation TER stands for the words of the nav fact.
MCAbbreviations == <<"fact", "TER">> :> {<<"fact", "nav">>}

\* api.yaml's section has the key "type", which the factory does not read.
MCRerankerConfig == [type |-> "cross_encoder"]
=============================================================================
