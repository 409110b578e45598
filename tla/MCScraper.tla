----------------------------- MODULE MCScraper -----------------------------
(***************************************************************************)
(* Three sources; the first may show a page the validator refuses, the     *)
(* second one the parser raises on, the third is unchanged since last time.*)
(***************************************************************************)
EXTENDS Scraper

MCSourceList == <<"s1", "s2", "s3">>

MCTargets == {{"s1", "s2", "s3"}, {"s1", "s2"}, {"s1"}}

MCPagesOf == ("s1" :> {"p1", "p2", "poor"}) @@ ("s2" :> {"q", "odd"}) @@ ("s3" :> {"r"})

MCLastChecksums == ("s1" :> "none") @@ ("s2" :> "none") @@ ("s3" :> "r")

MCBackoff == <<1>>
=============================================================================
