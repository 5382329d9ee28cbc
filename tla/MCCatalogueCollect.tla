-------------------------- MODULE MCCatalogueCollect --------------------------
(* An instance of CatalogueCollect for TLC. *)
EXTENDS CatalogueCollect, TLC

\* Labels: two terminals, one of them in two spellings, and two places.
Labels  == {"TICEN", "Ticen", "TITRI", "Centro", "Bairro"}
MCNorm  == [l \in Labels |-> IF l = "TICEN" THEN "Ticen" ELSE l] @@ None :> None
MCWords == "Ida" :> {"ida"} @@ "Volta" :> {"volta"} @@ "Ida e Volta" :> {"ida", "volta"} @@ "Mapa" :> {}

Group(label)        == [label |-> label, times |-> {"06:00"}]
Untimed(label)      == [label |-> label, times |-> {}]
Mark(name, edges)   == [name |-> name, edges |-> edges]
Upto2(S)            == {<<>>} \cup {<<a>> : a \in S} \cup (S \X S)

Groups == Upto2({Group(l) : l \in Labels \cup {None}})
              \cup {<<Untimed("TICEN"), Group("Centro"), Group("TITRI")>>,
                    <<Group("Bairro"), Group("TICEN"), Group("Bairro")>>,
                    <<Group("Centro"), Group("TICEN"), Group("TITRI")>>}
\* Edges shorter than, equal to and longer than a segment, and a single point.
Maps   == Upto2({Mark(n, <<8>>) : n \in DOMAIN MCWords})
              \cup {<<Mark("Mapa", None), Mark("Volta", <<15>>), Mark("Ida", <<12, 0, 6>>)>>,
                    <<Mark("Ida", <<>>), Mark("Volta", <<20, 5, 13>>)>>,
                    <<Mark("Ida", <<6>>), Mark("Volta", <<6>>), Mark("Ida", <<6>>)>>}

Page0 == [parses |-> TRUE, code |-> 100, map |-> "m", tabs |-> <<>>, columns |-> <<>>]
Map0  == [parses |-> TRUE, placemarks |-> <<>>]

\* One route with every kind of page and map,
Single(tabs, columns, map) ==
    [listed |-> <<"a">>, disallowed |-> {}, reliable |-> TRUE,
     page |-> "a" :> [Page0 EXCEPT !.tabs = tabs, !.columns = columns],
     map  |-> "m" :> [Map0 EXCEPT !.placemarks = map]]

Varied == {Single(g, <<>>, m) : g \in Groups, m \in Maps} \cup {Single(<<Untimed("TICEN")>>, g, m) : g \in Groups, m \in Maps}

\* and catalogues of several routes, each of which may fail in its way.
Several(listed, disallowed, badPages, badMaps) ==
    [listed |-> listed, disallowed |-> disallowed, reliable |-> FALSE,
     page |-> [u \in {"a", "b", "c", "d"} |->
                  [Page0 EXCEPT !.code = u, !.parses = u \notin badPages,
                                !.map = CASE u = "a" -> "m" [] u = "b" -> "n" [] OTHER -> None,
                                !.tabs = <<Group("Centro"), Group("TICEN")>>]],
     map  |-> [u \in {"m", "n"} |->
                  [parses |-> u \notin badMaps,
                   placemarks |-> <<Mark("Volta", <<6>>), Mark("Ida", <<8>>)>>]]]

Catalogues ==
    {Several(<<"b", "a", "b", "c", "d">>, {}, {}, {}), Several(<<"a", "c", "b">>, {"c"}, {"a"}, {}),
     Several(<<"c", "b", "a">>, {"m"}, {}, {"n"}), Several(<<>>, {}, {}, {}),
     Several(<<"a">>, {"index"}, {}, {})}

MCSites == Varied \cup Catalogues
=============================================================================
