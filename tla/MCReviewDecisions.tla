------------------------- MODULE MCReviewDecisions -------------------------
EXTENDS ReviewDecisions

MCSigns == {"A", "B", "K", "a", "b", "k", "1", "2", "3", "4", " ", "\n", "'"}
MCLowerOf == [A |-> "a", B |-> "b", K |-> "k"]
T(letters) == [i \in DOMAIN letters |-> <<letters[i]>>]
Hit(type, letters, score, source) ==
  [type |-> <<type>>, text |-> T(letters), score |-> score, source |-> source]
NoPrefs == [always |-> {}, never |-> {}, families |-> {}]
Case(d, ps, p, repairs, reported, sels) ==
  [doc |-> d, patterns |-> ps, prefs |-> p, repairs |-> repairs, reported |-> reported,
   selections |-> sels]

\* A name, its glued spelling and its surname with a suffix.
Names == Case(<<<<T(<<"A", "b", " ", "K", "a">>)>>,
                <<T(<<"A", "b", "K", "a", " ", "K", "a", "'", "b">>)>>>>,
              {Hit("PERSON", <<"A", "b", " ", "K", "a">>, 8, "en"), Hit("PERSON", <<"K", "a">>, 8, "tr")},
              NoPrefs,
              {}, {<<T(<<"b">>)>>},
              {<<1, <<3, 5>>, "ORG">>, <<2, <<2, 6>>, "ORG">>})

\* A number in two cells, and again with a space in a paragraph.
Cells == Case(<<<<T(<<"1", "2">>), T(<<"3", "4", "b">>), T(<<"a">>)>>,
                <<T(<<"1", " ", "2", "3", "4">>)>>>>,
              {Hit("TR_IBAN", <<"1", "2", "3", "4">>, 10, "tr")}, NoPrefs,
              {}, {<<T(<<"b">>)>>},
              {<<2, <<1, 3>>, "ORG">>, <<4, <<0, 3>>, "ORG">>})

\* A number that goes on in the next cell; one broken over two lines.
Edges == Case(<<<<T(<<"1", "2">>), T(<<"3", "b">>)>>,
                <<T(<<"1", "2", "\n", "3", " ", "b">>)>>>>,
              {Hit("TR_ACCOUNT", <<"1", "2">>, 6, "en"), Hit("TR_ACCOUNT", <<"1", "2", "3">>, 6, "tr")},
              NoPrefs, {<<T(<<"3">>), T(<<"b">>)>>}, {<<T(<<"b">>)>>}, {<<2, <<0, 2>>, "ORG">>, <<3, <<1, 4>>, "ORG">>})

\* Detections that overlap, an always-mask term and a never-mask term.
Overlaps == Case(<<<<T(<<"A", " ", "B", " ", "K", "a">>)>>, <<T(<<"b", " ", "k", "a">>)>>>>,
              {Hit("LOCATION", <<"A", " ", "B">>, 8, "en"), Hit("TR_ADDRESS", <<"B", " ", "K", "a">>, 7, "tr")},
              [always |-> {<<T(<<"k", "a">>)>>}, never |-> {<<T(<<"b">>)>>},
               families |-> {<<<<T(<<"k", "a">>)>>, "ORG">>}],
              {}, {<<T(<<"b">>)>>}, {<<1, <<0, 3>>, "ORG">>, <<1, <<2, 6>>, "ORG">>})

\* A company, its name shortened, and what only looks like it.
Firms == Case(<<<<T(<<"A", "b", " ", "K", "a">>), T(<<"b">>)>>,
                <<T(<<"A", "b", "K", " ", "A", "b", "k", "b">>)>>>>,
              {Hit("TR_COMPANY", <<"A", "b", " ", "K", "a">>, 7, "tr")}, NoPrefs,
              {}, {<<T(<<"a", "b", "k", "b">>)>>}, {<<1, <<3, 5>>, "PERSON">>, <<3, <<0, 3>>, "ORG">>})

\* Two detections inside a third.
Doubles == Case(<<<<T(<<"1", " ", "2", "b">>)>>>>,
              {Hit("TR_ACCOUNT", <<"1">>, 6, "tr"), Hit("PHONE_NUMBER", <<"2">>, 6, "tr"),
               Hit("DATE_TIME", <<"1", " ", "2">>, 8, "en")}, NoPrefs, {}, {}, {})
MCDoubles == {Doubles}

MCCases == {Names, Cells, Edges, Overlaps, Firms}
MCHardTerms == {<<T(<<"3", "4", "b">>)>>}
MCDocNouns == {}
============================================================================
