----------------------------- MODULE MCReading ------------------------------
EXTENDS Reading

MCWords == {"ad", "not", "name", "mail", "MAIL", "gizli", "sheet"}
MCTurkish == {"ad", "not"}
MCEnglish == {"name"}
MCHard == {"mail", "MAIL"}

\* Rank 0 is a checked pattern, 1 the rank of listed terms, 2 a guess.
Pattern(term, rank) == [term |-> term, rank |-> rank]
MCKnows == {{Pattern(<<"ad">>, 0)},
            {Pattern(<<"ad">>, 2), Pattern(<<"mail">>, 0), Pattern(<<"name">>, 2), Pattern(<<"gizli", "not">>, 2)}}
MCLetters == [w \in MCWords |-> CASE w \in {"mail", "MAIL"} -> <<"m", "a", "i", "l">>
                                   [] OTHER -> <<w>>]
MCLists == {[always |-> {}, never |-> {}],
            [always |-> {<<"gizli">>}, never |-> {<<"gizli">>}],
            [always |-> {}, never |-> {<<"ad">>, <<"ad", "gizli", "not">>}]}

Upload(kind, parts) == [kind |-> kind, size |-> "fits", parts |-> parts,
                        magic |-> IF kind = "pdf" THEN "pdf" ELSE "zip",
                        package |-> "sound", margins |-> <<>>, notes |-> <<>>]
Page(text, table, image, note) == [text |-> text, table |-> table, image |-> image, note |-> note,
                                   share |-> [y \in DOMAIN image |-> 40], measured |-> TRUE]
\* A page whose images each cover a part of it, and one whose images cannot be measured.
Small(page, part) == [page EXCEPT !.share = [y \in DOMAIN page.image |-> part]]
Unsized(page) == [page EXCEPT !.measured = FALSE]
Blank == [y \in {} |-> ""]
Sheet(words) == [name |-> "sheet", cells |-> words]
Part(size, sound, words) == [size |-> size, sound |-> sound, words |-> words]

Pdfs == {
  Upload("pdf", <<Page(1 :> "ad" @@ 2 :> "mail" @@ 3 :> "gizli", {2, 3}, Blank, "not"),
                  Page(1 :> "name", {}, Blank, "broken")>>),
  Upload("pdf", <<Page(2 :> "ad", {}, 1 :> "mail", "none")>>),
  Upload("pdf", <<Page(1 :> "ad" @@ 3 :> "gizli", {}, 2 :> "mail", "none")>>),
  Upload("pdf", <<Page(Blank, {}, 1 :> "name", "none"), Page(1 :> "gizli", {1}, Blank, "none")>>),
  Upload("pdf", <<Small(Page(1 :> "ad" @@ 3 :> "name", {}, 2 :> "mail", "none"), 14)>>),
  Upload("pdf", <<Small(Page(1 :> "ad", {}, 2 :> "mail" @@ 3 :> "not", "none"), 8),
                  Small(Page(1 :> "ad" @@ 4 :> "name", {}, 2 :> "mail" @@ 3 :> "gizli", "none"), 8)>>),
  Upload("pdf", <<Unsized(Small(Page(1 :> "ad" @@ 2 :> "not", {}, 3 :> "mail", "none"), 3))>>),
  Upload("pdf", <<Page(Blank, {}, Blank, "none")>>)}

Workbooks == {
  Upload("xlsx", <<Sheet(<<"ad", "mail", "gizli">>)>>),
  [Upload("xlsx", <<Sheet(<<"ad", "name">>), Sheet(<<"gizli", "mail">>), Sheet(<<"not">>)>>)
     EXCEPT !.notes = <<Part(9, TRUE, <<"name">>), Part(1, TRUE, <<"mail", "not">>),
                        Part(1, FALSE, <<"ad">>), Part(2, TRUE, <<"gizli">>)>>],
  [Upload("xlsx", <<Sheet(<<>>), Sheet(<<"ad">>)>>)
     EXCEPT !.notes = <<Part(1, TRUE, <<"mail">>), Part(1, TRUE, <<"not", "gizli", "name">>)>>]}

Margin(label, linked, section, word) ==
  [label |-> label, linked |-> linked, section |-> section, words |-> <<word>>]
Documents == {
  [Upload("docx", <<[what |-> "heading", words |-> <<"ad">>], [what |-> "blank", words |-> <<>>],
                    [what |-> "table", words |-> <<"mail", "gizli">>]>>)
     EXCEPT !.margins = <<Margin("footer", FALSE, 1, "not"), Margin("header", FALSE, 1, "sheet"),
                          Margin("header", TRUE, 2, "sheet"), Margin("header", FALSE, 2, "not"),
                          Margin("footer", FALSE, 3, "name")>>,
            !.notes = <<"not", "ad">>],
  Upload("docx", <<[what |-> "paragraph", words |-> <<"ad", "gizli", "not">>],
                   [what |-> "paragraph", words |-> <<"not", "ad", "gizli">>],
                   [what |-> "table", words |-> <<"mail", "MAIL">>]>>),
  [Upload("docx", <<[what |-> "blank", words |-> <<>>]>>) EXCEPT !.notes = "broken"]}

Bad == {[Upload("pdf", <<>>) EXCEPT !.size = "empty"], [Upload("pdf", <<>>) EXCEPT !.size = "large"],
        [Upload("other", <<>>) EXCEPT !.magic = "pdf"], [Upload("pdf", <<>>) EXCEPT !.magic = "zip"],
        [Upload("xlsx", <<>>) EXCEPT !.package = "bomb"]}

MCFiles == Pdfs \cup Workbooks \cup Documents \cup Bad

Setting(provider, host, model, allow_remote, required, rounds, max_risk) ==
  [provider |-> provider, host |-> host, model |-> model, allow_remote |-> allow_remote,
   required |-> required, rounds |-> rounds, max_risk |-> max_risk]
MCSettings == {
  Setting("none", "localhost", "x", FALSE, FALSE, 2, "low"),
  Setting("ollama", "localhost", "x", FALSE, TRUE, 2, "low"),
  Setting("ollama", "::ffff:127.0.0.1", "x", FALSE, FALSE, 1, "medium"),
  Setting("ollama", "lan", "x", FALSE, FALSE, 2, "low"),
  Setting("ollama", "lan", "x", TRUE, FALSE, 2, "low"),
  Setting("ollama", "localhost", "x-cloud:latest", TRUE, FALSE, 1, "low")}

Verdict(approved, risk, action, items) ==
  [form |-> "verdict", approved |-> approved, risk |-> risk, action |-> action, items |-> items]
MCVerdicts == {
  Silence,
  Verdict(TRUE, "low", "approve", {}), Verdict(TRUE, "medium", "approve", {}),
  Verdict(TRUE, "low", "reanonymize", {}), Verdict(TRUE, "low", "approve", {<<"name">>}),
  Verdict(FALSE, "high", "reanonymize", {<<"gizli">>, <<"sheet">>, <<Star>>, <<"ad", "gizli">>})}
=============================================================================
