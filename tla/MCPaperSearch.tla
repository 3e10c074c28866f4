---------------------------- MODULE MCPaperSearch ----------------------------
(* A small instance of a search for TLC: four sources, up to six hits.     *)
EXTENDS PaperSearchProperties

CONSTANTS x1, x2, bare, isbn1, p1, p2, p3, t1, t2, untitled, author, familyFirst

Joins == author :> familyFirst

Told(d, a, isbn, title, who) ==
  [ids |-> Doi :> d @@ Arxiv :> a @@ Pmid :> None, isbn |-> isbn,
   title |-> title, author |-> who]

(* Records that share a DOI, an arXiv id or a title and author, bridges    *)
(* between them, and contradictions.                                       *)
Held ==
  "semantic_scholar" :> {Told(x1, None, None, t1, None),
                         Told(None, x1, None, t2, author),
                         Told(x1, x1, None, t1, None),
                         Told(None, x1, None, t1, author),
                         Told(x2, None, None, t2, author)}
  @@ "crossref" :> {Told(x1, None, None, t2, author),
                    Told(x2, None, None, t1, None),
                    Told(bare, None, None, t2, author)}
  @@ "openalex" :> {Told(x1, None, None, t2, author),
                    Told(bare, None, None, t2, author)}
  @@ "openlibrary" :> {Told(None, None, isbn1, t1, author),
                       Told(None, None, None, t2, author)}

Known == UNION {Held[s] : s \in DOMAIN Held}

Sources ==
  UNION {{Answer(s, <<e>>, 1, i)[1] : e \in Held[s], i \in {None, isbn1}} :
           s \in DOMAIN Held}
  \cup {[Crossref(<<e>>)[1] EXCEPT !.ids[Doi] = x1] : e \in Held["crossref"]}

Copy(paper, d, a, isbn, work, title, who) ==
  [ids |-> Doi :> d @@ Arxiv :> a @@ Pmid :> None, isbn |-> isbn,
   workType |-> work, paperId |-> paper, title |-> title, author |-> who]

InCorpus == <<Copy(p1, x1, x1, None, None, t1, None),
              Copy(p2, x2, None, isbn1, "chapter", t2, author),
              Copy(p3, None, None, isbn1, None, t1, author)>>

InCorpusSet == {InCorpus[i] : i \in DOMAIN InCorpus}

InResearch == {[ids |-> [k \in Kinds |-> None], isbn |-> None, workType |-> None,
                paperId |-> None, title |-> t1, author |-> None]}

Asks(d, isbn, title, sources, cache, limit) ==
  [ids |-> Doi :> d @@ Arxiv :> None @@ Pmid :> None, isbn |-> isbn,
   title |-> title, sources |-> sources, cache |-> cache, limit |-> limit]

SmallRequests ==
  {Asks(None, None, t1, {"semantic_scholar", "crossref", "paperseed"}, "auto", 0),
   Asks(None, None, t1, {"semantic_scholar", "openalex", "paperseed"}, "auto", 2),
   Asks(None, isbn1, t2, {"openlibrary", "crossref"}, "include", 5),
   Asks(x1, None, None, None, "auto", 1),
   Asks(None, None, None, None, "off", 2),
   Asks(None, None, t2, {"paperseed"}, "auto", 1),
   Asks(None, None, t2, {"semantic_scholar", "openlibrary", "research"}, "auto", 1)}

=============================================================================
