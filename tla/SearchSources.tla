---------------------------- MODULE SearchSources ----------------------------
(***************************************************************************)
(* What the clients of the thirteen sources (src/src/external/) make of    *)
(* what the sources send: which identifiers, title and author a hit has    *)
(* decides what it is merged with.  Each operator stands for one client:   *)
(* its search, its wire types and its conversion, over the entries of one  *)
(* answer.  Every client refuses a blank query and reports an answer that  *)
(* is no success or cannot be read as an error.                            *)
(***************************************************************************)
EXTENDS SearchMerge, FiniteSets

CONSTANTS
  Doi, Arxiv, Pmid,   \* the kinds of strong identifiers
  Persons,            \* authors' names in the order the source gives
  FamilyFirst,        \* the same names as Crossref's parts are joined
  UntitledBook,       \* the title of an Open Library book that has none
  Entries             \* what the sources hold about works

Entry == [ids: [Kinds -> Identifiers \cup Keyless \cup {Blank, None}],
          isbn: Isbns \cup {None},
          title: Titles \cup {Blank, None},
          author: Persons \cup {Blank, None}]

ASSUME SourcesAssumption ==
  /\ Kinds = {Doi, Arxiv, Pmid}
  /\ Persons \subseteq Authors
  /\ FamilyFirst \in [Persons -> Authors]
  /\ UntitledBook \in Titles
  /\ Entries \subseteq Entry

(* The order in which search starts the sources and lists their answers.   *)
SourceOrder ==
  <<"semantic_scholar", "crossref", "hugging_face", "arxiv", "openalex",
    "europe_pmc", "dblp", "openreview", "core", "ads", "pubmed",
    "scholarapi", "openlibrary">>

(* Sources whose client exists only when a key is configured.              *)
Keyed == {"semantic_scholar", "hugging_face", "core", "ads", "scholarapi"}

-----------------------------------------------------------------------------
Titled(e) == IF e.title = None THEN Blank ELSE e.title

(* Most clients leave out names that are empty.                            *)
Named(e) == IF e.author = Blank THEN None ELSE e.author

Hits(entries, kinds) ==
  [i \in DOMAIN entries |->
     [ids |-> [k \in Kinds |-> IF k \in kinds THEN entries[i].ids[k] ELSE None],
      isbn |-> None, workType |-> None, paperId |-> None,
      title |-> Titled(entries[i]), author |-> Named(entries[i])]]

(* DBLP and ADS hand on every name.                                        *)
Unfiltered(entries, kinds) ==
  [i \in DOMAIN entries |->
     [Hits(entries, kinds)[i] EXCEPT !.author = entries[i].author]]

SemanticScholar(entries) == Hits(entries, {Doi, Arxiv})

(* Crossref gives names in parts, which are joined family name first; an   *)
(* author without any is an empty text.                                    *)
Crossref(entries) ==
  [i \in DOMAIN entries |->
     [Hits(entries, {Doi})[i] EXCEPT
        !.author = IF entries[i].author \in Persons
                   THEN FamilyFirst[entries[i].author] ELSE entries[i].author]]

HuggingFace(entries, limit) ==
  Hits(SubSeq(entries, 1, IF limit < Len(entries) THEN limit ELSE Len(entries)),
       {Arxiv})

(* An entry without a title is left out.                                   *)
ArxivSearch(entries) ==
  Hits(SelectSeq(entries, LAMBDA e : e.title # None), {Arxiv})

(* A DOI is a link whose resolver is taken off.                            *)
OpenAlex(entries) ==
  [i \in DOMAIN entries |->
     [Hits(entries, {Doi, Pmid})[i] EXCEPT
        !.ids[Doi] = IF @ \in Keyless THEN Blank ELSE @,
        !.ids[Pmid] = IF @ = Blank THEN None ELSE @]]

EuropePmc(entries) == Hits(entries, {Doi, Pmid})

Dblp(entries) == Unfiltered(entries, {Doi})

OpenReview(entries) == Hits(entries, {})

Core(entries) == Hits(entries, {Doi})

Ads(entries) == Unfiltered(entries, {Doi})

(* The first answer lists PMIDs, the second describes the papers; an empty *)
(* DOI is none.                                                            *)
Pubmed(entries) ==
  LET listed == SelectSeq(entries, LAMBDA e : e.ids[Pmid] # None) IN
  [i \in DOMAIN listed |->
     [Hits(listed, {Doi, Pmid})[i] EXCEPT !.ids[Doi] = IF @ = Blank THEN None ELSE @]]

ScholarApi(entries) == Hits(entries, {Doi})

Book(e) ==
  [ids |-> [k \in Kinds |-> None], isbn |-> e.isbn, workType |-> "book",
   paperId |-> None, title |-> IF e.title = None THEN UntitledBook ELSE e.title,
   author |-> e.author]

OpenLibrary(entries) == [i \in DOMAIN entries |-> Book(entries[i])]

(* A book looked up by its ISBN has that ISBN and no authors.              *)
IsbnBook(e, isbn) == [Book(e) EXCEPT !.isbn = isbn, !.author = None]

OpenLibraryIsbn(entries, isbn) ==
  IF entries = <<>> THEN <<>> ELSE <<IsbnBook(entries[1], isbn)>>

Answer(source, entries, limit, isbn) ==
  CASE source = "semantic_scholar" -> SemanticScholar(entries)
    [] source = "crossref" -> Crossref(entries)
    [] source = "hugging_face" -> HuggingFace(entries, limit)
    [] source = "arxiv" -> ArxivSearch(entries)
    [] source = "openalex" -> OpenAlex(entries)
    [] source = "europe_pmc" -> EuropePmc(entries)
    [] source = "dblp" -> Dblp(entries)
    [] source = "openreview" -> OpenReview(entries)
    [] source = "core" -> Core(entries)
    [] source = "ads" -> Ads(entries)
    [] source = "pubmed" -> Pubmed(entries)
    [] source = "scholarapi" -> ScholarApi(entries)
    [] source = "openlibrary" ->
         IF isbn = None THEN OpenLibrary(entries) ELSE OpenLibraryIsbn(entries, isbn)

=============================================================================
