\* Seven requests to four sources.
SPECIFICATION FairSearch
CONSTANTS
  Doi = doi
  Arxiv = arxiv
  Pmid = pmid
  x1 = x1
  x2 = x2
  bare = bare
  isbn1 = isbn1
  p1 = p1
  p2 = p2
  p3 = p3
  t1 = t1
  t2 = t2
  untitled = untitled
  author = author
  familyFirst = familyFirst
  Blank = Blank
  None = None
  Kinds = {doi, arxiv, pmid}
  Identifiers = {x1, x2}
  Keyless = {bare}
  Isbns = {isbn1}
  PaperIds = {p1, p2, p3}
  Titles = {t1, t2, untitled}
  Authors = {author, familyFirst}
  Persons = {author}
  FamilyFirst <- Joins
  UntitledBook = untitled
  Entries <- Known
  External <- Sources
  Cached <- InCorpusSet
  MaxCached = 2
  Present = {"semantic_scholar", "crossref", "openalex", "openlibrary"}
  Holds <- Held
  Requests <- SmallRequests
  Copies <- InCorpus
  ResearchHits <- InResearch
  DefaultPage = 2
  MaxPage = 3
  MaxFetch = 2
CHECK_DEADLOCK FALSE
INVARIANTS
  NoTwoAlike
  IdentifiersAgree
  EverySourceAccounted
  NothingLost
  PagesCoverOnce
PROPERTIES
  MergeSpec
  SearchEnds
