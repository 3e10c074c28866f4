\* Short books and technical texts, page by page, documents and plain texts
\* that become structures, and outlines of structures.
SPECIFICATION MCSpec
CONSTANTS
  Headings <- MCHeadings
  TocSpacing = 4
  Contents <- MCContents
  Beside <- MCBeside
  Requests <- MCRequests
  Widths <- MCWidths
  MaxDepth = 2
  MaxSections = 5
  Excerpt = 1
  NodeSlack = 2
  MaxNodes = 10
  Structures <- MCStructures
  Selectors <- MCSelectors
  Budgets = {1, 4, 30}
  Grammars <- MCGrammars
  MaxElements = 6
  MaxTexts = 2
  HeadingKinds = {"abstract", "references", "method"}
  MaxLines = 4
INVARIANTS
  ChunksFaithful
  PagesCover
  ChaptersTile
  OutlineAccounts
  StructureKept
  LinesSectioned
CHECK_DEADLOCK FALSE
