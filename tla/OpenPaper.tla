------------------------------ MODULE OpenPaper ------------------------------
(* open_paper: one paper, named in one of several ways, and the views of it *)
(* that are wanted, each taken from wherever its text can be had. Several   *)
(* calls run at once, a search mirrors open copies in threads of its own,   *)
(* the corpus loses papers and Zotero changes, between any two steps.       *)
EXTENDS PaperStructure

CONSTANTS
  Openers,    \* the calls that may open papers
  Askers,     \* the calls that may ask for a structure only
  Works,      \* what papers are about; also the corpus's id of the paper
  Hash,       \* a document of the research index
  Targets,    \* what calls ask for
  Asks,       \* what the other tools ask a structure of
  Views,      \* the sets of views that calls want
  Threads,    \* threads of mirror_open_access_hits
  SafeName,   \* paperseed_safe_name of every work
  BLANK       \* what holds no text: a file being written, a scanned paper

ASSUME OpenAssumption ==
  /\ Openers \cup Askers \subseteq Calls /\ Calls \cap Threads = {}
  /\ NONE \notin Works \cup {Hash, BLANK} /\ Item \notin Works
  /\ \A w \in Works : SafeName[w] # NONE

(* What a call may ask for: an attachment comes with the key of an item,    *)
(* whose own it need not be, or alone; whatever is named by an identifier  *)
(* is one of the works. The key of an item may be that of a cached paper.  *)
ASSUME TargetsAssumption ==
  \A t \in Targets :
    /\ t.kind = "identity" => t.id \in Works
    /\ t.kind = "item" => t.id \in {Item} \cup Works
    /\ t.kind \notin {"item", "attachment"} =>
         t.attachment = NONE /\ t.id # NONE

ASSUME AsksAssumption ==
  \A ask \in Asks : ask.item \in {Item} \cup Works

VARIABLES
  corpus,    \* what the text of every cached paper is about
  incoming,  \* the files of corpus/incoming
  mirror,    \* the downloads into incoming, of calls and of threads
  open       \* the calls of open_paper

openVars == <<corpus, incoming, mirror, open>>

(* A target names a work by an identifier or as a paper of the corpus, a    *)
(* Zotero item (with an attachment or without), an attachment, a document. *)
TargetOf(kind, id, attachment) ==
  [kind |-> kind, id |-> id, attachment |-> attachment]

NoText == [of |-> NONE, version |-> 0, from |-> NONE]
NotOpen == [at |-> "idle", target |-> NONE, views |-> {}, for |-> NONE,
            paper |-> NONE, attachment |-> NONE, origin |-> NONE,
            text |-> NoText, said |-> NONE, structure |-> NoText,
            structureSaid |-> NONE]

Mirrors == Calls \cup Threads
Kind(c) == open[c].target.kind
Id(c) == open[c].target.id
HasEntry(w) == w \in Works /\ corpus[w] # NONE

HasText(w) == HasEntry(w) /\ corpus[w] # BLANK
CorpusText(w) == [of |-> corpus[w], version |-> 0, from |-> "paperseed_fulltext"]

Step(c, at) == open' = [open EXCEPT ![c].at = at]
Apart == UNCHANGED <<structureVars, corpus, incoming, mirror>>

-----------------------------------------------------------------------------
(* Mistake: the origin that an earlier attempt noted stays.                *)
FirstOrigin(c, t) == IF open[c].origin = NONE THEN t.from ELSE open[c].origin

(* What content_provenance will say of a text.                             *)
Origin(c, t) == t.from

(* A view that fails ends the call, except the table of contents.          *)
Text(c, t, paper) ==
  open' = [open EXCEPT
    ![c].text = t, ![c].paper = paper, ![c].origin = Origin(c, t),
    ![c].at = CASE open[c].for = "toc" -> "read"
                [] open[c].for = "read" -> "say"
                [] OTHER -> "build"]

NoTextFound(c) == Step(c, IF open[c].for = "toc" THEN "read" ELSE "error")

(* resolve_open_targets and the checks of the views; a paper of the corpus *)
(* must be there.                                                          *)
Request(c) ==
  /\ c \in Openers /\ open[c].at = "idle" /\ parse[c].at = "idle"
  /\ \E t \in Targets, v \in Views :
       LET known == t.kind = "paper" => HasEntry(t.id) IN
       open' = [open EXCEPT ![c] = [NotOpen EXCEPT
         !.at = IF known THEN "metadata" ELSE "error",
         !.target = t, !.views = v, !.attachment = t.attachment,
         !.paper = IF t.kind = "paper" THEN t.id ELSE NONE]]
  /\ Apart

(* The other tools ask for the structure of an item and nothing else.      *)
RequestStructure(c) ==
  /\ c \in Askers /\ open[c].at = "idle" /\ parse[c].at = "idle"
  /\ \E ask \in Asks :
       parse' = [parse EXCEPT ![c] = Asked(ask.item, ask.attachment)]
  /\ UNCHANGED <<version, grobid, cache, openVars>>

(* A DOI that does not resolve is reported, an item that Zotero does not   *)
(* give or a paper that left the corpus meanwhile ends the call.           *)
MetadataMissing(c) ==
  /\ "metadata" \in open[c].views
  /\ \/ Kind(c) \in {"item", "attachment"}
     \/ Kind(c) = "paper" /\ ~HasEntry(Id(c))

Metadata(c) ==
  /\ open[c].at = "metadata"
  /\ \/ MetadataMissing(c) /\ Step(c, "error")
     \/ /\ MetadataMissing(c) => Kind(c) = "attachment" \/ Id(c) = Item
        /\ Step(c, "toc")
  /\ Apart

(* The table of contents comes from Open Library or from the text.         *)
Toc(c) ==
  /\ open[c].at = "toc"
  /\ \/ /\ "toc" \notin open[c].views \/ Kind(c) = "identity"
        /\ Step(c, "read")
     \/ /\ "toc" \in open[c].views
        /\ open' = [open EXCEPT ![c].at = "text", ![c].for = "toc"]
  /\ Apart

Read(c) ==
  /\ open[c].at = "read"
  /\ IF "fulltext" \notin open[c].views THEN Step(c, "structure")
     ELSE IF open[c].text # NoText THEN Step(c, "say")
     ELSE open' = [open EXCEPT ![c].at = "text", ![c].for = "read"]
  /\ Apart

(* A chapter that is not in the text ends the call.                        *)
Say(c) ==
  /\ open[c].at = "say"
  /\ \/ open' = [open EXCEPT ![c].at = "structure", ![c].said = open[c].origin]
     \/ Step(c, "error")
  /\ Apart

-----------------------------------------------------------------------------
(* The files of a work in the research workspace, put together.            *)
ResearchBundle(hash) == [of |-> hash, version |-> 0, from |-> "research_fulltext"]

(* resolve_fulltext_for_open: the first of these that the call has.        *)
ResearchText(c) ==
  /\ open[c].at = "text" /\ Kind(c) = "research"
  /\ \/ Text(c, ResearchBundle(Id(c)), NONE)
     \/ NoTextFound(c)
  /\ Apart

(* An attachment key may be the id of a cached paper.                      *)
AttachmentText(c) ==
  /\ open[c].at = "text" /\ open[c].attachment # NONE
  /\ IF HasText(open[c].attachment)
     THEN Text(c, CorpusText(open[c].attachment), open[c].attachment)
     ELSE open' = [open EXCEPT ![c].at = "pdf_text",
                               ![c].origin = "zotero_fulltext"]
  /\ Apart

PaperText(c) ==
  /\ open[c].at = "text" /\ Kind(c) = "paper"
  /\ IF HasText(Id(c)) THEN Text(c, CorpusText(Id(c)), Id(c))
     ELSE NoTextFound(c)
  /\ Apart

ItemText(c) ==
  /\ open[c].at = "text" /\ Kind(c) = "item" /\ open[c].attachment = NONE
  /\ LET a == SelectAttachment(NONE) IN
     \/ Id(c) = Item /\ a # NONE /\ open' = [open EXCEPT
          ![c].at = "pdf_text", ![c].attachment = a,
          ![c].origin = "zotero_fulltext"]
     \/ NoTextFound(c)
  /\ Apart

PdfText(c) ==
  /\ open[c].at = "pdf_text"
  /\ \/ /\ open[c].attachment \in Attachments
        /\ version[open[c].attachment] > 0
        /\ Text(c, [of |-> open[c].attachment, from |-> "zotero_fulltext",
                    version |-> version[open[c].attachment]], NONE)
     \/ NoTextFound(c)
  /\ Apart

(* Mistake: a paper that ranks first answers for the one asked for.        *)
CachedByQuery(d) == {w \in Works : HasText(w)}

(* An entry has the DOI, arXiv id, address or ISBN that is asked for, each *)
(* in its normal form; the ISBN of a chapter is that of its book.          *)
EntryMatches(w, d) == w = d

(* find_cached_identity, then the paper's text.                            *)
CachedIdentity(d) == {w \in Works : EntryMatches(w, d) /\ HasText(w)}

(* By identifier: the corpus, before a copy is mirrored and after.         *)
IdentityText(c) ==
  /\ open[c].at \in {"text", "again"}
  /\ Kind(c) = "identity" /\ open[c].paper = NONE
  /\ IF CachedIdentity(Id(c)) # {}
     THEN /\ \E w \in CachedIdentity(Id(c)) : Text(c, CorpusText(w), w)
          /\ UNCHANGED mirror
     ELSE IF open[c].at = "text"
     THEN /\ mirror' = [mirror EXCEPT ![c] = [at |-> "fetch", work |-> Id(c)]]
          /\ Step(c, "mirror")
     ELSE Step(c, "download") /\ UNCHANGED mirror
  /\ UNCHANGED <<structureVars, corpus, incoming>>

(* download_open_fulltext: a PDF that cannot be had or read ends the view. *)
Download(c) ==
  /\ open[c].at = "download"
  /\ \/ Text(c, [of |-> Id(c), version |-> 0, from |-> "direct_pdf_text"], NONE)
     \/ NoTextFound(c)
  /\ Apart

-----------------------------------------------------------------------------
(* mirror_open_access_hit: fetch the copy, write it under a name made from *)
(* the identifier, import that file as the paper that was asked for.       *)
FromCall(m, at) ==
  open' = IF m \in Calls THEN [open EXCEPT ![m].at = at] ELSE open

MirrorTo(m, at) == mirror' = [mirror EXCEPT ![m].at = at]
NotMirroring == [at |-> "idle", work |-> NONE]

IncomingFile(w) == SafeName[w]

MirrorFails(m) ==
  /\ mirror[m].at \in {"fetch", "ingest"}
  /\ mirror[m].at = "ingest" => incoming[IncomingFile(mirror[m].work)] = BLANK
  /\ mirror' = [mirror EXCEPT ![m] = NotMirroring]
  /\ FromCall(m, "download")
  /\ UNCHANGED <<structureVars, corpus, incoming>>

MirrorWrites(m) ==
  /\ mirror[m].at = "fetch"
  /\ incoming' = [incoming EXCEPT ![IncomingFile(mirror[m].work)] = BLANK]
  /\ MirrorTo(m, "write")
  /\ UNCHANGED <<structureVars, corpus, open>>

MirrorWritten(m) ==
  /\ mirror[m].at = "write"
  /\ incoming' = [incoming EXCEPT ![IncomingFile(mirror[m].work)] =
                    mirror[m].work]
  /\ MirrorTo(m, "ingest")
  /\ UNCHANGED <<structureVars, corpus, open>>

(* What the file holds now; a scan has no text.                            *)
MirrorIngests(m) ==
  LET w == mirror[m].work
      content == incoming[IncomingFile(w)] IN
  /\ mirror[m].at = "ingest" /\ content # BLANK
  /\ \E held \in {content, BLANK} : corpus' = [corpus EXCEPT ![w] = held]
  /\ mirror' = [mirror EXCEPT ![m] = NotMirroring]
  /\ FromCall(m, "again")
  /\ UNCHANGED <<structureVars, incoming>>

(* A search mirrors what it found and the corpus did not have.             *)
ThreadStarts(t) ==
  /\ mirror[t].at = "idle"
  /\ \E w \in Works :
       /\ ~HasEntry(w)
       /\ mirror' = [mirror EXCEPT ![t] = [at |-> "fetch", work |-> w]]
  /\ UNCHANGED <<structureVars, corpus, incoming, open>>

RemoveEntry(w) ==
  /\ HasEntry(w)
  /\ corpus' = [corpus EXCEPT ![w] = NONE]
  /\ UNCHANGED <<structureVars, incoming, mirror, open>>

-----------------------------------------------------------------------------
(* Mistake: the structure of the item's first PDF, whichever was read.     *)
NoPreference(c) == NONE

(* The attachment that was asked for, or that the text came from.          *)
Preference(c) == open[c].attachment

(* try_cached_paper_structure: unless an attachment is named, the paper    *)
(* that the corpus has under this key. One without a text, or removed by   *)
(* the time that it is read, has no sections.                              *)
ConsultCorpus(c) ==
  /\ parse[c].at = "asked"
  /\ To(c, IF parse[c].prefer = NONE /\ HasEntry(parse[c].item)
           THEN "cached" ELSE "get_item")
  /\ UNCHANGED <<version, grobid, cache, openVars>>

TakeCached(c) ==
  /\ parse[c].at = "cached"
  /\ LET w == parse[c].item IN
     parse' = [parse EXCEPT ![c].at = "done", ![c].attachment = w,
                            ![c].about = IF HasText(w) THEN corpus[w] ELSE BLANK,
                            ![c].source = "paperseed_fulltext"]
  /\ UNCHANGED <<version, grobid, cache, openVars>>

(* resolve_structure_for_open: an item goes through get_paper_structure.   *)
ItemStructure(c) ==
  /\ open[c].at = "structure" /\ "structure" \in open[c].views
  /\ Kind(c) = "item"
  /\ parse' = [parse EXCEPT ![c] = Asked(Id(c), Preference(c))]
  /\ Step(c, "parsing")
  /\ UNCHANGED <<version, grobid, cache, corpus, incoming, mirror>>

(* Where a structure is said to come from.                                 *)
SaidOf(source) ==
  CASE source = "grobid" -> "zotero_pdf_text"
    [] source = "paperseed_fulltext" -> "paperseed_fulltext"
    [] OTHER -> "zotero_fulltext"

Parsed(c) ==
  /\ open[c].at = "parsing" /\ parse[c].at \in {"done", "error"}
  /\ open' = IF parse[c].at = "error" THEN [open EXCEPT ![c].at = "error"]
       ELSE [open EXCEPT
         ![c].at = "done", ![c].attachment = parse[c].attachment,
         ![c].structure = [of |-> parse[c].about, version |-> parse[c].of,
                           from |-> parse[c].source],
         ![c].structureSaid = SaidOf(parse[c].source)]
  /\ Apart

(* A paper that the call knows or, unless a text is open, finds by its     *)
(* identity; otherwise the open text, which may have to be found first.    *)
OtherStructure(c) ==
  /\ open[c].at = "structure" /\ "structure" \in open[c].views
  /\ Kind(c) # "item"
  /\ LET paper == IF open[c].paper = NONE /\ open[c].text = NoText
                     /\ Kind(c) = "identity"
                  THEN Id(c) ELSE open[c].paper IN
     \/ /\ HasEntry(paper)
        /\ open' = [open EXCEPT ![c].at = "cached", ![c].paper = paper,
                                ![c].origin = "paperseed_fulltext"]
     \/ /\ ~HasEntry(paper)
        /\ open' = [open EXCEPT ![c].for = "structure",
             ![c].at = IF open[c].text = NoText THEN "text" ELSE "build"]
  /\ Apart

Built(c, text) ==
  open' = [open EXCEPT ![c].at = "done", ![c].structure = text,
                       ![c].structureSaid = open[c].origin]

(* A cached paper without a text, or removed by now, has no sections.      *)
CachedStructure(c) ==
  /\ open[c].at = "cached"
  /\ LET w == open[c].paper IN
     Built(c, IF HasText(w) THEN CorpusText(w)
              ELSE [of |-> BLANK, version |-> 0, from |-> "paperseed_fulltext"])
  /\ Apart

BuildStructure(c) ==
  /\ open[c].at = "build"
  /\ IF HasEntry(open[c].paper) THEN Step(c, "cached")
     ELSE Built(c, open[c].text)
  /\ Apart

NoStructureWanted(c) ==
  /\ open[c].at = "structure" /\ "structure" \notin open[c].views
  /\ Step(c, "done")
  /\ Apart

-----------------------------------------------------------------------------
OpenInit ==
  /\ StructureInit
  /\ corpus \in [Works -> Works \cup {NONE, BLANK}]
  /\ \A w \in Works : corpus[w] \in {w, NONE, BLANK}
  /\ incoming = [f \in {SafeName[w] : w \in Works} |-> NONE]
  /\ mirror = [m \in Mirrors |-> NotMirroring]
  /\ open = [c \in Calls |-> NotOpen]

OpenStep(c) ==
  \/ Request(c) \/ Metadata(c) \/ Toc(c) \/ Read(c) \/ Say(c)
  \/ ResearchText(c) \/ AttachmentText(c) \/ PaperText(c) \/ ItemText(c)
  \/ PdfText(c) \/ IdentityText(c) \/ Download(c)
  \/ ItemStructure(c) \/ Parsed(c) \/ OtherStructure(c)
  \/ CachedStructure(c) \/ BuildStructure(c) \/ NoStructureWanted(c)

MirrorStep(m) ==
  MirrorFails(m) \/ MirrorWrites(m) \/ MirrorWritten(m) \/ MirrorIngests(m)

OpenNext ==
  \/ \E c \in Calls : OpenStep(c) \/ RequestStructure(c)
  \/ (\E c \in Calls : StructureStep(c)) /\ UNCHANGED openVars
  \/ \E c \in Calls : ConsultCorpus(c) \/ TakeCached(c)
  \/ \E m \in Mirrors : MirrorStep(m)
  \/ \E t \in Threads : ThreadStarts(t)
  \/ \E w \in Works : RemoveEntry(w)
  \/ Outside /\ UNCHANGED openVars

=============================================================================
