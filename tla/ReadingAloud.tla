---------------------------- MODULE ReadingAloud ----------------------------
(* The other readers of text: an attachment by its key, the text prepared  *)
(* for speech of an attachment, of an item or of a search result. They     *)
(* share the corpus and Zotero with the calls of open_paper.               *)
EXTENDS OpenPaper

CONSTANTS
  Readers,   \* the calls of these tools
  Items      \* what they are asked for: keys of items, or of cached papers

VARIABLE read  \* the calls of Readers

vars == <<structureVars, openVars, read>>

Reading(at, tool, item, attachment, key) ==
  [at |-> at, tool |-> tool, item |-> item, attachment |-> attachment,
   key |-> key, text |-> NoText]

NotReading == Reading("idle", NONE, NONE, NONE, NONE)

ReadTo(r, at) == read' = [read EXCEPT ![r].at = at]
Others == UNCHANGED <<structureVars, openVars>>

Gives(r, text) ==
  read' = [read EXCEPT ![r].at = "done", ![r].text = text]

-----------------------------------------------------------------------------
(* get_pdf_text, get_item_fulltext and prepare_vox_text take the key of an *)
(* attachment, and look for a paper that has this id first.                *)
KeyRequests ==
  {Reading("cached_key", tool, NONE, NONE, k) :
     k \in Attachments \cup Works, tool \in {"pdf_text", "vox_text"}}

(* prepare_item_for_vox: an item's attachment or, unless one is named, the  *)
(* cached paper that has this id.                                          *)
ItemRequests ==
  {Reading(IF a = NONE THEN "cached_item" ELSE "item", "item", i, a, NONE) :
     i \in Items, a \in Attachments \cup {NONE}}

(* prepare_search_result_for_vox: the hit of papers that was chosen is a   *)
(* cached paper, or Zotero is searched and the item prepared.              *)
ResultRequests ==
  {Reading(at, "result", i, NONE, NONE) :
     at \in {"cached_hit", "cached_item"}, i \in Items}

(* Neither knows the query: the best cached text, which is no item's.      *)
QueryRequests == {Reading("query", "result", NONE, NONE, NONE)}

Requests == KeyRequests \cup ItemRequests \cup ResultRequests \cup QueryRequests

CachedKey(r) ==
  /\ read[r].at = "cached_key"
  /\ IF HasText(read[r].key) THEN Gives(r, CorpusText(read[r].key))
     ELSE ReadTo(r, "text")
  /\ Others

(* try_prepare_cached_item_for_vox: the text, then its entry.              *)
CachedItem(r) ==
  /\ read[r].at \in {"cached_item", "cached_hit"}
  /\ LET found == HasText(read[r].item) IN
     \/ found /\ Gives(r, CorpusText(read[r].item))
     \/ ~found /\ ReadTo(r, IF read[r].at = "cached_hit" THEN "error" ELSE "item")
  /\ Others

(* The attachment to read, which is the one that was named.                *)
AttachmentToRead(r) ==
  LET a == SelectAttachment(read[r].attachment) IN
  IF read[r].attachment \in {NONE, a} THEN a ELSE NONE

ReadItem(r) ==
  /\ read[r].at = "item"
  /\ LET a == AttachmentToRead(r) IN
     \/ /\ a # NONE /\ read[r].item = Item
        /\ read' = [read EXCEPT ![r].at = "text", ![r].key = a]
     \/ ReadTo(r, "error")
  /\ Others

(* Only the tool for attachments asks the corpus when Zotero fails.        *)
ReadText(r) ==
  /\ read[r].at = "text"
  /\ \/ /\ read[r].key \in Attachments /\ version[read[r].key] > 0
        /\ Gives(r, [of |-> read[r].key, version |-> version[read[r].key],
                     from |-> "zotero_fulltext"])
     \/ ReadTo(r, IF read[r].tool = "vox_text" THEN "query" ELSE "error")
  /\ Others

(* try_cached_fulltext_by_query: the paper that ranks first.               *)
BestCached(r) ==
  /\ read[r].at = "query"
  /\ \/ \E w \in CachedByQuery(read[r].key) : Gives(r, CorpusText(w))
     \/ ReadTo(r, "error")
  /\ Others

-----------------------------------------------------------------------------
(* What a reader asks for is settled at the start; it goes on at any time. *)
Init == OpenInit /\ read \in [Readers -> Requests \cup {NotReading}]

ReadStep(r) ==
  \/ CachedKey(r) \/ CachedItem(r) \/ ReadItem(r) \/ ReadText(r)
  \/ BestCached(r)

Next ==
  \/ \E r \in Readers : ReadStep(r)
  \/ OpenNext /\ UNCHANGED read

Spec == Init /\ [][Next]_vars

=============================================================================
