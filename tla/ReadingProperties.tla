-------------------------- MODULE ReadingProperties --------------------------
(* What the readers of papers promise, whoever else changes the corpus and  *)
(* Zotero meanwhile.                                                        *)
EXTENDS ReadingAloud

-----------------------------------------------------------------------------
(* A text is of what was named: the work, the attachment, or an attachment *)
(* of the item if none is named with it.                                    *)
TextRequested(c, of) ==
  LET t == open[c].target IN
  CASE t.kind = "attachment" \/ (t.kind = "item" /\ t.attachment # NONE) ->
         of = t.attachment
    [] t.kind = "item" /\ t.attachment = NONE -> of \in ItemAttachments
    [] OTHER -> of = t.id

(* A structure is asked for by an item: of the attachment that is named, or *)
(* else of an attachment of the item, or of the cached paper of this key.   *)
(* An attachment that the item does not have, or no longer, gives way to    *)
(* one of the item: get_paper_structure does not check what                 *)
(* prepare_item_for_vox checks (service.rs:1215, service.rs:1600).          *)
Answers(item, attachment, of) ==
  IF item # Item THEN attachment = NONE /\ of = item
  ELSE IF attachment \in ItemAttachments /\ version[attachment] > 0
       THEN of = attachment ELSE of \in ItemAttachments

StructureRequested(c, of) ==
  LET t == open[c].target IN
  IF t.kind = "item" THEN Answers(t.id, t.attachment, of) ELSE TextRequested(c, of)

(* A text or a structure is of the paper that was named, also when it was   *)
(* mirrored while other downloads went on and papers came and went: a       *)
(* neighbour in the corpus never answers for it (service.rs:653,            *)
(* paperseed_api.rs:335), nor another attachment of the item but in the     *)
(* case that Answers excepts. It rests on file names that differ.           *)
OpenedIsRequested ==
  /\ \A c \in Calls :
       /\ open[c].text.of \notin {NONE, BLANK} => TextRequested(c, open[c].text.of)
       /\ open[c].structure.of \notin {NONE, BLANK} =>
            StructureRequested(c, open[c].structure.of)
  /\ \A c \in Askers :
       parse[c].at = "done" /\ parse[c].about # BLANK =>
         Answers(parse[c].item, parse[c].prefer, parse[c].about)

(* The text and the structure of one answer are of the same attachment,     *)
(* unless it is not the item's, which the text is taken from and the        *)
(* structure is not, or is gone from Zotero by then (service.rs:742).       *)
OneDocument ==
  \A c \in Calls :
    /\ open[c].at = "done" /\ Kind(c) = "item"
    /\ open[c].text # NoText /\ open[c].structure # NoText
    => \/ open[c].text.of = open[c].structure.of
       \/ open[c].text.of \notin ItemAttachments
       \/ version[open[c].text.of] = 0

(* The answer says truly where its text and its structure come from, though *)
(* views that were tried before may have failed (service.rs:2273).          *)
ProvenanceTrue ==
  \A c \in Calls :
    /\ open[c].said # NONE => open[c].said = open[c].text.from
    /\ open[c].at = "done" /\ open[c].structure # NoText =>
         open[c].structureSaid =
           CASE open[c].structure.from = "grobid" -> "zotero_pdf_text"
             [] open[c].structure.from = "grobid_unavailable" -> "zotero_fulltext"
             [] OTHER -> open[c].structure.from

(* A structure is never of an older file than the one the call saw in the   *)
(* item: the cache is read and filled under separate locks (service.rs:1229).*)
StructureFresh ==
  \A c \in Calls :
    parse[c].at = "done" => parse[c].of >= parse[c].version

(* Whoever names an attachment of an item hears that one                    *)
(* (service.rs:1600).                                                       *)
HeardIsNamed ==
  \A r \in Readers :
    read[r].tool = "item" /\ read[r].attachment # NONE /\ read[r].at = "done"
    => read[r].text.of = read[r].attachment

(* Whoever names a work, an item or an attachment, to open it or to hear    *)
(* it, gets that one and no neighbour in the corpus (service.rs:653); and   *)
(* no other attachment of the item, but for the structure of one that the   *)
(* item does not have (Answers). Whoever wants to hear it is told so        *)
(* (service.rs:1600).                                                       *)
NamedIsRead == OpenedIsRequested /\ HeardIsNamed

-----------------------------------------------------------------------------
(* "Identifier reads must never use query matches as identity evidence"     *)
(* (service.rs:1770): the text of a key is of that key.                     *)
KeyReadsItself ==
  \A r \in Readers :
    read[r].tool \in {"pdf_text", "vox_text"} /\ read[r].at = "done"
    => read[r].text.of = read[r].key

=============================================================================
