--------------------------- MODULE Reading_proofs ---------------------------
(* What the readers of papers promise holds for any number of calls,        *)
(* threads, papers and attachments, in any order of their steps.            *)
EXTENDS ReadingProperties, WellFoundedInduction, TLAPS

(* A record of these fields; what they hold matters only where it is read.  *)
Fits(o, fields) == o = [f \in fields |-> o[f]]

-----------------------------------------------------------------------------
(* The structures. A call that works on an attachment saw it at a version   *)
(* that Zotero still has or has passed; only a version at least as new is   *)
(* parsed, and so is whatever the cache answers with.                       *)
Sources == {"grobid", "grobid_unavailable", "zotero_fulltext"}
Starting == {"asked", "cached", "get_item"}
Seen == {"look_up", "probe", "spawn", "wait", "alive", "process", "text", "insert"}
ParseFields == {"at", "item", "prefer", "attachment", "version", "about", "of", "source"}

NamesDiffer == \A v, w \in Works : SafeName[v] = SafeName[w] => v = w

Chosen(p) ==
  /\ p.item = Item
  /\ p.attachment \in ItemAttachments /\ p.about = p.attachment
  /\ p.prefer \in ItemAttachments => p.attachment = p.prefer \/ version[p.prefer] = 0

(* The cached paper that has this key, unless an attachment is named.       *)
FromCorpus(p) ==
  /\ p.item \in Works /\ p.prefer = NONE
  /\ p.version = 0 /\ p.source = "paperseed_fulltext"
  /\ NamesDiffer => p.about \in {p.item, BLANK}

ParseOK(p) ==
  /\ Fits(p, ParseFields)
  /\ p.version \in Nat /\ p.of \in Nat
  /\ p.at \in Starting => p.version = 0
  /\ p.at = "cached" => p.item \in Works /\ p.prefer = NONE
  /\ p.at \in Seen => Chosen(p)
  /\ p.at \in Seen =>
       version[p.attachment] = 0 \/ version[p.attachment] >= p.version
  /\ p.at \in {"insert", "done"} => p.of >= p.version
  /\ p.at = "insert" => p.source \in Sources
  /\ p.at = "done" => (Chosen(p) /\ p.source \in Sources) \/ FromCorpus(p)

(* What a call asks for stays as it was.                                    *)
SameRequest(p, q) == q.item = p.item /\ q.prefer = p.prefer

CacheOK(s) ==
  s.version \in Nat /\ s.of \in Nat /\ s.of >= s.version /\ s.source \in Sources

StructureInv ==
  /\ version \in [Attachments -> Nat]
  /\ Fits(parse, Calls)
  /\ \A c \in Calls : ParseOK(parse[c])
  /\ \A s \in cache : CacheOK(s)

-----------------------------------------------------------------------------
(* The corpus. Where the names of the files tell the works apart, a mirror  *)
(* imports from incoming what it wrote, or another mirror of the same work: *)
(* a paper of the corpus has the text of the paper that it is cached as.    *)
MirrorOK(m) ==
  /\ Fits(mirror[m], {"at", "work"})
  /\ mirror[m].at # "idle" => mirror[m].work \in Works
  /\ mirror[m].at # "idle" /\ m \in Calls => open[m].at = "mirror"
  /\ NamesDiffer /\ mirror[m].at \in {"write", "ingest"} =>
       incoming[SafeName[mirror[m].work]] \in {mirror[m].work, BLANK}

CorpusInv ==
  /\ Fits(corpus, Works)
  /\ NamesDiffer => \A w \in Works : corpus[w] \in {w, NONE, BLANK}
  /\ Fits(incoming, {SafeName[w] : w \in Works})
  /\ Fits(mirror, Mirrors)
  /\ \A m \in Mirrors : MirrorOK(m)

-----------------------------------------------------------------------------
(* The calls of open_paper. An attempt that failed leaves an origin behind, *)
(* which is read only where a text has been found.                          *)
OpenFields ==
  {"at", "target", "views", "for", "paper", "attachment", "origin", "text",
   "said", "structure", "structureSaid"}

Seeking == {"text", "pdf_text", "mirror", "again", "download"}

Found(o) == o.at \in {"read", "say", "structure", "build"} /\ o.text # NoText

Told(s) ==
  CASE s.from = "grobid" -> "zotero_pdf_text"
    [] s.from = "grobid_unavailable" -> "zotero_fulltext"
    [] OTHER -> s.from

Origins == {"paperseed_fulltext", "zotero_fulltext", "research_fulltext",
            "direct_pdf_text"}

Whence(o) ==
  /\ o.at \in {"metadata", "toc"} \cup Seeking => o.text = NoText
  /\ o.at \in {"say", "build"} => o.text # NoText
  /\ Found(o) => o.origin = o.text.from /\ o.text.from \in Origins
  /\ Found(o) /\ o.paper # NONE => o.text.from = "paperseed_fulltext"
  /\ o.said # NONE => o.text # NoText /\ o.said = o.text.from
  /\ o.at = "cached" => o.origin = "paperseed_fulltext"
  /\ o.at # "done" => o.structure = NoText
  /\ o.structure # NoText => o.structureSaid = Told(o.structure)

(* Of which paper a text and a structure are. Until the structure is there, *)
(* the attachment of a call for an item is the one that is named or chosen. *)
Named(t) == IF t.kind = "attachment" THEN t.attachment ELSE t.id

MayRead(t) ==
  IF t.attachment = NONE THEN ItemAttachments \cup {NONE} ELSE {t.attachment}

TextOf(t, x) ==
  x.of \notin {NONE, BLANK} =>
    IF t.kind = "item" THEN x.of \in MayRead(t) ELSE x.of = Named(t)

StructureOf(t, x) ==
  x.of \notin {NONE, BLANK} =>
    IF t.kind = "item" THEN Answers(t.id, t.attachment, x.of) ELSE x.of = Named(t)

Whose(o) ==
  LET t == o.target IN
  /\ TextOf(t, o.text) /\ StructureOf(t, o.structure)
  /\ IF t.kind = "item" THEN o.at # "done" => o.attachment \in MayRead(t)
     ELSE o.attachment = t.attachment /\ o.paper \in {NONE, Named(t)}
  /\ t.kind = "item" /\ o.text # NoText /\ o.at # "done" =>
       o.text.of = o.attachment /\ o.attachment # NONE
  /\ o.at \in {"cached", "build"} => t.kind # "item"
  /\ o.at \in Seeking /\ o.for \notin {"toc", "read"} => t.kind # "item"
  /\ o.at = "pdf_text" => t.kind \in {"item", "attachment"}
  /\ o.at = "parsing" => t.kind = "item"

Matching(o) ==
  o.at = "done" /\ o.target.kind = "item" /\ o.text # NoText /\ o.structure # NoText =>
    \/ o.text.of = o.structure.of
    \/ o.text.of \notin ItemAttachments
    \/ version[o.text.of] = 0

Opened(o) ==
  /\ Fits(o, OpenFields) /\ o.target \in Targets /\ o.at # "idle"
  /\ o.at \in {"mirror", "again", "download"} => o.target.kind = "identity"
  /\ Whence(o)
  /\ NamesDiffer => Whose(o) /\ Matching(o)

Asking(o, p) == p.item = o.target.id /\ p.prefer = o.attachment

OpenOK(c) ==
  /\ open[c] = NotOpen \/ Opened(open[c])
  /\ open[c].at = "parsing" => Asking(open[c], parse[c])

OpenInv == Fits(open, Calls) /\ \A c \in Calls : OpenOK(c)

ReadingInv == StructureInv /\ CorpusInv /\ OpenInv

-----------------------------------------------------------------------------
(* The other readers: the attachment that was named is kept, and no cached  *)
(* text is taken for it.                                                    *)
ReadFields == {"at", "tool", "item", "attachment", "key", "text"}

HearsNamed(q) ==
  q.tool = "item" /\ q.attachment # NONE =>
    /\ q.at \in {"idle", "item", "text", "done", "error"}
    /\ q.at = "text" => q.key = q.attachment
    /\ q.at = "done" => q.text.of = q.attachment

ReadersInv ==
  /\ Fits(read, Readers)
  /\ \A r \in Readers : Fits(read[r], ReadFields) /\ HearsNamed(read[r])
-----------------------------------------------------------------------------
(* A set of naturals has a least member, which Min is.                      *)
LEMMA MinOfNats ==
  ASSUME NEW S \in SUBSET Nat, S # {}
  PROVE  Min(S) \in S
<1> DEFINE R == {ss \in Nat \X Nat : ss[1] < ss[2]}
           Least(z) == z \in S /\ \A y \in S : z =< y
<1>1. IsWellFoundedOn(R, Nat)
  BY NatLessThanWellFounded, Zenon DEF OpToRel
<1>2. \A x, y \in Nat : <<y, x>> \in R <=> y < x
  OBVIOUS
<1> HIDE DEF R
<1>3. PICK x \in S : \A y \in S : ~(<<y, x>> \in R)
  BY <1>1, WFMin
<1>4. ASSUME NEW y \in S PROVE x =< y
  <2>1. x \in Nat /\ y \in Nat
    OBVIOUS
  <2>2. ~(y < x)
    BY <2>1, <1>2, <1>3
  <2> QED BY <2>1, <2>2
<1>5. Least(x)
  BY <1>4
<1> HIDE DEF Least
<1>6. Least(CHOOSE z : Least(z))
  BY <1>5, Zenon
<1>7. Least(CHOOSE z \in S : \A y \in S : z =< y)
  BY <1>6 DEF Least
<1> QED BY <1>7 DEF Min, Least

LEMMA FirstIsOfThem ==
  ASSUME NEW S \in SUBSET ItemAttachments
  PROVE  IF S = {} THEN FirstOf(S) = NONE ELSE FirstOf(S) \in S
<1> DEFINE at == {i \in DOMAIN Listed : Listed[i] \in S}
<1>1. Listed \in Seq(ItemAttachments)
  BY StructureAssumption
<1>2. at \subseteq Nat
  BY <1>1
<1>3. at = {} <=> S = {}
  BY DEF ItemAttachments, ToSet
<1>4. CASE at = {}
  BY <1>3, <1>4 DEF FirstOf
<1>5. CASE at # {}
  <2>1. Min(at) \in at
    BY <1>2, <1>5, MinOfNats
  <2>2. FirstOf(S) = Listed[Min(at)]
    BY <1>5 DEF FirstOf
  <2> QED BY <1>3, <1>5, <2>1, <2>2
<1> QED BY <1>4, <1>5

(* select_attachment_for_reading gives an attachment that Zotero has, and   *)
(* the one that was asked for if it has that.                               *)
LEMMA SelectedIsThere ==
  ASSUME NEW prefer, SelectAttachment(prefer) # NONE
  PROVE  LET a == SelectAttachment(prefer) IN
         /\ a \in ItemAttachments /\ version[a] > 0
         /\ prefer \in ItemAttachments => a = prefer \/ ~(version[prefer] > 0)
<1> DEFINE there == {a \in ItemAttachments : version[a] > 0}
<1>1. \A S \in SUBSET there : S = {} \/ FirstOf(S) \in there
  BY FirstIsOfThem
<1>2. there # {} \/ SelectAttachment(prefer) = NONE
  <2>1. there = {} => there \cap Pdfs = {} /\ FirstOf(there) = NONE
    BY FirstIsOfThem
  <2> QED BY <2>1 DEF SelectAttachment
<1>3. there \cap Pdfs \in SUBSET there /\ there \in SUBSET there
  OBVIOUS
<1>4. SelectAttachment(prefer) \in there
  BY <1>1, <1>2, <1>3 DEF SelectAttachment
<1>5. prefer \in there => SelectAttachment(prefer) = prefer
  BY DEF SelectAttachment
<1> QED BY <1>4, <1>5
-----------------------------------------------------------------------------
LEMMA ChangeParse ==
  ASSUME StructureInv, version' = version, \A s \in cache' : CacheOK(s),
         NEW c \in Calls, NEW p, ParseOK(p), parse' = [parse EXCEPT ![c] = p]
  PROVE  StructureInv'
<1>1. Fits(parse', Calls) /\ \A d \in Calls : parse'[d] = IF d = c THEN p ELSE parse[d]
  BY DEF StructureInv, Fits
<1>2. \A d \in Calls : ParseOK(parse'[d])
  BY <1>1 DEF StructureInv
<1>3. \A d \in Calls : ParseOK(parse[d])'
  BY <1>2 DEF ParseOK, Chosen
<1> QED BY <1>1, <1>3 DEF StructureInv, CacheOK

LEMMA AskedIsOK ==
  ASSUME NEW item, NEW prefer
  PROVE  LET p == Asked(item, prefer) IN
         ParseOK(p) /\ p.item = item /\ p.prefer = prefer
BY DEF ParseOK, Fits, ParseFields, Asked, Idle, Seen, Starting

(* A call goes on, gives up or has inserted what it parsed.                 *)
LEMMA GoesOn ==
  ASSUME NEW p, ParseOK(p), NEW at,
         \/ at = "error"
         \/ at \in Seen \ {"insert"} /\ p.at \in Seen
         \/ at = "done" /\ p.at = "insert"
         \/ at = "get_item" /\ p.at = "asked"
         \/ at = "cached" /\ p.at = "asked" /\ p.item \in Works /\ p.prefer = NONE
  PROVE  LET q == [p EXCEPT !.at = at] IN ParseOK(q) /\ SameRequest(p, q)
<1> DEFINE q == [p EXCEPT !.at = at]
<1>1. /\ Fits(q, ParseFields) /\ q.at = at /\ q.version = p.version /\ q.of = p.of
      /\ q.item = p.item /\ q.prefer = p.prefer /\ q.attachment = p.attachment
      /\ q.about = p.about /\ q.source = p.source
  BY DEF ParseOK, Fits, ParseFields
<1> HIDE DEF q
<1>2. ParseOK(q)
  BY <1>1 DEF ParseOK, Chosen, Seen, Starting
<1> QED BY <1>1, <1>2 DEF q, SameRequest

(* What is parsed is of the version that the file has now.                  *)
LEMMA ParsesVersion ==
  ASSUME NEW p, ParseOK(p), version \in [Attachments -> Nat],
         p.at \in Seen, version[p.attachment] > 0, NEW source \in Sources
  PROVE  LET q == [p EXCEPT !.at = "insert", !.of = version[p.attachment],
                            !.source = source] IN
         ParseOK(q) /\ SameRequest(p, q)
<1> DEFINE q == [p EXCEPT !.at = "insert", !.of = version[p.attachment],
                          !.source = source]
<1>1. /\ Fits(q, ParseFields) /\ q.at = "insert" /\ q.version = p.version
      /\ q.of = version[p.attachment] /\ q.source = source
      /\ q.item = p.item /\ q.prefer = p.prefer /\ q.attachment = p.attachment
      /\ q.about = p.about
  BY DEF ParseOK, Fits, ParseFields
<1> HIDE DEF q
<1>2. Chosen(p) /\ version[p.attachment] \in Nat /\ version[p.attachment] >= p.version
  BY DEF ParseOK, Chosen, Attachments
<1>3. ParseOK(q)
  BY <1>1, <1>2 DEF ParseOK, Chosen, Seen, Starting
<1> QED BY <1>1, <1>3 DEF q, SameRequest

(* One call goes on with what it asks for.                                  *)
LEMMA StructureGoesOn ==
  ASSUME StructureInv, version' = version, \A s \in cache' : CacheOK(s),
         NEW c \in Calls, NEW q, parse' = [parse EXCEPT ![c] = q],
         ParseOK(q), SameRequest(parse[c], q)
  PROVE  /\ StructureInv' /\ version' = version
         /\ \A d \in Calls : SameRequest(parse[d], parse'[d])
<1>1. \A d \in Calls : parse'[d] = IF d = c THEN q ELSE parse[d]
  BY DEF StructureInv, Fits
<1>2. \A d \in Calls : SameRequest(parse[d], parse'[d])
  BY <1>1 DEF SameRequest
<1>3. StructureInv'
  BY ChangeParse
<1> QED BY <1>2, <1>3

(* One step of a call keeps the structures in order, and does not change    *)
(* what the call asks for.                                                  *)
LEMMA StructureSteps ==
  ASSUME StructureInv, NEW c \in Calls, StructureStep(c)
  PROVE  /\ StructureInv' /\ version' = version
         /\ \A d \in Calls : SameRequest(parse[d], parse'[d])
<1> DEFINE p == parse[c]
           Goes(q) == /\ parse' = [parse EXCEPT ![c] = q]
                      /\ ParseOK(q) /\ SameRequest(p, q)
<1>0. ParseOK(p) /\ version \in [Attachments -> Nat] /\ \A s \in cache : CacheOK(s)
  BY DEF StructureInv
<1> SUFFICES version' = version /\ (\A s \in cache' : CacheOK(s)) /\ \E q : Goes(q)
  BY StructureGoesOn
<1>1. ASSUME NEW at, To(c, at),
             \/ at = "error"
             \/ at \in Seen \ {"insert"} /\ p.at \in Seen
             \/ at = "done" /\ p.at = "insert"
      PROVE  Goes([p EXCEPT !.at = at])
  BY <1>0, <1>1, GoesOn DEF To
<1> HIDE DEF Goes
<1>2. CASE GetItem(c)
  <2>1. UNCHANGED <<version, cache>>
    BY <1>2 DEF GetItem
  <2>2. CASE To(c, "error")
    BY <1>0, <1>1, <2>1, <2>2
  <2>3. CASE ~To(c, "error")
    <3> DEFINE a == SelectAttachment(p.prefer)
               q == [p EXCEPT !.at = "look_up", !.attachment = a,
                              !.about = a, !.version = version[a]]
    <3>1. a # NONE /\ p.item = Item /\ parse' = [parse EXCEPT ![c] = q]
      BY <1>2, <2>3 DEF GetItem
    <3>2. /\ a \in ItemAttachments
          /\ p.prefer \in ItemAttachments => a = p.prefer \/ ~(version[p.prefer] > 0)
      BY <3>1, SelectedIsThere
    <3>3. p.prefer \in ItemAttachments => a = p.prefer \/ version[p.prefer] = 0
      BY <1>0, <3>2 DEF Attachments
    <3>4. /\ Fits(q, ParseFields) /\ q.at = "look_up" /\ q.version = version[a]
          /\ q.of = p.of /\ q.prefer = p.prefer /\ q.attachment = a
          /\ q.item = p.item /\ q.about = a
      BY <1>0 DEF ParseOK, Fits, ParseFields
    <3> HIDE DEF q, a
    <3>5. version[a] \in Nat /\ p.of \in Nat
      BY <1>0, <3>2 DEF ParseOK, Attachments
    <3>6. ParseOK(q)
      BY <3>1, <3>2, <3>3, <3>4, <3>5 DEF ParseOK, Chosen, Seen, Starting
    <3> QED BY <1>0, <2>1, <3>1, <3>4, <3>6 DEF Goes, SameRequest
  <2> QED BY <2>2, <2>3
<1>3. CASE LookUp(c)
  <2>1. UNCHANGED <<version, cache>> /\ p.at = "look_up"
    BY <1>3 DEF LookUp
  <2>2. CASE CachedFor(c) # {}
    <3>1. PICK s \in CachedFor(c) : parse' = [parse EXCEPT ![c].at = "done",
                                      ![c].of = s.of, ![c].source = s.source]
      BY <1>3, <2>2 DEF LookUp
    <3> DEFINE q == [p EXCEPT !.at = "done", !.of = s.of, !.source = s.source]
    <3>2. CacheOK(s) /\ s.version = p.version
      BY <1>0 DEF CachedFor
    <3>3. /\ Fits(q, ParseFields) /\ q.at = "done" /\ q.version = p.version
          /\ q.of = s.of /\ q.source = s.source /\ q.prefer = p.prefer
          /\ q.item = p.item /\ q.about = p.about
          /\ q.attachment = p.attachment /\ parse' = [parse EXCEPT ![c] = q]
      BY <1>0, <3>1 DEF ParseOK, Fits, ParseFields
    <3> HIDE DEF q
    <3>4. ParseOK(q)
      BY <1>0, <2>1, <3>2, <3>3 DEF ParseOK, CacheOK, Chosen, Seen, Starting
    <3> QED BY <1>0, <2>1, <3>3, <3>4 DEF Goes, SameRequest
  <2>3. CASE CachedFor(c) = {}
    <3>1. To(c, IF Configured THEN "probe" ELSE "text")
      BY <1>3, <2>3 DEF LookUp
    <3> QED BY <1>0, <1>1, <2>1, <3>1 DEF Seen
  <2> QED BY <2>2, <2>3
<1>4. CASE Probe(c)
  BY <1>0, <1>1, <1>4 DEF Probe, Seen
<1>5. CASE Spawn(c)
  BY <1>0, <1>1, <1>5 DEF Spawn, Seen
<1>6. CASE WaitUntilAlive(c)
  BY <1>0, <1>1, <1>6 DEF WaitUntilAlive, Seen
<1>7. CASE Alive(c)
  BY <1>0, <1>1, <1>7 DEF Alive, Seen
<1>8. CASE ProcessFulltext(c)
  <2>1. UNCHANGED <<version, cache>> /\ p.at \in Seen
    BY <1>8 DEF ProcessFulltext, Seen
  <2>2. CASE To(c, "text")
    BY <1>0, <1>1, <2>1, <2>2 DEF Seen
  <2>3. CASE ~To(c, "text")
    <3>1. /\ version[p.attachment] > 0 /\ "grobid" \in Sources
          /\ parse' = [parse EXCEPT ![c] = [p EXCEPT !.at = "insert",
                         !.of = version[p.attachment], !.source = "grobid"]]
      BY <1>8, <2>3 DEF ProcessFulltext, Sources
    <3> QED BY <1>0, <2>1, <3>1, ParsesVersion DEF Goes
  <2> QED BY <2>2, <2>3
<1>9. CASE BuildFromFulltext(c)
  <2>1. UNCHANGED <<version, cache>> /\ p.at \in Seen
    BY <1>9 DEF BuildFromFulltext, Seen
  <2>2. CASE To(c, "error")
    BY <1>0, <1>1, <2>1, <2>2 DEF Seen
  <2>3. CASE ~To(c, "error")
    <3> DEFINE source == IF Configured THEN "grobid_unavailable" ELSE "zotero_fulltext"
    <3>1. /\ version[p.attachment] > 0 /\ source \in Sources
          /\ parse' = [parse EXCEPT ![c] = [p EXCEPT !.at = "insert",
                         !.of = version[p.attachment], !.source = source]]
      BY <1>9, <2>3 DEF BuildFromFulltext, Sources
    <3> HIDE DEF source
    <3> QED BY <1>0, <2>1, <3>1, ParsesVersion DEF Goes
  <2> QED BY <2>2, <2>3
<1>10. CASE Insert(c)
  <2>1. version' = version /\ p.at = "insert" /\ To(c, "done")
    BY <1>10 DEF Insert
  <2> DEFINE s == [attachment |-> p.attachment, version |-> p.version,
                   of |-> p.of, source |-> p.source]
  <2>2. CacheOK(s)
    BY <1>0, <2>1 DEF CacheOK, ParseOK
  <2>3. \A t \in cache' : CacheOK(t)
    BY <1>0, <1>10, <2>2 DEF Insert
  <2> QED BY <1>1, <2>1, <2>3
<1> QED BY <1>2, <1>3, <1>4, <1>5, <1>6, <1>7, <1>8, <1>9, <1>10 DEF StructureStep

(* A call that finds a paper of this key in the corpus has its structure,   *)
(* which is of that paper or, for one that is gone by then, empty.          *)
LEMMA CachedPaperSteps ==
  ASSUME StructureInv, CorpusInv, NEW c \in Calls, ConsultCorpus(c) \/ TakeCached(c)
  PROVE  /\ StructureInv' /\ version' = version
         /\ \A d \in Calls : SameRequest(parse[d], parse'[d])
<1> DEFINE p == parse[c]
<1>0. ParseOK(p) /\ \A s \in cache : CacheOK(s)
  BY DEF StructureInv
<1>1. UNCHANGED <<version, cache>>
  BY DEF ConsultCorpus, TakeCached
<1>2. CASE ConsultCorpus(c)
  <2> DEFINE at == IF p.prefer = NONE /\ HasEntry(p.item) THEN "cached" ELSE "get_item"
             q == [p EXCEPT !.at = at]
  <2>1. p.at = "asked" /\ parse' = [parse EXCEPT ![c] = q]
    BY <1>2 DEF ConsultCorpus, To
  <2>2. at = "get_item" \/ (at = "cached" /\ p.item \in Works /\ p.prefer = NONE)
    BY DEF HasEntry
  <2> HIDE DEF at
  <2>3. ParseOK(q) /\ SameRequest(p, q)
    BY <1>0, <2>1, <2>2, GoesOn
  <2> HIDE DEF q
  <2> QED BY <1>0, <1>1, <2>1, <2>3, StructureGoesOn
<1>3. CASE TakeCached(c)
  <2> DEFINE w == p.item
             about == IF HasText(w) THEN corpus[w] ELSE BLANK
             q == [p EXCEPT !.at = "done", !.attachment = w, !.about = about,
                            !.source = "paperseed_fulltext"]
  <2>1. p.at = "cached" /\ parse' = [parse EXCEPT ![c] = q]
    BY <1>3 DEF TakeCached
  <2>2. p.item \in Works /\ p.prefer = NONE /\ p.version = 0 /\ p.of \in Nat
    BY <1>0, <2>1 DEF ParseOK, Starting
  <2>3. NamesDiffer => about \in {p.item, BLANK}
    BY <2>2 DEF CorpusInv, HasText, HasEntry
  <2>4. /\ Fits(q, ParseFields) /\ q.at = "done" /\ q.item = p.item
        /\ q.prefer = p.prefer /\ q.version = p.version /\ q.of = p.of
        /\ q.about = about /\ q.source = "paperseed_fulltext"
    BY <1>0 DEF ParseOK, Fits, ParseFields
  <2> HIDE DEF q, about
  <2>5. FromCorpus(q)
    BY <2>2, <2>3, <2>4 DEF FromCorpus
  <2>6. ParseOK(q)
    BY <2>2, <2>4, <2>5 DEF ParseOK, Seen, Starting
  <2>7. SameRequest(p, q)
    BY <2>4 DEF SameRequest
  <2> QED BY <1>0, <1>1, <2>1, <2>6, <2>7, StructureGoesOn
<1> QED BY <1>2, <1>3

LEMMA StructureStays ==
  ASSUME StructureInv, UNCHANGED structureVars
  PROVE  StructureInv'
BY DEF structureVars, StructureInv, ParseOK, Chosen, CacheOK

(* A file is replaced by a newer one or goes away for good; GROBID comes    *)
(* and goes.                                                                *)
LEMMA OutsideSteps ==
  ASSUME StructureInv, Outside
  PROVE  /\ StructureInv' /\ UNCHANGED <<parse, cache>>
         /\ \A a \in Attachments : version[a] = 0 => version'[a] = 0
<1>1. CASE ChangeAttachment
  <2>1. PICK a \in Attachments :
          /\ version[a] \in 1..(MaxVersion - 1)
          /\ \E v \in {0, version[a] + 1} : version' = [version EXCEPT ![a] = v]
    BY <1>1 DEF ChangeAttachment
  <2>2. PICK v \in {0, version[a] + 1} : version' = [version EXCEPT ![a] = v]
    BY <2>1
  <2>3. UNCHANGED <<parse, cache>>
    BY <1>1 DEF ChangeAttachment
  <2>4. version \in [Attachments -> Nat] /\ version[a] \in Nat \ {0} /\ v \in Nat
    BY <2>1, StructureAssumption DEF StructureInv
  <2>5. /\ version' \in [Attachments -> Nat]
        /\ \A b \in Attachments : version'[b] = IF b = a THEN v ELSE version[b]
    BY <2>2, <2>4
  <2>6. \A b \in Attachments : version'[b] = 0 \/ version'[b] >= version[b]
    BY <2>2, <2>4, <2>5
  <2>7. \A b \in Attachments : version[b] = 0 => version'[b] = 0
    BY <2>4, <2>5
  <2>8. ASSUME NEW c \in Calls PROVE ParseOK(parse[c])'
    <3>1. ParseOK(parse[c])
      BY DEF StructureInv
    <3>2. Chosen(parse[c]) => Chosen(parse[c])'
      BY <2>3, <2>7 DEF Chosen, Attachments
    <3>3. ASSUME parse[c].at \in Seen
          PROVE  version'[parse[c].attachment] = 0 \/ version'[parse[c].attachment] >= parse[c].version
      <4>1. Chosen(parse[c]) /\ parse[c].version \in Nat
        BY <3>1, <3>3 DEF ParseOK
      <4>2. parse[c].attachment \in Attachments
        BY <4>1 DEF Chosen, Attachments
      <4> QED BY <2>4, <2>5, <2>6, <2>7, <3>1, <3>3, <4>1, <4>2 DEF ParseOK
    <3> QED BY <2>3, <3>1, <3>2, <3>3 DEF ParseOK, FromCorpus
  <2> QED BY <2>3, <2>5, <2>7, <2>8 DEF StructureInv, CacheOK
<1>2. CASE GrobidComesUp \/ GrobidStops
  BY <1>2 DEF GrobidComesUp, GrobidStops, StructureInv, ParseOK, Chosen, CacheOK
<1> QED BY <1>1, <1>2 DEF Outside
-----------------------------------------------------------------------------
LEMMA NotOpenFits ==
  Fits(NotOpen, OpenFields) /\ NotOpen.at = "idle" /\ NotOpen.text = NoText
  /\ NotOpen.structure = NoText /\ NotOpen.said = NONE /\ NotOpen.target = NONE
BY DEF Fits, NotOpen, OpenFields

LEMMA OpenedStays ==
  ASSUME version' = version
  PROVE  \A o : Opened(o)' <=> Opened(o)
BY DEF Opened, Matching, Whose, StructureOf, Answers

LEMMA OpenStays ==
  ASSUME OpenInv, UNCHANGED <<version, parse, open>>
  PROVE  OpenInv'
BY OpenedStays DEF OpenInv, OpenOK

(* One call goes on and the structures are asked for what they were, or,    *)
(* for the call that asks for one now, for what it has read.                *)
LEMMA ChangeOpen ==
  ASSUME OpenInv, NEW c \in Calls, NEW o, Opened(o), version' = version,
         open' = [open EXCEPT ![c] = o],
         \A d \in Calls : d # c => SameRequest(parse[d], parse'[d]),
         o.at = "parsing" => Asking(o, parse'[c])
  PROVE  OpenInv'
<1>1. Fits(open', Calls) /\ \A d \in Calls : open'[d] = IF d = c THEN o ELSE open[d]
  BY DEF OpenInv, Fits
<1>2. \A q : Opened(q)' <=> Opened(q)
  BY OpenedStays
<1>3. ASSUME NEW d \in Calls PROVE OpenOK(d)'
  <2>1. CASE d = c
    BY <1>1, <1>2, <2>1 DEF OpenOK
  <2>2. CASE d # c
    BY <1>1, <1>2, <2>2 DEF OpenOK, OpenInv, SameRequest, Asking
  <2> QED BY <2>1, <2>2
<1> QED BY <1>1, <1>3 DEF OpenInv

(* A step that only moves a call on.                                        *)
LEMMA MovesOn ==
  ASSUME NEW o, Opened(o), NEW at, o.at # "done",
         \/ at = "error"
         \/ at = "toc" /\ o.at = "metadata"
         \/ at = "read" /\ o.at \in {"toc"} \cup Seeking
         \/ at = "structure" /\ o.at = "read"
         \/ at = "say" /\ o.at = "read" /\ o.text # NoText
         \/ at = "done" /\ o.at = "structure"
         \/ at = "cached" /\ o.at = "build" /\ o.paper # NONE
         \/ at = "parsing" /\ o.at = "structure" /\ o.target.kind = "item"
         \/ /\ at \in {"mirror", "again", "download"} /\ o.at \in Seeking
            /\ o.target.kind = "identity"
  PROVE  Opened([o EXCEPT !.at = at])
<1> DEFINE q == [o EXCEPT !.at = at]
<1>1. /\ Fits(q, OpenFields) /\ q.at = at /\ q.target = o.target /\ q.for = o.for
      /\ q.paper = o.paper /\ q.attachment = o.attachment /\ q.origin = o.origin
      /\ q.text = o.text /\ q.said = o.said /\ q.structure = o.structure
      /\ q.structureSaid = o.structureSaid
  BY DEF Opened, Fits, OpenFields
<1> HIDE DEF q
<1>2. Whence(q)
  BY <1>1 DEF Opened, Whence, Found, Seeking
<1>3. NamesDiffer => Whose(q)
  BY <1>1 DEF Opened, Whose, Seeking
<1>4. Matching(q)
  BY <1>1 DEF Opened, Whence, Matching
<1>5. at # "idle"
  BY DEF Seeking
<1> QED BY <1>1, <1>2, <1>3, <1>4, <1>5 DEF q, Opened

(* A call that finds a text goes on with it, and knows where it is from.    *)
TextRecord(of, v, from) == [of |-> of, version |-> v, from |-> from]

WithText(o, t, paper) ==
  [o EXCEPT !.text = t, !.paper = paper, !.origin = t.from,
            !.at = CASE o.for = "toc" -> "read"
                     [] o.for = "read" -> "say"
                     [] OTHER -> "build"]

LEMMA TextIsFound ==
  ASSUME NEW o, Opened(o), o.at \in Seeking, NEW t, t # NoText, NEW paper,
         t.from \in Origins, paper # NONE => t.from = "paperseed_fulltext",
         NamesDiffer => /\ TextOf(o.target, t)
                        /\ IF o.target.kind = "item"
                           THEN t.of = o.attachment /\ o.attachment # NONE
                           ELSE paper \in {NONE, Named(o.target)}
  PROVE  Opened(WithText(o, t, paper))
<1> DEFINE at == CASE o.for = "toc" -> "read"
                   [] o.for = "read" -> "say"
                   [] OTHER -> "build"
           q == WithText(o, t, paper)
<1>1. /\ Fits(q, OpenFields) /\ q.at = at /\ q.target = o.target /\ q.for = o.for
      /\ q.paper = paper /\ q.attachment = o.attachment /\ q.origin = t.from
      /\ q.text = t /\ q.said = o.said /\ q.structure = o.structure
      /\ q.structureSaid = o.structureSaid
  BY DEF Opened, Fits, OpenFields, WithText
<1> HIDE DEF q
<1>2. at \in {"read", "say", "build"} /\ (at = "build" => o.for \notin {"toc", "read"})
  OBVIOUS
<1> HIDE DEF at
<1>3. o.said = NONE /\ o.structure = NoText
  BY DEF Opened, Whence, Seeking
<1>4. Whence(q)
  BY <1>1, <1>2, <1>3 DEF Whence, Found, Seeking
<1>5. NamesDiffer => Whose(q)
  BY <1>1, <1>2, <1>3 DEF Opened, Whose, Seeking
<1>6. Matching(q)
  BY <1>1, <1>2 DEF Matching
<1> QED BY <1>1, <1>2, <1>4, <1>5, <1>6 DEF q, Opened

(* A call that has a structure is done.                                     *)
LEMMA StructureIsFound ==
  ASSUME NEW o, Opened(o), NEW s, NEW attachment, NEW saidOf, s # NoText => saidOf = Told(s),
         NamesDiffer =>
           /\ StructureOf(o.target, s)
           /\ o.target.kind # "item" => attachment = o.attachment
           /\ o.target.kind = "item" /\ o.text # NoText /\ s # NoText =>
                \/ o.text.of = s.of
                \/ o.text.of \notin ItemAttachments
                \/ version[o.text.of] = 0
  PROVE  Opened([o EXCEPT !.at = "done", !.attachment = attachment, !.structure = s,
                          !.structureSaid = saidOf])
<1> DEFINE q == [o EXCEPT !.at = "done", !.attachment = attachment, !.structure = s,
                          !.structureSaid = saidOf]
<1>1. /\ Fits(q, OpenFields) /\ q.at = "done" /\ q.target = o.target /\ q.for = o.for
      /\ q.paper = o.paper /\ q.attachment = attachment /\ q.origin = o.origin
      /\ q.text = o.text /\ q.said = o.said /\ q.structure = s
      /\ q.structureSaid = saidOf
  BY DEF Opened, Fits, OpenFields
<1> HIDE DEF q
<1>2. Whence(q)
  BY <1>1 DEF Opened, Whence, Found, Seeking
<1>3. NamesDiffer => Whose(q)
  BY <1>1 DEF Opened, Whose, Seeking
<1>4. NamesDiffer => Matching(q)
  BY <1>1 DEF Matching
<1> QED BY <1>1, <1>2, <1>3, <1>4 DEF q, Opened
-----------------------------------------------------------------------------
(* What the corpus answers with is of the paper that is asked for.          *)
LEMMA CorpusTextIsOf ==
  ASSUME CorpusInv, NEW w, HasText(w)
  PROVE  /\ w \in Works /\ w # NONE /\ CorpusText(w) # NoText
         /\ CorpusText(w).from = "paperseed_fulltext"
         /\ NamesDiffer => CorpusText(w).of = w
BY OpenAssumption DEF CorpusInv, HasText, HasEntry, CorpusText, NoText

LEMMA TextStep ==
  ASSUME OpenInv, NEW c \in Calls, open[c].at # "idle", NEW t, NEW paper, Text(c, t, paper)
  PROVE  open' = [open EXCEPT ![c] = WithText(open[c], t, paper)]
BY DEF Text, WithText, Origin

(* Every step of a call of open_paper leaves it with a text and a structure *)
(* of what was asked for, and knowing where they come from.                 *)
CallMoves(c, o) ==
  /\ Opened(o) /\ open' = [open EXCEPT ![c] = o]
  /\ o.at = "parsing" => Asking(o, parse'[c])

LEMMA RequestSteps ==
  ASSUME OpenInv, NEW c \in Calls, Request(c)
  PROVE  \E o : CallMoves(c, o)
<1>1. PICK t \in Targets, v \in Views :
        LET known == t.kind = "paper" => HasEntry(t.id) IN
        open' = [open EXCEPT ![c] = [NotOpen EXCEPT
          !.at = IF known THEN "metadata" ELSE "error",
          !.target = t, !.views = v, !.attachment = t.attachment,
          !.paper = IF t.kind = "paper" THEN t.id ELSE NONE]]
  BY DEF Request
<1> DEFINE at == IF t.kind = "paper" => HasEntry(t.id) THEN "metadata" ELSE "error"
           paper == IF t.kind = "paper" THEN t.id ELSE NONE
           o == [NotOpen EXCEPT !.at = at, !.target = t, !.views = v,
                                !.attachment = t.attachment, !.paper = paper]
<1>2. open' = [open EXCEPT ![c] = o]
  BY <1>1
<1>0. /\ at \in {"metadata", "error"}
      /\ paper # NONE => t.kind = "paper" /\ paper = t.id
  OBVIOUS
<1> HIDE DEF at, paper
<1>3. /\ Fits(o, OpenFields) /\ o.at = at /\ o.target = t /\ o.for = NONE
      /\ o.paper = paper /\ o.attachment = t.attachment /\ o.text = NoText
      /\ o.said = NONE /\ o.structure = NoText
  BY DEF NotOpen, Fits, OpenFields
<1> HIDE DEF o
<1>4. Whence(o)
  BY <1>0, <1>3 DEF Whence, Found, Seeking
<1>5. Whose(o)
  BY <1>0, <1>3, TargetsAssumption
  DEF Whose, TextOf, StructureOf, MayRead, NoText, Named, Seeking
<1>6. Matching(o)
  BY <1>0, <1>3 DEF Matching
<1>7. Opened(o) /\ o.at # "parsing"
  BY <1>0, <1>3, <1>4, <1>5, <1>6 DEF Opened
<1> QED BY <1>2, <1>7 DEF CallMoves

LEMMA ViewSteps ==
  ASSUME OpenInv, NEW c \in Calls, Metadata(c) \/ Toc(c) \/ Read(c) \/ Say(c)
  PROVE  \E o : CallMoves(c, o)
<1> DEFINE o == open[c]
<1>1. Opened(o) /\ o.at \in {"metadata", "toc", "read", "say"}
  BY NotOpenFits DEF OpenInv, OpenOK, Metadata, Toc, Read, Say
<1>2. ASSUME NEW at, Step(c, at),
             \/ at = "error"
             \/ at = "toc" /\ o.at = "metadata"
             \/ at = "read" /\ o.at \in {"toc"} \cup Seeking
             \/ at = "structure" /\ o.at = "read"
             \/ at = "say" /\ o.at = "read" /\ o.text # NoText
      PROVE  \E q : CallMoves(c, q)
  <2> DEFINE q == [o EXCEPT !.at = at]
  <2>1. Opened(q) /\ open' = [open EXCEPT ![c] = q]
    BY <1>1, <1>2, MovesOn DEF Step
  <2>2. q.at = at
    BY <1>1 DEF Opened, Fits, OpenFields
  <2> QED BY <1>2, <2>1, <2>2 DEF CallMoves, Seeking
(* The text is looked for, for a view that wants it.                        *)
<1>3. ASSUME NEW for \in {"toc", "read"}, o.at \in {"toc", "read"}, o.text = NoText,
             open' = [open EXCEPT ![c].at = "text", ![c].for = for]
      PROVE  \E q : CallMoves(c, q)
  <2> DEFINE q == [o EXCEPT !.at = "text", !.for = for]
  <2>1. /\ Fits(q, OpenFields) /\ q.at = "text" /\ q.target = o.target /\ q.for = for
        /\ q.paper = o.paper /\ q.attachment = o.attachment /\ q.origin = o.origin
        /\ q.text = o.text /\ q.said = o.said /\ q.structure = o.structure
        /\ q.structureSaid = o.structureSaid
    BY <1>1 DEF Opened, Fits, OpenFields
  <2>2. open' = [open EXCEPT ![c] = q]
    BY <1>3
  <2> HIDE DEF q
  <2>3. Whence(q)
    BY <1>1, <1>3, <2>1 DEF Opened, Whence, Found, Seeking
  <2>4. NamesDiffer => Whose(q)
    BY <1>1, <1>3, <2>1 DEF Opened, Whose, Seeking
  <2>5. Opened(q)
    BY <1>1, <2>1, <2>3, <2>4 DEF Opened, Matching
  <2> QED BY <2>1, <2>2, <2>5 DEF CallMoves
<1>4. CASE Metadata(c)
  BY <1>2, <1>4 DEF Metadata
<1>5. CASE Toc(c)
  <2>1. o.at = "toc" /\ o.text = NoText
    BY <1>1, <1>5 DEF Toc, Opened, Whence
  <2> QED BY <1>2, <1>3, <1>5, <2>1 DEF Toc
<1>6. CASE Read(c)
  BY <1>2, <1>3, <1>6 DEF Read
<1>7. CASE Say(c)
  <2>1. CASE Step(c, "error")
    BY <1>2, <2>1
  <2>2. CASE ~Step(c, "error")
    <3> DEFINE q == [o EXCEPT !.at = "structure", !.said = o.origin]
    <3>1. open' = [open EXCEPT ![c] = q] /\ o.at = "say"
      BY <1>7, <2>2 DEF Say
    <3>2. /\ Fits(q, OpenFields) /\ q.at = "structure" /\ q.target = o.target /\ q.for = o.for
          /\ q.paper = o.paper /\ q.attachment = o.attachment /\ q.origin = o.origin
          /\ q.text = o.text /\ q.said = o.origin /\ q.structure = o.structure
          /\ q.structureSaid = o.structureSaid
      BY <1>1 DEF Opened, Fits, OpenFields
    <3> HIDE DEF q
    <3>3. Whence(q)
      BY <1>1, <3>1, <3>2 DEF Opened, Whence, Found, Seeking
    <3>4. NamesDiffer => Whose(q)
      BY <1>1, <3>1, <3>2 DEF Opened, Whose, Seeking
    <3>5. Opened(q)
      BY <1>1, <3>2, <3>3, <3>4 DEF Opened, Matching
    <3> QED BY <3>1, <3>2, <3>5 DEF CallMoves
  <2> QED BY <2>1, <2>2
<1> QED BY <1>4, <1>5, <1>6, <1>7
(* The PDF is read when the corpus has no text of the attachment.           *)
LEMMA ReadsPdf ==
  ASSUME NEW o, Opened(o), o.at = "text", NEW a,
         NamesDiffer => \/ o.target.kind = "item" /\ a \in MayRead(o.target)
                        \/ o.target.kind = "attachment" /\ a = o.attachment
  PROVE  Opened([o EXCEPT !.at = "pdf_text", !.attachment = a, !.origin = "zotero_fulltext"])
<1> DEFINE q == [o EXCEPT !.at = "pdf_text", !.attachment = a, !.origin = "zotero_fulltext"]
<1>1. /\ Fits(q, OpenFields) /\ q.at = "pdf_text" /\ q.target = o.target /\ q.for = o.for
      /\ q.paper = o.paper /\ q.attachment = a /\ q.text = o.text
      /\ q.said = o.said /\ q.structure = o.structure
      /\ q.structureSaid = o.structureSaid
  BY DEF Opened, Fits, OpenFields
<1> HIDE DEF q
<1>2. o.text = NoText
  BY DEF Opened, Whence, Seeking
<1>3. Whence(q)
  BY <1>1, <1>2 DEF Opened, Whence, Found, Seeking
<1>4. NamesDiffer => Whose(q)
  BY <1>1, <1>2 DEF Opened, Whose, Seeking
<1> QED BY <1>1, <1>3, <1>4 DEF q, Opened, Matching

LEMMA TextSteps ==
  ASSUME ReadingInv, NEW c \in Calls,
         \/ ResearchText(c) \/ AttachmentText(c) \/ PaperText(c) \/ ItemText(c)
         \/ PdfText(c) \/ IdentityText(c) \/ Download(c)
  PROVE  \E o : CallMoves(c, o)
<1> DEFINE o == open[c]
           t0 == o.target
<1>1. /\ Opened(o) /\ o.at \in {"text", "pdf_text", "again", "download"}
      /\ o.at \in Seeking /\ t0 \in Targets
  BY NotOpenFits DEF ReadingInv, OpenInv, OpenOK, Opened, Seeking, ResearchText,
     AttachmentText, PaperText, ItemText, PdfText, IdentityText, Download
<1>2. ASSUME NEW at, Step(c, at),
             \/ at \in {"error", "read"}
             \/ at \in {"mirror", "again", "download"} /\ o.target.kind = "identity"
      PROVE  \E q : CallMoves(c, q)
  <2> DEFINE q == [o EXCEPT !.at = at]
  <2>1. Opened(q) /\ open' = [open EXCEPT ![c] = q]
    BY <1>1, <1>2, MovesOn DEF Step
  <2>2. q.at = at
    BY <1>1 DEF Opened, Fits, OpenFields
  <2> QED BY <1>2, <2>1, <2>2 DEF CallMoves
<1>3. ASSUME NoTextFound(c) PROVE \E q : CallMoves(c, q)
  BY <1>2, <1>3 DEF NoTextFound
<1>4. ASSUME NEW t, t # NoText, NEW paper, Text(c, t, paper), t.from \in Origins,
             paper # NONE => t.from = "paperseed_fulltext",
             NamesDiffer => /\ TextOf(t0, t)
                            /\ IF t0.kind = "item"
                               THEN t.of = o.attachment /\ o.attachment # NONE
                               ELSE paper \in {NONE, Named(t0)}
      PROVE  \E q : CallMoves(c, q)
  <2> DEFINE q == WithText(o, t, paper)
  <2>1. Opened(q)
    BY <1>1, <1>4, TextIsFound
  <2>2. open' = [open EXCEPT ![c] = q]
    BY <1>1, <1>4, TextStep DEF ReadingInv, Opened
  <2>3. q.at \in {"read", "say", "build"}
    BY <1>1 DEF WithText, Opened, Fits, OpenFields
  <2> QED BY <2>1, <2>2, <2>3 DEF CallMoves
<1>5. ASSUME NEW w, HasText(w), Text(c, CorpusText(w), w),
             NamesDiffer => IF t0.kind = "item" THEN w = o.attachment ELSE w = Named(t0),
             NamesDiffer /\ t0.kind = "item" => o.attachment \in MayRead(t0)
      PROVE  \E q : CallMoves(c, q)
  <2>1. /\ w # NONE /\ CorpusText(w) # NoText
        /\ CorpusText(w).from = "paperseed_fulltext"
        /\ NamesDiffer => CorpusText(w).of = w
    BY <1>5, CorpusTextIsOf DEF ReadingInv
  <2> HIDE DEF t0, o
  <2>2. NamesDiffer => TextOf(t0, CorpusText(w))
    BY <1>5, <2>1 DEF TextOf
  <2> QED BY <1>4, <1>5, <2>1, <2>2 DEF Origins
<1>6. t0.kind \notin {"item", "attachment"} => t0.attachment = NONE /\ t0.id # NONE
  BY <1>1, TargetsAssumption
<1>7. NamesDiffer => IF t0.kind = "item" THEN o.attachment \in MayRead(t0)
                     ELSE o.attachment = t0.attachment
  BY <1>1 DEF Opened, Whose, Seeking
<1>8. CASE ResearchText(c)
  <2> DEFINE t == [of |-> t0.id, version |-> 0, from |-> "research_fulltext"]
  <2>1. t0.kind = "research" /\ (Text(c, t, NONE) \/ NoTextFound(c))
    BY <1>8 DEF ResearchText, ResearchBundle, Kind, Id
  <2>2. t # NoText /\ TextOf(t0, t) /\ t.from \in Origins
    BY <1>6, <2>1 DEF NoText, TextOf, Named, Origins
  <2> QED BY <1>3, <1>4, <2>1, <2>2
<1>9. CASE AttachmentText(c)
  <2>1. o.at = "text" /\ o.attachment # NONE
    BY <1>9 DEF AttachmentText
  <2>2. NamesDiffer => \/ t0.kind = "item" /\ o.attachment \in MayRead(t0)
                       \/ t0.kind = "attachment" /\ o.attachment = Named(t0)
    BY <1>6, <1>7, <2>1 DEF Named
  <2>3. CASE HasText(o.attachment)
    BY <1>5, <1>9, <2>2, <2>3 DEF AttachmentText
  <2>4. CASE ~HasText(o.attachment)
    <3> DEFINE q == [o EXCEPT !.at = "pdf_text", !.origin = "zotero_fulltext"]
    <3>1. open' = [open EXCEPT ![c] = q]
      BY <1>9, <2>4 DEF AttachmentText
    <3>2. q = [o EXCEPT !.at = "pdf_text", !.attachment = o.attachment,
                        !.origin = "zotero_fulltext"]
      BY <1>1 DEF Opened, Fits, OpenFields
    <3>3. q.at = "pdf_text"
      BY <1>1 DEF Opened, Fits, OpenFields
    <3> HIDE DEF q
    <3>4. Opened(q)
      BY <1>1, <2>1, <2>2, <3>2, ReadsPdf
    <3> QED BY <3>1, <3>3, <3>4 DEF CallMoves
  <2> QED BY <2>3, <2>4
<1>10. CASE PaperText(c)
  <2>1. /\ t0.kind = "paper"
        /\ IF HasText(t0.id) THEN Text(c, CorpusText(t0.id), t0.id) ELSE NoTextFound(c)
    BY <1>10 DEF PaperText, Kind, Id
  <2> QED BY <1>3, <1>5, <2>1 DEF Named
<1>11. CASE ItemText(c)
  <2> DEFINE a == SelectAttachment(NONE)
             q == [o EXCEPT !.at = "pdf_text", !.attachment = a, !.origin = "zotero_fulltext"]
  <2>1. o.at = "text" /\ t0.kind = "item" /\ o.attachment = NONE
    BY <1>11 DEF ItemText, Kind
  <2>2. CASE NoTextFound(c)
    BY <1>3, <2>2
  <2>3. CASE ~NoTextFound(c)
    <3>1. a # NONE /\ open' = [open EXCEPT ![c] = q]
      BY <1>11, <2>3 DEF ItemText
    <3>2. a \in ItemAttachments
      BY <3>1, SelectedIsThere
    <3>5. NamesDiffer => a \in MayRead(t0)
      BY <1>7, <2>1, <3>2 DEF MayRead
    <3> HIDE DEF a
    <3>3. q.at = "pdf_text"
      BY <1>1 DEF Opened, Fits, OpenFields
    <3>4. Opened(q)
      BY <1>1, <2>1, <3>5, ReadsPdf
    <3> QED BY <3>1, <3>3, <3>4 DEF CallMoves
  <2> QED BY <2>2, <2>3
<1>12. CASE PdfText(c)
  <2> DEFINE t == [of |-> o.attachment, from |-> "zotero_fulltext",
                   version |-> version[o.attachment]]
  <2>1. CASE NoTextFound(c)
    BY <1>3, <2>1
  <2>2. CASE ~NoTextFound(c)
    <3>1. /\ o.attachment \in Attachments /\ version[o.attachment] > 0
          /\ Text(c, t, NONE) /\ o.at = "pdf_text"
      BY <1>12, <2>2 DEF PdfText
    <3>2. version[o.attachment] \in Nat
      BY <3>1 DEF ReadingInv, StructureInv
    <3>3. t # NoText /\ t.from \in Origins
      BY <3>1, <3>2 DEF NoText, Origins
    <3>4. NamesDiffer => t0.kind \in {"item", "attachment"}
      BY <1>1, <3>1 DEF Opened, Whose
    <3>5. NamesDiffer => TextOf(t0, t)
      BY <1>7, <3>1, <3>4 DEF TextOf, Named
    <3>6. o.attachment # NONE
      BY <3>1, StructureAssumption
    <3> QED BY <1>4, <3>1, <3>3, <3>4, <3>5, <3>6
  <2> QED BY <2>1, <2>2
<1>13. CASE IdentityText(c)
  <2>1. o.at \in {"text", "again"} /\ t0.kind = "identity"
    BY <1>13 DEF IdentityText, Kind
  <2>2. CASE CachedIdentity(Id(c)) # {}
    <3>1. PICK w \in CachedIdentity(Id(c)) : Text(c, CorpusText(w), w)
      BY <1>13, <2>2 DEF IdentityText
    <3>2. w = t0.id /\ HasText(w)
      BY DEF CachedIdentity, EntryMatches, Id
    <3> QED BY <1>5, <2>1, <3>1, <3>2 DEF Named
  <2>3. CASE CachedIdentity(Id(c)) = {}
    <3>1. Step(c, "mirror") \/ Step(c, "download")
      BY <1>13, <2>3 DEF IdentityText
    <3> QED BY <1>2, <2>1, <3>1
  <2> QED BY <2>2, <2>3
<1>14. CASE Download(c)
  <2> DEFINE t == [of |-> t0.id, version |-> 0, from |-> "direct_pdf_text"]
  <2>1. o.at = "download" /\ (Text(c, t, NONE) \/ NoTextFound(c))
    BY <1>14 DEF Download, Id
  <2>2. t0.kind = "identity"
    BY <1>1, <2>1 DEF Opened
  <2>3. t # NoText /\ TextOf(t0, t) /\ t.from \in Origins
    BY <1>6, <2>2 DEF NoText, TextOf, Named, Origins
  <2> QED BY <1>3, <1>4, <2>1, <2>2, <2>3
<1> QED BY <1>8, <1>9, <1>10, <1>11, <1>12, <1>13, <1>14
LEMMA BuiltStep ==
  ASSUME NEW c \in Calls, Opened(open[c]), NEW s, Built(c, s), s # NoText => open[c].origin = Told(s),
         NamesDiffer => open[c].target.kind # "item" /\ StructureOf(open[c].target, s)
  PROVE  \E o : CallMoves(c, o)
<1> DEFINE o == open[c]
           q == [o EXCEPT !.at = "done", !.structure = s, !.structureSaid = o.origin]
<1>1. open' = [open EXCEPT ![c] = q]
  BY DEF Built
<1>2. q = [o EXCEPT !.at = "done", !.attachment = o.attachment, !.structure = s,
                    !.structureSaid = o.origin]
  BY DEF Opened, Fits, OpenFields
<1>3. q.at = "done"
  BY DEF Opened, Fits, OpenFields
<1> HIDE DEF q
<1>4. Opened(q)
  BY <1>2, StructureIsFound
<1> QED BY <1>1, <1>3, <1>4 DEF CallMoves

(* A structure that was asked for with what a call has read is an answer.   *)
LEMMA ParsedAnswers ==
  ASSUME NEW p, (Chosen(p) /\ p.source \in Sources) \/ FromCorpus(p),
         version \in [Attachments -> Nat], NamesDiffer, p.about # BLANK,
         NEW attachment,
         IF attachment = NONE THEN p.prefer \in ItemAttachments \cup {NONE}
         ELSE p.prefer = attachment
  PROVE  Answers(p.item, attachment, p.about)
<1>1. CASE Chosen(p)
  BY <1>1, StructureAssumption DEF Chosen, Answers, Attachments
<1>2. CASE FromCorpus(p)
  BY <1>2, OpenAssumption DEF FromCorpus, Answers
<1> QED BY <1>1, <1>2

LEMMA StructureViewSteps ==
  ASSUME ReadingInv, NEW c \in Calls,
         \/ ItemStructure(c) \/ Parsed(c) \/ OtherStructure(c)
         \/ CachedStructure(c) \/ BuildStructure(c) \/ NoStructureWanted(c)
  PROVE  \E o : CallMoves(c, o)
<1> DEFINE o == open[c]
           t == o.target
<1>1. Opened(o) /\ o.at \in {"structure", "parsing", "cached", "build"} /\ Whence(o)
  BY NotOpenFits DEF ReadingInv, OpenInv, OpenOK, Opened, ItemStructure, Parsed,
     OtherStructure, CachedStructure, BuildStructure, NoStructureWanted
<1>2. ASSUME NEW at, Step(c, at),
             \/ at = "error"
             \/ at = "done" /\ o.at = "structure"
             \/ at = "cached" /\ o.at = "build" /\ o.paper # NONE
             \/ /\ at = "parsing" /\ o.at = "structure" /\ t.kind = "item"
                /\ Asking(o, parse'[c])
      PROVE  \E q : CallMoves(c, q)
  <2> DEFINE q == [o EXCEPT !.at = at]
  <2>1. Opened(q) /\ open' = [open EXCEPT ![c] = q]
    BY <1>1, <1>2, MovesOn DEF Step
  <2>2. q.at = at /\ q.attachment = o.attachment /\ q.target = t
    BY <1>1 DEF Opened, Fits, OpenFields
  <2> HIDE DEF q
  <2>3. q.at = "parsing" => Asking(q, parse'[c])
    BY <1>1, <1>2, <2>2 DEF Asking
  <2> QED BY <2>1, <2>3 DEF CallMoves
<1>3. NamesDiffer => Whose(o)
  BY <1>1 DEF Opened
<1>4. CASE ItemStructure(c)
  <2>1. /\ o.at = "structure" /\ t.kind = "item" /\ Step(c, "parsing")
        /\ parse' = [parse EXCEPT ![c] = Asked(t.id, o.attachment)]
    BY <1>4 DEF ItemStructure, Kind, Id, Preference
  <2>2. Asking(o, parse'[c])
    BY <2>1, AskedIsOK DEF ReadingInv, StructureInv, Fits, Asking
  <2> QED BY <1>2, <2>1, <2>2
<1>5. CASE Parsed(c)
  <2>1. o.at = "parsing" /\ parse[c].at \in {"done", "error"} /\ Asking(o, parse[c])
    BY <1>5 DEF Parsed, ReadingInv, OpenInv, OpenOK
  <2>2. CASE parse[c].at = "error"
    BY <1>2, <1>5, <2>2 DEF Parsed, Step
  <2>3. CASE parse[c].at # "error"
    <3> DEFINE p == parse[c]
               a == p.attachment
               s == [of |-> p.about, version |-> p.of, from |-> p.source]
               saidOf == SaidOf(p.source)
               q == [o EXCEPT !.at = "done", !.attachment = a, !.structure = s,
                              !.structureSaid = saidOf]
    <3>1. open' = [open EXCEPT ![c] = q]
      BY <1>5, <2>3 DEF Parsed
    <3>2. (Chosen(p) /\ p.source \in Sources) \/ FromCorpus(p)
      BY <2>1, <2>3 DEF ReadingInv, StructureInv, ParseOK
    <3>3. saidOf = Told(s)
      BY <3>2 DEF Told, Sources, SaidOf, FromCorpus
    <3>4. /\ version \in [Attachments -> Nat]
          /\ p.item = t.id /\ p.prefer = o.attachment
      BY <2>1 DEF ReadingInv, StructureInv, Asking
    <3>5. NamesDiffer =>
            /\ t.kind = "item" /\ o.attachment \in MayRead(t)
            /\ o.text # NoText => o.text.of = o.attachment /\ o.attachment # NONE
      BY <1>3, <2>1 DEF Whose
    <3>6. NamesDiffer => StructureOf(t, s)
      <4>1. ASSUME NamesDiffer, p.about # BLANK PROVE Answers(t.id, t.attachment, p.about)
        <5>1. IF t.attachment = NONE THEN p.prefer \in ItemAttachments \cup {NONE}
              ELSE p.prefer = t.attachment
          BY <3>4, <3>5, <4>1 DEF MayRead
        <5> HIDE DEF p
        <5>2. Answers(p.item, t.attachment, p.about)
          BY <3>2, <3>4, <4>1, <5>1, ParsedAnswers
        <5> QED BY <3>4, <5>2
      <4> QED BY <3>5, <4>1 DEF StructureOf
    <3>7. NamesDiffer /\ o.text # NoText =>
            \/ o.text.of = s.of
            \/ o.text.of \notin ItemAttachments
            \/ version[o.text.of] = 0
      BY <3>2, <3>4, <3>5 DEF Chosen, FromCorpus
    <3>8. q.at = "done"
      BY <1>1 DEF Opened, Fits, OpenFields
    <3> HIDE DEF saidOf, s, a
    <3>9. Opened(q)
      BY <1>1, <3>3, <3>5, <3>6, <3>7, StructureIsFound
    <3> QED BY <3>1, <3>8, <3>9 DEF CallMoves
  <2> QED BY <2>2, <2>3
<1>6. CASE OtherStructure(c)
  <2> DEFINE paper == IF o.paper = NONE /\ o.text = NoText /\ t.kind = "identity"
                      THEN t.id ELSE o.paper
  <2>1. o.at = "structure" /\ t.kind # "item"
    BY <1>6 DEF OtherStructure, Kind
  <2>2. CASE HasEntry(paper)
    <3> DEFINE q == [o EXCEPT !.at = "cached", !.paper = paper,
                              !.origin = "paperseed_fulltext"]
    <3>1. open' = [open EXCEPT ![c] = q]
      BY <1>6, <2>2 DEF OtherStructure, Kind, Id
    <3>2. /\ Fits(q, OpenFields) /\ q.at = "cached" /\ q.target = t /\ q.for = o.for
          /\ q.paper = paper /\ q.attachment = o.attachment
          /\ q.origin = "paperseed_fulltext" /\ q.text = o.text /\ q.said = o.said
          /\ q.structure = o.structure /\ q.structureSaid = o.structureSaid
      BY <1>1 DEF Opened, Fits, OpenFields
    <3> HIDE DEF q
    <3>3. NamesDiffer => paper \in {NONE, Named(t)}
      BY <1>3, <2>1 DEF Whose, Named
    <3> HIDE DEF paper
    <3>4. Whence(q)
      BY <1>1, <2>1, <3>2 DEF Whence, Found, Seeking
    <3>5. NamesDiffer => Whose(q)
      BY <1>3, <2>1, <3>2, <3>3 DEF Whose, Seeking
    <3>6. Opened(q)
      BY <1>1, <3>2, <3>4, <3>5 DEF Opened, Matching
    <3> QED BY <3>1, <3>2, <3>6 DEF CallMoves
  <2>3. CASE ~HasEntry(paper)
    <3> DEFINE at == IF o.text = NoText THEN "text" ELSE "build"
               q == [o EXCEPT !.for = "structure", !.at = at]
    <3>1. open' = [open EXCEPT ![c] = q]
      BY <1>6, <2>3 DEF OtherStructure, Kind, Id
    <3>2. /\ Fits(q, OpenFields) /\ q.at = at /\ q.target = t /\ q.for = "structure"
          /\ q.paper = o.paper /\ q.attachment = o.attachment
          /\ q.origin = o.origin /\ q.text = o.text /\ q.said = o.said
          /\ q.structure = o.structure /\ q.structureSaid = o.structureSaid
      BY <1>1 DEF Opened, Fits, OpenFields
    <3> HIDE DEF q
    <3>3. Whence(q)
      BY <1>1, <2>1, <3>2 DEF Whence, Found, Seeking
    <3>4. NamesDiffer => Whose(q)
      BY <1>3, <2>1, <3>2 DEF Whose, Seeking
    <3>5. Opened(q)
      BY <1>1, <3>2, <3>3, <3>4 DEF Opened, Matching
    <3> QED BY <3>1, <3>2, <3>5 DEF CallMoves
  <2> QED BY <2>2, <2>3
<1>7. CASE CachedStructure(c)
  <2> DEFINE w == o.paper
             s == IF HasText(w) THEN CorpusText(w)
                  ELSE [of |-> BLANK, version |-> 0, from |-> "paperseed_fulltext"]
  <2>1. o.at = "cached" /\ Built(c, s)
    BY <1>7 DEF CachedStructure
  <2>2. o.origin = "paperseed_fulltext" /\ s.from = "paperseed_fulltext"
    BY <1>1, <2>1 DEF Whence, CorpusText
  <2>3. o.origin = Told(s)
    BY <2>2 DEF Told
  <2>4. NamesDiffer => t.kind # "item" /\ w \in {NONE, Named(t)}
    BY <1>3, <2>1 DEF Whose
  <2>5. NamesDiffer => StructureOf(t, s)
    <3>1. CASE HasText(w)
      BY <2>4, <3>1, CorpusTextIsOf DEF StructureOf, ReadingInv
    <3>2. CASE ~HasText(w)
      BY <3>2 DEF StructureOf
    <3> QED BY <3>1, <3>2
  <2> HIDE DEF s
  <2> QED BY <1>1, <2>1, <2>3, <2>4, <2>5, BuiltStep
<1>8. CASE BuildStructure(c)
  <2>1. o.at = "build"
    BY <1>8 DEF BuildStructure
  <2>2. CASE HasEntry(o.paper)
    BY <1>2, <1>8, <2>1, <2>2, OpenAssumption DEF BuildStructure, HasEntry
  <2>3. CASE ~HasEntry(o.paper)
    <3>1. Built(c, o.text)
      BY <1>8, <2>3 DEF BuildStructure
    <3>2. o.origin = Told(o.text)
      BY <1>1, <2>1 DEF Whence, Found, Told, Origins
    <3>3. NamesDiffer => t.kind # "item" /\ StructureOf(t, o.text)
      BY <1>3, <2>1 DEF Whose, TextOf, StructureOf
    <3> QED BY <1>1, <3>1, <3>2, <3>3, BuiltStep
  <2> QED BY <2>2, <2>3
<1>9. CASE NoStructureWanted(c)
  BY <1>2, <1>9 DEF NoStructureWanted
<1> QED BY <1>4, <1>5, <1>6, <1>7, <1>8, <1>9

-----------------------------------------------------------------------------
(* A mirror of a call goes on while the call waits for it.                  *)
LEMMA OpenSteps ==
  ASSUME ReadingInv, NEW c \in Calls, OpenStep(c)
  PROVE  ReadingInv'
<1>1. PICK o : CallMoves(c, o)
  BY RequestSteps, ViewSteps, TextSteps, StructureViewSteps DEF OpenStep, ReadingInv
<1>2. /\ UNCHANGED <<version, grobid, cache, corpus, incoming>>
      /\ \/ UNCHANGED parse
         \/ parse' = [parse EXCEPT ![c] = Asked(Id(c), Preference(c))]
      /\ \/ UNCHANGED mirror
         \/ /\ Kind(c) = "identity" /\ open[c].at = "text" /\ Step(c, "mirror")
            /\ mirror' = [mirror EXCEPT ![c] = [at |-> "fetch", work |-> Id(c)]]
  BY DEF OpenStep, Apart, structureVars, Request, Metadata, Toc, Read, Say,
     ResearchText, AttachmentText, PaperText, ItemText, PdfText, IdentityText,
     Download, ItemStructure, Parsed, OtherStructure, CachedStructure,
     BuildStructure, NoStructureWanted
<1>3. open[c].at # "mirror" /\ open' = [open EXCEPT ![c] = o] /\ Opened(o)
  BY <1>1 DEF CallMoves, OpenStep, Request, Metadata, Toc, Read, Say,
     ResearchText, AttachmentText, PaperText, ItemText, PdfText, IdentityText,
     Download, ItemStructure, Parsed, OtherStructure, CachedStructure,
     BuildStructure, NoStructureWanted
<1>4. StructureInv'
  <2>1. CASE UNCHANGED parse
    BY <1>2, <2>1, StructureStays DEF ReadingInv, structureVars
  <2>2. CASE parse' = [parse EXCEPT ![c] = Asked(Id(c), Preference(c))]
    BY <1>2, <2>2, AskedIsOK, ChangeParse DEF ReadingInv, StructureInv
  <2> QED BY <1>2, <2>1, <2>2
<1>5. OpenInv'
  <2>1. \A d \in Calls : d # c => SameRequest(parse[d], parse'[d])
    BY <1>2 DEF ReadingInv, StructureInv, Fits, SameRequest
  <2> QED BY <1>1, <1>2, <2>1, ChangeOpen DEF CallMoves, ReadingInv
<1>6. \A d \in Calls : open'[d] = IF d = c THEN o ELSE open[d]
  BY <1>3 DEF ReadingInv, OpenInv, Fits
<1>7. CorpusInv'
  <2>1. CASE UNCHANGED mirror
    <3>1. ASSUME NEW m \in Mirrors PROVE MirrorOK(m)'
      BY <1>2, <1>3, <1>6, <2>1 DEF ReadingInv, CorpusInv, MirrorOK
    <3> QED BY <1>2, <2>1, <3>1 DEF ReadingInv, CorpusInv
  <2>2. CASE ~UNCHANGED mirror
    <3>1. /\ Kind(c) = "identity" /\ Step(c, "mirror") /\ open[c].at = "text"
          /\ mirror' = [mirror EXCEPT ![c] = [at |-> "fetch", work |-> Id(c)]]
      BY <1>2, <2>2
    <3>2. Id(c) \in Works
      BY <3>1, NotOpenFits, TargetsAssumption
      DEF ReadingInv, OpenInv, OpenOK, Opened, Kind, Id
    <3>3. open'[c].at = "mirror"
      BY <3>1, NotOpenFits DEF Step, ReadingInv, OpenInv, OpenOK, Opened, Fits, OpenFields
    <3>4. /\ Fits(mirror', Mirrors)
          /\ \A m \in Mirrors : mirror'[m] = IF m = c THEN [at |-> "fetch", work |-> Id(c)]
                                             ELSE mirror[m]
      BY <3>1 DEF ReadingInv, CorpusInv, Fits, Mirrors
    <3>5. ASSUME NEW m \in Mirrors PROVE MirrorOK(m)'
      <4>1. CASE m = c
        BY <3>2, <3>3, <3>4, <4>1 DEF MirrorOK, Fits
      <4>2. CASE m # c
        BY <1>2, <1>6, <3>4, <4>2 DEF ReadingInv, CorpusInv, MirrorOK
      <4> QED BY <4>1, <4>2
    <3> QED BY <1>2, <3>4, <3>5 DEF ReadingInv, CorpusInv
  <2> QED BY <2>1, <2>2
<1> QED BY <1>4, <1>5, <1>7 DEF ReadingInv
LEMMA FromCallSteps ==
  ASSUME ReadingInv, NEW m \in Mirrors, mirror[m].at # "idle", UNCHANGED structureVars,
         NEW at \in {"again", "download"}, FromCall(m, at)
  PROVE  OpenInv' /\ \A d \in Calls : d # m => open'[d] = open[d]
<1>1. CASE m \in Calls
  <2> DEFINE o == open[m]
             q == [o EXCEPT !.at = at]
  <2>1. o.at = "mirror"
    BY <1>1 DEF ReadingInv, CorpusInv, MirrorOK
  <2>2. Opened(o)
    BY <1>1, <2>1, NotOpenFits DEF ReadingInv, OpenInv, OpenOK
  <2>3. o.target.kind = "identity" /\ o.at \in Seeking
    BY <2>1, <2>2 DEF Opened, Seeking
  <2>4. Opened(q)
    BY <2>1, <2>2, <2>3, MovesOn
  <2>5. q.at = at
    BY <2>2 DEF Opened, Fits, OpenFields
  <2>6. open' = [open EXCEPT ![m] = q]
    BY <1>1 DEF FromCall
  <2> HIDE DEF q
  <2>7. OpenInv'
    BY <1>1, <2>4, <2>5, <2>6, ChangeOpen DEF ReadingInv, structureVars, SameRequest
  <2> QED BY <1>1, <2>6, <2>7 DEF ReadingInv, OpenInv, Fits
<1>2. CASE m \notin Calls
  BY <1>2, OpenStays DEF FromCall, ReadingInv, structureVars
<1> QED BY <1>1, <1>2

LEMMA ChangeMirror ==
  ASSUME ReadingInv, NEW m \in Mirrors, NEW q, mirror' = [mirror EXCEPT ![m] = q],
         \A d \in Calls : d # m => open'[d] = open[d],
         Fits(q, {"at", "work"}), q.at # "idle" => q.work \in Works,
         q.at # "idle" /\ m \in Calls => open'[m].at = "mirror",
         NamesDiffer /\ q.at \in {"write", "ingest"} =>
           incoming'[SafeName[q.work]] \in {q.work, BLANK},
         NamesDiffer => \A w \in Works :
           incoming[SafeName[w]] \in {w, BLANK} => incoming'[SafeName[w]] \in {w, BLANK}
  PROVE  Fits(mirror', Mirrors) /\ \A n \in Mirrors : MirrorOK(n)'
<1>1. /\ Fits(mirror', Mirrors)
      /\ \A n \in Mirrors : mirror'[n] = IF n = m THEN q ELSE mirror[n]
  BY DEF ReadingInv, CorpusInv, Fits
<1>2. ASSUME NEW n \in Mirrors PROVE MirrorOK(n)'
  <2>1. CASE n = m
    BY <1>1, <2>1 DEF MirrorOK
  <2>2. CASE n # m
    BY <1>1, <2>2 DEF ReadingInv, CorpusInv, MirrorOK
  <2> QED BY <2>1, <2>2
<1> QED BY <1>1, <1>2

(* A mirror writes a file of its own work and imports what is in it.        *)
LEMMA MirrorSteps ==
  ASSUME ReadingInv, NEW m \in Mirrors, MirrorStep(m)
  PROVE  ReadingInv'
<1> DEFINE w == mirror[m].work
           f == SafeName[w]
<1>1. /\ mirror[m].at \in {"fetch", "write", "ingest"} /\ UNCHANGED structureVars
      /\ mirror[m].at # "idle"
  BY DEF MirrorStep, MirrorFails, MirrorWrites, MirrorWritten, MirrorIngests
<1>2. /\ MirrorOK(m) /\ w \in Works /\ Fits(mirror[m], {"at", "work"})
      /\ m \in Calls => open[m].at = "mirror"
  BY <1>1 DEF ReadingInv, CorpusInv, MirrorOK
<1>3. StructureInv'
  BY <1>1, StructureStays DEF ReadingInv
<1>4. ASSUME UNCHANGED open PROVE OpenInv'
  BY <1>1, <1>4, OpenStays DEF structureVars, ReadingInv
<1>5. /\ Fits(NotMirroring, {"at", "work"}) /\ NotMirroring.at = "idle"
      /\ \A at : LET q == [mirror[m] EXCEPT !.at = at] IN
           Fits(q, {"at", "work"}) /\ q.at = at /\ q.work = w
  BY <1>2 DEF NotMirroring, Fits
<1>6. CASE MirrorFails(m)
  <2>1. /\ mirror' = [mirror EXCEPT ![m] = NotMirroring] /\ FromCall(m, "download")
        /\ UNCHANGED <<corpus, incoming>>
    BY <1>6 DEF MirrorFails
  <2>2. OpenInv' /\ \A d \in Calls : d # m => open'[d] = open[d]
    BY <1>1, <2>1, FromCallSteps
  <2>3. Fits(mirror', Mirrors) /\ \A n \in Mirrors : MirrorOK(n)'
    BY <1>5, <2>1, <2>2, ChangeMirror
  <2> QED BY <1>3, <2>1, <2>2, <2>3 DEF ReadingInv, CorpusInv
<1>7. CASE MirrorWrites(m)
  <2> DEFINE q == [mirror[m] EXCEPT !.at = "write"]
  <2>1. /\ mirror' = [mirror EXCEPT ![m] = q] /\ UNCHANGED <<corpus, open>>
        /\ incoming' = [incoming EXCEPT ![f] = BLANK]
    BY <1>7 DEF MirrorWrites, MirrorTo, IncomingFile
  <2>2. /\ Fits(incoming', {SafeName[v] : v \in Works}) /\ incoming'[f] = BLANK
        /\ \A v \in Works : SafeName[v] # f => incoming'[SafeName[v]] = incoming[SafeName[v]]
    BY <1>2, <2>1 DEF ReadingInv, CorpusInv, Fits
  <2>3. NamesDiffer => \A v \in Works :
          incoming[SafeName[v]] \in {v, BLANK} => incoming'[SafeName[v]] \in {v, BLANK}
    BY <1>2, <2>2 DEF NamesDiffer
  <2>4. Fits(q, {"at", "work"}) /\ q.at = "write" /\ q.work = w
    BY <1>5
  <2> HIDE DEF q
  <2>5. Fits(mirror', Mirrors) /\ \A n \in Mirrors : MirrorOK(n)'
    BY <1>2, <2>1, <2>2, <2>3, <2>4, ChangeMirror
  <2> QED BY <1>3, <1>4, <2>1, <2>2, <2>5 DEF ReadingInv, CorpusInv
<1>8. CASE MirrorWritten(m)
  <2> DEFINE q == [mirror[m] EXCEPT !.at = "ingest"]
  <2>1. /\ mirror' = [mirror EXCEPT ![m] = q] /\ UNCHANGED <<corpus, open>>
        /\ incoming' = [incoming EXCEPT ![f] = w]
    BY <1>8 DEF MirrorWritten, MirrorTo, IncomingFile
  <2>2. /\ Fits(incoming', {SafeName[v] : v \in Works}) /\ incoming'[f] = w
        /\ \A v \in Works : SafeName[v] # f => incoming'[SafeName[v]] = incoming[SafeName[v]]
    BY <1>2, <2>1 DEF ReadingInv, CorpusInv, Fits
  <2>3. NamesDiffer => \A v \in Works :
          incoming[SafeName[v]] \in {v, BLANK} => incoming'[SafeName[v]] \in {v, BLANK}
    BY <1>2, <2>2 DEF NamesDiffer
  <2>4. Fits(q, {"at", "work"}) /\ q.at = "ingest" /\ q.work = w
    BY <1>5
  <2> HIDE DEF q
  <2>5. Fits(mirror', Mirrors) /\ \A n \in Mirrors : MirrorOK(n)'
    BY <1>2, <2>1, <2>2, <2>3, <2>4, ChangeMirror
  <2> QED BY <1>3, <1>4, <2>1, <2>2, <2>5 DEF ReadingInv, CorpusInv
<1>9. CASE MirrorIngests(m)
  <2>1. /\ mirror' = [mirror EXCEPT ![m] = NotMirroring] /\ FromCall(m, "again")
        /\ UNCHANGED incoming /\ mirror[m].at = "ingest" /\ incoming[f] # BLANK
        /\ \E held \in {incoming[f], BLANK} : corpus' = [corpus EXCEPT ![w] = held]
    BY <1>9 DEF MirrorIngests, IncomingFile
  <2>2. OpenInv' /\ \A d \in Calls : d # m => open'[d] = open[d]
    BY <1>1, <2>1, FromCallSteps
  <2>3. Fits(mirror', Mirrors) /\ \A n \in Mirrors : MirrorOK(n)'
    BY <1>5, <2>1, <2>2, ChangeMirror
  <2>4. PICK held \in {incoming[f], BLANK} : corpus' = [corpus EXCEPT ![w] = held]
    BY <2>1
  <2>5. /\ Fits(corpus', Works)
        /\ \A v \in Works : corpus'[v] = IF v = w THEN held ELSE corpus[v]
    BY <2>4 DEF ReadingInv, CorpusInv, Fits
  <2>6. NamesDiffer => held \in {w, BLANK}
    BY <1>2, <2>1, <2>4 DEF MirrorOK
  <2>7. NamesDiffer => \A v \in Works : corpus'[v] \in {v, NONE, BLANK}
    BY <2>5, <2>6 DEF ReadingInv, CorpusInv
  <2> QED BY <1>3, <2>1, <2>2, <2>3, <2>5, <2>7 DEF ReadingInv, CorpusInv, NamesDiffer
<1> QED BY <1>6, <1>7, <1>8, <1>9 DEF MirrorStep

LEMMA ThreadSteps ==
  ASSUME ReadingInv, NEW t \in Threads, ThreadStarts(t)
  PROVE  ReadingInv'
<1>1. PICK w \in Works : mirror' = [mirror EXCEPT ![t] = [at |-> "fetch", work |-> w]]
  BY DEF ThreadStarts
<1>2. UNCHANGED <<structureVars, corpus, incoming, open>>
  BY DEF ThreadStarts
<1>3. Fits([at |-> "fetch", work |-> w], {"at", "work"})
  BY DEF Fits
<1>4. t \in Mirrors /\ t \notin Calls
  BY OpenAssumption DEF Mirrors
<1>5. Fits(mirror', Mirrors) /\ \A n \in Mirrors : MirrorOK(n)'
  BY <1>1, <1>2, <1>3, <1>4, ChangeMirror
<1> QED BY <1>2, <1>5, StructureStays, OpenStays DEF structureVars, ReadingInv, CorpusInv

LEMMA RemoveSteps ==
  ASSUME ReadingInv, NEW w \in Works, RemoveEntry(w)
  PROVE  ReadingInv'
<1>1. corpus' = [corpus EXCEPT ![w] = NONE] /\ UNCHANGED <<structureVars, incoming, mirror, open>>
  BY DEF RemoveEntry
<1>2. /\ Fits(corpus', Works)
      /\ \A v \in Works : corpus'[v] = IF v = w THEN NONE ELSE corpus[v]
  BY <1>1 DEF ReadingInv, CorpusInv, Fits
<1>3. StructureInv' /\ OpenInv'
  BY <1>1, StructureStays, OpenStays DEF structureVars, ReadingInv
<1> QED BY <1>1, <1>2, <1>3 DEF ReadingInv, CorpusInv, MirrorOK

(* What happens in Zotero or to a structure disturbs no call of open_paper. *)
LEMMA AsideSteps ==
  ASSUME ReadingInv, StructureInv', UNCHANGED openVars,
         \A a \in Attachments : version[a] = 0 => version'[a] = 0,
         \A c \in Calls : open[c].at = "parsing" => SameRequest(parse[c], parse'[c])
  PROVE  ReadingInv'
<1>1. CorpusInv'
  BY DEF openVars, ReadingInv, CorpusInv, MirrorOK
<1>2. ASSUME NEW o, Opened(o) PROVE Opened(o)'
  <2>1. \A a \in ItemAttachments : version[a] = 0 => version'[a] = 0
    BY DEF Attachments
  <2>2. Matching(o) => Matching(o)'
    BY <2>1 DEF Matching
  <2>3. \A a \in ItemAttachments : version[a] \in Nat /\ version'[a] \in Nat
    BY DEF Attachments, ReadingInv, StructureInv
  <2>4. \A item, attachment, of :
          Answers(item, attachment, of) => Answers(item, attachment, of)'
    BY <2>1, <2>3 DEF Answers
  <2>5. Whose(o) => Whose(o)'
    BY <2>4 DEF Whose, StructureOf
  <2> QED BY <1>2, <2>2, <2>5 DEF Opened
<1>3. OpenInv'
  BY <1>2 DEF openVars, ReadingInv, OpenInv, OpenOK, SameRequest, Asking
<1> QED BY <1>1, <1>3 DEF ReadingInv

LEMMA OpenNextKeeps ==
  ASSUME ReadingInv, OpenNext
  PROVE  ReadingInv'
<1>1. ASSUME NEW c \in Calls, OpenStep(c) PROVE ReadingInv'
  BY <1>1, OpenSteps
<1>2. ASSUME NEW c \in Calls, RequestStructure(c) PROVE ReadingInv'
  <2>1. /\ open[c].at = "idle" /\ UNCHANGED <<version, cache, openVars>>
    BY <1>2 DEF RequestStructure
  <2>2. PICK ask \in Asks : parse' = [parse EXCEPT ![c] = Asked(ask.item, ask.attachment)]
    BY <1>2 DEF RequestStructure
  <2>3. StructureInv'
    BY <2>1, <2>2, AskedIsOK, ChangeParse DEF ReadingInv, StructureInv
  <2>4. \A d \in Calls : d # c => SameRequest(parse[d], parse'[d])
    BY <2>2 DEF ReadingInv, StructureInv, Fits, SameRequest
  <2> QED BY <2>1, <2>3, <2>4, AsideSteps
<1>3. ASSUME NEW c \in Calls, StructureStep(c), UNCHANGED openVars PROVE ReadingInv'
  BY <1>3, StructureSteps, AsideSteps DEF ReadingInv
<1>8. ASSUME NEW c \in Calls, ConsultCorpus(c) \/ TakeCached(c) PROVE ReadingInv'
  <2>1. UNCHANGED openVars
    BY <1>8 DEF ConsultCorpus, TakeCached
  <2> QED BY <1>8, <2>1, CachedPaperSteps, AsideSteps DEF ReadingInv
<1>4. ASSUME NEW m \in Mirrors, MirrorStep(m) PROVE ReadingInv'
  BY <1>4, MirrorSteps
<1>5. ASSUME NEW t \in Threads, ThreadStarts(t) PROVE ReadingInv'
  BY <1>5, ThreadSteps
<1>6. ASSUME NEW w \in Works, RemoveEntry(w) PROVE ReadingInv'
  BY <1>6, RemoveSteps
<1>7. ASSUME Outside, UNCHANGED openVars PROVE ReadingInv'
  BY <1>7, OutsideSteps, AsideSteps DEF ReadingInv, SameRequest
<1> QED BY <1>1, <1>2, <1>3, <1>4, <1>5, <1>6, <1>7, <1>8 DEF OpenNext
LEMMA RequestsFit ==
  ASSUME NEW q \in Requests \cup {NotReading}
  PROVE  Fits(q, ReadFields) /\ HearsNamed(q)
<1>1. \A at, tool, item, attachment, key :
        LET x == Reading(at, tool, item, attachment, key) IN
        /\ Fits(x, ReadFields)
        /\ x.at = at /\ x.tool = tool /\ x.attachment = attachment
  BY DEF Reading, Fits, ReadFields
<1>2. \E at, tool, item, attachment, key :
        /\ q = Reading(at, tool, item, attachment, key)
        /\ tool = "item" /\ attachment # NONE => at \in {"item", "idle"}
  BY DEF Requests, KeyRequests, ItemRequests, ResultRequests, QueryRequests, NotReading
<1> QED BY <1>1, <1>2 DEF HearsNamed

LEMMA ReadingInitially == Init => ReadingInv /\ ReadersInv
<1> SUFFICES ASSUME Init PROVE ReadingInv /\ ReadersInv
  OBVIOUS
<1> USE DEF Init, OpenInit, StructureInit
<1>1. StructureInv
  BY DEF StructureInv, ParseOK, Fits, ParseFields, Idle, Seen, Starting
<1>2. CorpusInv
  BY DEF CorpusInv, MirrorOK, Fits, NotMirroring
<1>3. OpenInv
  BY NotOpenFits DEF OpenInv, OpenOK, Fits
<1>4. ReadersInv
  BY RequestsFit DEF ReadersInv, Fits
<1> QED BY <1>1, <1>2, <1>3, <1>4 DEF ReadingInv

LEMMA ReadingKept == ReadingInv /\ [Next]_vars => ReadingInv'
<1> SUFFICES ASSUME ReadingInv, [Next]_vars PROVE ReadingInv'
  OBVIOUS
<1>1. CASE OpenNext
  BY <1>1, OpenNextKeeps
<1>2. CASE UNCHANGED <<structureVars, openVars>>
  BY <1>2, AsideSteps, StructureStays DEF structureVars, ReadingInv, SameRequest
<1> QED BY <1>1, <1>2 DEF Next, vars, Others, ReadStep, CachedKey, CachedItem, ReadItem,
        ReadText, BestCached

LEMMA SpecReading == Spec => []ReadingInv
BY ReadingInitially, ReadingKept, PTL DEF Spec

(* A structure is never of an older file than the call saw in the item: the *)
(* cache answers by version, and what fills it was parsed after the version *)
(* was seen (service.rs:1229).                                              *)
THEOREM StructuresAreFresh == Spec => []StructureFresh
<1>1. ReadingInv => StructureFresh
  BY DEF ReadingInv, StructureInv, ParseOK, StructureFresh
<1> QED BY <1>1, SpecReading, PTL

(* The answer says truly where its text and its structure come from, for    *)
(* all views and whichever attempts failed before (service.rs:2273).        *)
THEOREM ProvenanceIsTrue == Spec => []ProvenanceTrue
<1>1. ReadingInv => ProvenanceTrue
  BY NotOpenFits DEF ReadingInv, OpenInv, OpenOK, Opened, Whence, Told, ProvenanceTrue
<1> QED BY <1>1, SpecReading, PTL

(* Where the names of the files tell the works apart, a text and a          *)
(* structure are of the paper that was named (service.rs:653), and of the   *)
(* attachment that was named, but for the structure of one that the item    *)
(* does not have, or no longer: Answers says what it is of then.            *)
THEOREM OpenedIsWhatWasRequested ==
  ASSUME NamesDiffer
  PROVE  Spec => []OpenedIsRequested
<1>1. ReadingInv => OpenedIsRequested
  <2> SUFFICES ASSUME ReadingInv PROVE OpenedIsRequested
    OBVIOUS
  <2>1. ASSUME NEW c \in Calls,
               open[c].text.of \notin {NONE, BLANK} \/ open[c].structure.of \notin {NONE, BLANK}
        PROVE  TextOf(open[c].target, open[c].text) /\ StructureOf(open[c].target, open[c].structure)
    <3>1. open[c] # NotOpen
      BY <2>1, NotOpenFits DEF NoText
    <3> QED BY <3>1 DEF ReadingInv, OpenInv, OpenOK, Opened, Whose
  <2>2. ASSUME NEW c \in Calls, open[c].text.of \notin {NONE, BLANK}
        PROVE  TextRequested(c, open[c].text.of)
    BY <2>1, <2>2 DEF TextOf, MayRead, Named, TextRequested
  <2>3. ASSUME NEW c \in Calls, open[c].structure.of \notin {NONE, BLANK}
        PROVE  StructureRequested(c, open[c].structure.of)
    BY <2>1, <2>3 DEF StructureOf, Named, StructureRequested, TextRequested
  <2>4. ASSUME NEW c \in Askers, parse[c].at = "done", parse[c].about # BLANK
        PROVE  Answers(parse[c].item, parse[c].prefer, parse[c].about)
    <3>1. ParseOK(parse[c]) /\ version \in [Attachments -> Nat]
      BY OpenAssumption DEF ReadingInv, StructureInv
    <3> QED BY <2>4, <3>1, ParsedAnswers DEF ParseOK
  <2> QED BY <2>2, <2>3, <2>4 DEF OpenedIsRequested
<1> QED BY <1>1, SpecReading, PTL

(* The text and the structure of one answer are then of one attachment,     *)
(* unless the text is of one that is not the item's, or is gone from Zotero *)
(* by now (service.rs:742).                                                 *)
THEOREM AnswerIsOneDocument ==
  ASSUME NamesDiffer
  PROVE  Spec => []OneDocument
<1>1. ReadingInv => OneDocument
  BY NotOpenFits DEF ReadingInv, OpenInv, OpenOK, Opened, Matching, OneDocument, Kind
<1> QED BY <1>1, SpecReading, PTL

-----------------------------------------------------------------------------
LEMMA ReaderMoves ==
  ASSUME ReadersInv, NEW r \in Readers, NEW q, Fits(q, ReadFields), HearsNamed(q),
         read' = [read EXCEPT ![r] = q]
  PROVE  ReadersInv'
BY DEF ReadersInv, Fits

LEMMA ReaderSteps ==
  ASSUME ReadersInv, NEW r \in Readers, ReadStep(r)
  PROVE  ReadersInv'
<1> DEFINE o == read[r]
           Named1 == o.tool = "item" /\ o.attachment # NONE
<1>1. Fits(o, ReadFields) /\ HearsNamed(o)
  BY DEF ReadersInv
<1>2. ASSUME NEW at, ReadTo(r, at), at = "error" \/ ~Named1 PROVE ReadersInv'
  <2> DEFINE q == [o EXCEPT !.at = at]
  <2>1. /\ Fits(q, ReadFields) /\ q.at = at /\ q.tool = o.tool
        /\ q.attachment = o.attachment /\ read' = [read EXCEPT ![r] = q]
    BY <1>1, <1>2 DEF Fits, ReadFields, ReadTo
  <2> HIDE DEF q
  <2>2. HearsNamed(q)
    BY <1>2, <2>1 DEF HearsNamed
  <2> QED BY <2>1, <2>2, ReaderMoves
<1>3. ASSUME NEW text, Gives(r, text), Named1 => text.of = o.attachment PROVE ReadersInv'
  <2> DEFINE q == [o EXCEPT !.at = "done", !.text = text]
  <2>1. /\ Fits(q, ReadFields) /\ q.at = "done" /\ q.tool = o.tool /\ q.text = text
        /\ q.attachment = o.attachment /\ read' = [read EXCEPT ![r] = q]
    BY <1>1, <1>3 DEF Fits, ReadFields, Gives
  <2> HIDE DEF q
  <2>2. HearsNamed(q)
    BY <1>3, <2>1 DEF HearsNamed
  <2> QED BY <2>1, <2>2, ReaderMoves
<1>4. CASE CachedKey(r) \/ CachedItem(r) \/ BestCached(r)
  <2>1. ~Named1
    BY <1>1, <1>4 DEF CachedKey, CachedItem, BestCached, HearsNamed
  <2> QED BY <1>2, <1>3, <1>4, <2>1 DEF CachedKey, CachedItem, BestCached
<1>5. CASE ReadItem(r)
  <2>1. CASE ReadTo(r, "error")
    BY <1>2, <2>1
  <2>2. CASE ~ReadTo(r, "error")
    <3> DEFINE a == AttachmentToRead(r)
               q == [o EXCEPT !.at = "text", !.key = a]
    <3>1. a # NONE /\ read' = [read EXCEPT ![r] = q]
      BY <1>5, <2>2 DEF ReadItem
    <3>2. o.attachment # NONE => a = o.attachment
      BY <3>1 DEF AttachmentToRead
    <3>3. /\ Fits(q, ReadFields) /\ q.at = "text" /\ q.key = a /\ q.tool = o.tool
          /\ q.attachment = o.attachment
      BY <1>1 DEF Fits, ReadFields
    <3> HIDE DEF q, a
    <3>4. HearsNamed(q)
      BY <3>2, <3>3 DEF HearsNamed
    <3> QED BY <3>1, <3>3, <3>4, ReaderMoves
  <2> QED BY <2>1, <2>2
<1>6. CASE ReadText(r)
  <2> DEFINE text == [of |-> o.key, version |-> version[o.key], from |-> "zotero_fulltext"]
  <2>1. /\ Named1 => o.key = o.attachment
        /\ o.tool = "vox_text" => ~Named1
    BY <1>1, <1>6 DEF ReadText, HearsNamed
  <2>2. \/ Gives(r, text)
        \/ ReadTo(r, IF o.tool = "vox_text" THEN "query" ELSE "error")
    BY <1>6 DEF ReadText
  <2> QED BY <1>2, <1>3, <2>1, <2>2
<1> QED BY <1>4, <1>5, <1>6 DEF ReadStep

(* Whoever names an attachment of an item hears that one, and no cached     *)
(* text, for any number of readers (service.rs:1600).                       *)
THEOREM NamedIsHeard == Spec => []HeardIsNamed
<1>1. ReadersInv /\ [Next]_vars => ReadersInv'
  BY ReaderSteps DEF Next, vars, ReadersInv
<1>2. ReadersInv => HeardIsNamed
  BY DEF ReadersInv, HearsNamed, HeardIsNamed
<1> QED BY <1>1, <1>2, ReadingInitially, PTL DEF Spec

(* Where file names tell the works apart, whoever names a work, an item or  *)
(* an attachment gets that one, to see or to hear; but a structure of one   *)
(* of the item's attachments if the named one is not, or no longer, there.  *)
THEOREM NamedIsAlwaysRead ==
  ASSUME NamesDiffer
  PROVE  Spec => []NamedIsRead
<1>1. OpenedIsRequested /\ HeardIsNamed => NamedIsRead
  BY DEF NamedIsRead
<1> QED BY <1>1, OpenedIsWhatWasRequested, NamedIsHeard, PTL

=============================================================================
