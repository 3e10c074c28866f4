--------------------------- MODULE PaperStructure ---------------------------
(* The structure of a Zotero paper: parsed by GROBID, which may have to be *)
(* started first, or made from the indexed text; cached for the life of    *)
(* the process. Calls run concurrently and Zotero changes meanwhile.       *)
EXTENDS Integers, Sequences, SequencesExt

CONSTANTS
  Calls,        \* calls that may ask for a structure
  Item,         \* the key of an item of Zotero
  Listed,       \* its attachments in Zotero's order
  Elsewhere,    \* attachments of other items
  Pdfs,         \* those attachments that are PDFs
  Configured,   \* whether there is a paper_config
  AutoSpawn,    \* grobid_auto_spawn, with no grobid_url
  MaxVersion,   \* bound on the versions of an attachment
  NONE

ItemAttachments == ToSet(Listed)
Attachments == ItemAttachments \cup Elsewhere

ASSUME StructureAssumption ==
  /\ MaxVersion \in Nat /\ {Configured, AutoSpawn} \subseteq BOOLEAN
  /\ Listed \in Seq(ItemAttachments) /\ ItemAttachments \cap Elsewhere = {}
  /\ NONE \notin Attachments

VARIABLES
  version,  \* the version of every attachment in Zotero, 0 when it is gone
  grobid,   \* the GROBID server or container
  cache,    \* paper_cache
  parse     \* the calls of get_paper_structure

structureVars == <<version, grobid, cache, parse>>

Idle == [at |-> "idle", item |-> NONE, prefer |-> NONE, attachment |-> NONE,
         version |-> 0, about |-> NONE, of |-> 0, source |-> NONE]

(* Where a call starts: with the key of an item, or the id of a paper of   *)
(* the corpus.                                                             *)
Asked(item, prefer) ==
  [Idle EXCEPT !.at = "asked", !.item = item, !.prefer = prefer]

To(c, at) == parse' = [parse EXCEPT ![c].at = at]

(* select_attachment_for_reading: the one asked for if the item has it,    *)
(* else the first PDF, else the first.                                     *)
FirstOf(S) ==
  LET at == {i \in DOMAIN Listed : Listed[i] \in S} IN
  IF at = {} THEN NONE ELSE Listed[Min(at)]

SelectAttachment(prefer) ==
  LET there == {a \in ItemAttachments : version[a] > 0} IN
  IF prefer \in there THEN prefer
  ELSE IF there \cap Pdfs # {} THEN FirstOf(there \cap Pdfs)
  ELSE FirstOf(there)

-----------------------------------------------------------------------------
(* Zotero has no item of another key. An attachment that the item does not *)
(* have gives way to one that it has, unlike in prepare_item_for_vox.      *)
GetItem(c) ==
  /\ parse[c].at = "get_item"
  /\ LET a == SelectAttachment(parse[c].prefer) IN
     \/ /\ parse[c].item = Item /\ a # NONE
        /\ parse' = [parse EXCEPT ![c].at = "look_up", ![c].attachment = a,
                                  ![c].about = a, ![c].version = version[a]]
     \/ To(c, "error")
  /\ UNCHANGED <<version, grobid, cache>>

(* Mistake: an attachment is cached whatever its version.                  *)
AnyVersion(c) ==
  {s \in cache : s.attachment = parse[c].attachment}

(* The cache is looked up under one lock and filled under another.         *)
CachedFor(c) ==
  {s \in cache : /\ s.attachment = parse[c].attachment
                 /\ s.version = parse[c].version}

LookUp(c) ==
  /\ parse[c].at = "look_up"
  /\ IF CachedFor(c) # {}
     THEN \E s \in CachedFor(c) :
            parse' = [parse EXCEPT ![c].at = "done", ![c].of = s.of,
                                   ![c].source = s.source]
     ELSE To(c, IF Configured THEN "probe" ELSE "text")
  /\ UNCHANGED <<version, grobid, cache>>

(* ensure_grobid_ready: a container is started when none answers. One that *)
(* is still starting does not answer and keeps the port.                   *)
Probe(c) ==
  /\ parse[c].at = "probe"
  /\ IF grobid = "up" \/ ~AutoSpawn THEN To(c, "alive") ELSE To(c, "spawn")
  /\ UNCHANGED <<version, grobid, cache>>

Spawn(c) ==
  /\ parse[c].at = "spawn"
  /\ \/ /\ grobid = "down"
        /\ grobid' = "starting" /\ To(c, "wait")
     \/ To(c, "text") /\ UNCHANGED grobid
  /\ UNCHANGED <<version, cache>>

WaitUntilAlive(c) ==
  /\ parse[c].at = "wait"
  /\ IF grobid = "up" THEN To(c, "alive") ELSE To(c, "text")
  /\ UNCHANGED <<version, grobid, cache>>

(* is_alive, then the bytes of the attachment through GROBID.              *)
Alive(c) ==
  /\ parse[c].at = "alive"
  /\ IF grobid = "up" THEN To(c, "process") ELSE To(c, "text")
  /\ UNCHANGED <<version, grobid, cache>>

ProcessFulltext(c) ==
  /\ parse[c].at = "process"
  /\ \/ /\ grobid = "up" /\ version[parse[c].attachment] > 0
        /\ parse' = [parse EXCEPT ![c].at = "insert", ![c].source = "grobid",
                                  ![c].of = version[parse[c].attachment]]
     \/ To(c, "text")
  /\ UNCHANGED <<version, grobid, cache>>

(* Without GROBID the structure is made from the text that Zotero indexed. *)
BuildFromFulltext(c) ==
  /\ parse[c].at = "text"
  /\ \/ /\ version[parse[c].attachment] > 0
        /\ parse' = [parse EXCEPT
             ![c].at = "insert", ![c].of = version[parse[c].attachment],
             ![c].source = IF Configured THEN "grobid_unavailable"
                           ELSE "zotero_fulltext"]
     \/ To(c, "error")
  /\ UNCHANGED <<version, grobid, cache>>

Insert(c) ==
  /\ parse[c].at = "insert"
  /\ cache' = (cache \ CachedFor(c)) \cup
       {[attachment |-> parse[c].attachment, version |-> parse[c].version,
         of |-> parse[c].of, source |-> parse[c].source]}
  /\ To(c, "done")
  /\ UNCHANGED <<version, grobid>>

-----------------------------------------------------------------------------
(* A new file in Zotero, or none any more.                                 *)
ChangeAttachment ==
  /\ \E a \in Attachments :
       /\ version[a] \in 1..(MaxVersion - 1)
       /\ \E v \in {0, version[a] + 1} : version' = [version EXCEPT ![a] = v]
  /\ UNCHANGED <<grobid, cache, parse>>

GrobidComesUp ==
  /\ grobid = "starting" \/ (grobid = "down" /\ ~AutoSpawn)
  /\ grobid' = "up"
  /\ UNCHANGED <<version, cache, parse>>

GrobidStops ==
  /\ grobid # "down"
  /\ grobid' = "down"
  /\ UNCHANGED <<version, cache, parse>>

StructureInit ==
  /\ version = [a \in Attachments |-> 1]
  /\ grobid = "down" /\ cache = {}
  /\ parse = [c \in Calls |-> Idle]

StructureStep(c) ==
  \/ GetItem(c) \/ LookUp(c) \/ Probe(c) \/ Spawn(c) \/ WaitUntilAlive(c)
  \/ Alive(c) \/ ProcessFulltext(c) \/ BuildFromFulltext(c) \/ Insert(c)

Outside == ChangeAttachment \/ GrobidComesUp \/ GrobidStops

=============================================================================
