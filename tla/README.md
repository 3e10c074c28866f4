# Specifications of paperbridge

paperbridge finds, stores and opens research papers for agents: an MCP server and a command line over a
dozen paper sources, a Zotero library and **paperseed**, a corpus of papers on disk. This directory holds
TLA+ models of the parts whose correctness depends on the order in which things happen, the TLC
configurations that check them on small instances, and TLAPS proofs for every instance.

- [1 The system](#1-the-system)
- [2 The modules](#2-the-modules)
- [3 The corpus store](#3-the-corpus-store)
- [4 The index file](#4-the-index-file)
- [5 The request router](#5-the-request-router)
- [6 A search](#6-a-search)
- [7 Zotero](#7-zotero)
- [8 Reading papers](#8-reading-papers)
- [9 Settings and access](#9-settings-and-access)
- [10 Texts](#10-texts)
- [11 The runs](#11-the-runs)
- [12 The proofs](#12-the-proofs)
- [13 Where the code and its documents part](#13-where-the-code-and-its-documents-part)
- [14 What is not modelled](#14-what-is-not-modelled)
- [15 Plan](#15-plan)

To check: `tlc -config MCCorpus_concurrent.cfg MCCorpus.tla` (likewise for the other configurations), and
`tlapm` on the eight modules whose names end in `_proofs`. `PROJECT.json` lists the runs, the lines each
definition translates, a mutation per property, the hazards and the theorems.

## 1 The system

| Component | State it keeps | Operations | Correct when |
|---|---|---|---|
| **Corpus operations** `crates/paperseed/src/app.rs` | a directory: `corpus.json`, `corpus.idx.bin`, `files/`, `text/`, `seeds/`, `.staging/` | import, ingest, get text, remove, reindex, search, seed check and create, status | no operation undoes another; what an entry names exists; what stays behind is known; what is seeded may be |
| **Corpus file** `db.rs` | the list of entries; a static write lock | load, upsert, save, get | a save writes the last corpus with one paper changed |
| **Index bridge** `indexing.rs`, **BM25F index** `crates/paperseed-index` | the index file; a cache of it in memory | build, persist, upsert, search, status | the index is that of the corpus, or is reported not to be |
| **Content storage** `storage.rs` | files named by their hash | copy and hash, verify | a file under a hash has that content |
| **Licence policy** `policy.rs`, `sources.rs` | none | evaluate, resolve a request's licence | only licensed material is seeded |
| **YAMS adapter** `yams.rs`, **resolver** `resolver.rs` | an external program, external services | index, search, read; resolve, download | a failure is an absent answer |
| **Request router** `src/request_router.rs` | permits per origin and in all, a cooldown per origin, counters | send | limits and cooldowns hold; no permit is lost; every call returns |
| **Search fan-out** `src/external/mod.rs`, source clients `src/external/*.rs` | none between searches | search, dedupe | every source's outcome is told; the same paper is listed once |
| **Service** `src/service.rs` | structure cache; detached mirror threads | search, open, read, mirror | cache and sources agree on identity; pages cover the text |
| **Zotero backends** `src/backends` | the remote library | reads with retries, guarded writes | a write happens at most once |
| **Paper structure** `src/paper` | a GROBID container; the structure cache | probe, start, parse, fall back | a structure is of the paper and no older than the call |
| **Configuration** `src/config.rs`, `src/main.rs` | `config.toml` | set, init, setup, load | settings survive other settings; what validates makes a service |
| **Institution access** `src/access.rs` | none | ask the resolver, choose, open | only what the profile and the mode call for is opened |
| **Books, chunking, outlines** `src/book`, `src/chunking.rs` | none | chapters, chunks, pages, outlines | the parts make up the whole, within the limits |
| Update check, MCP server, other commands | a small cache file | call the service, print | see section 14 |

How they interact. The server runs many tool calls at a time on a multi-threaded runtime, and each calls the
service. The service searches through the fan-out, whose sources all send through one global router, each
under a timeout that drops its future. The service calls corpus operations directly, from many threads, and
starts a detached thread per open-access hit that downloads a file and *ingests* it. A `paperbridge` or
`paperseed` command is another process on the same corpus directory. There is no shared memory between
processes and no lock but the static mutex in `db.rs`, one for each process.

What is hard here, and hard to test: read-change-write sequences on files by threads and processes, which
only some operations lock and only for some of their steps; crashes and errors between steps that belong
together; futures dropped at any await while they hold permits; cooldowns that change while calls wait for
permits; decisions made on one load of a file and used with a later one; merges of records that change what
earlier comparisons were based on. `PROJECT.json` lists every such
place with its line.

## 2 The modules

| Modules | What they are |
|---|---|
| `CorpusPolicy`, `Corpus` | the licence policy; the directory and the threads that work on it |
| `CorpusCatalog` | an abstract specification: a catalogue that changes one paper at a time |
| `CorpusLeftovers` | `Corpus` with a history variable: the papers of which something may have been left behind |
| `PaperIndex`, `IndexFile` | the BM25F index as functions; its file, the writers and the decoded copy in memory |
| `RequestRouter` | the calls of `RequestRouter::send`, their permits, cooldowns and counters |
| `RequestPool` | an abstract specification: a pool with a limit per origin and one in all |
| `SearchMerge` | `dedupe` and `merge_prefer_cached`: from the hits of the sources and the corpus to one list |
| `SearchSources`, `PaperSearch` | what each source's client makes of its answer; a whole search, page by page. Takes the steps of `SearchMerge` over, and implements it |
| `ZoteroBackend` | requests and their validation; calls, the API, the network and other clients |
| `PaperStructure`, `OpenPaper`, `ReadingAloud` | structures and GROBID; `open_paper` and the mirror on top of it; the texts for speech on top of both |
| `InstitutionProfile`, `Configuration`, `Settings`, `SourceAccess` | the fields and the profile made of them; setting and loading; the commands on `config.toml`; `papers access` |
| `TextChunks`, `OpenText` | chunks and chapters as functions; a reader who pages through them |
| `TeiParser`, `TextSections` | how a structure is made: of GROBID's document, or of the lines of a plain text |
| `StructureOutline` | what is returned of a structure, whole or by a selector |

Each group has a module of properties (`CorpusProperties`, `RequestRouterProperties`, `PaperSearchProperties`,
`ReadingProperties`, `AccessProperties`; those of `IndexFile`, `ZoteroBackend`, `OpenText`, `TeiParser`,
`TextSections` and `StructureOutline` stand at their end), a module `MC...` with instances for TLC and configurations
named after it, and where there are theorems a module `..._proofs`.

A definition whose comment begins with `Mistake:` is a wrong version of the one after it. It is not part of
the specification: it is put in that one's place to see that a property notices.

## 3 The corpus store

**State.** Of the directory: `source` (the content of the file the user imports), `staged` (`.staging/`),
`files` (whether each file is there, and intact), `blobs` (whose text `text/<hash>.txt` holds),
`db` and `dbTmp` (`corpus.json`, `corpus.tmp`), `index` and `idxTmp` (`corpus.idx.bin`, `corpus.idx.tmp`)
and `manifests` (the licence each seed manifest states). Of a process: `lock`. Of a thread: the operation,
its next step, and the local variables of the Rust function (`request`, `paper`, `pending` for the entry,
`text`, `view` for the loaded `CorpusDb`, `draft` for the built `Index`). Three history variables count
operations and faults and remember which imports returned `Ok`.

A paper is its content hash, since its id, blob and manifest are all named by it. A file in `files/` and `.staging/`
is a hash and an extension: the same bytes imported as `.pdf` and as `.bin` are two files of one paper, and the
entry names the last. An entry holds what the properties tell apart: a title that stands for all indexed metadata, the
licence, whether it names a blob, whether it has a YAMS hash, the extension of its file.

**Steps.** One action is one access to the shared directory, with everything the code does in memory before
the next one.

| Operation | Its steps |
|---|---|
| import, ingest | `BeginImport` `ExtractStaged` `Place` `LockAndUpsert` `WriteBlob` `WriteDbTmp` `RenameDb` `UpsertIndex` `WriteIndexTmp` `RenameIndex` |
| get_full_text | `BeginText`, then `ReadBlob`, or `FetchText` `LockAndUpsert` and on as an import |
| remove_entry | `BeginRemove` `WriteDbTmp` `RenameDb` `RebuildIndex` `WriteIndexTmp` `RenameIndex` `RemoveFile` `RemoveBlob` `RemoveManifest` |
| reindex | `BeginReindex` `RebuildIndex` `WriteIndexTmp` `RenameIndex` |
| search | `BeginSearch` `SearchIndex`, and if there is no index, as reindex |
| create_seed_manifest | `BeginSeed` `ReloadForSeed` `VerifyForSeed` `WriteManifest` |

The lock is taken in `LockAndUpsert` and `BeginRemove` and released by `RenameIndex`, or by any failure.
`FailIo` lets an I/O call fail before it has an effect, at any step; `Crash` ends a process: its memory is
gone, the directory stays. `ReplaceSource` and `Damage` are what users and disks do.

**Abstractions.** A file is written in one step (`fs::write`, a copy): what a crash leaves half-written is
a temporary file, which nothing reads. Renames survive crashes (no power loss). Looking whether the stored
file exists and moving the staged one are one step, `Place`; a YAMS answer is part of it. An import with its
own YAMS hash is one that YAMS accepted. Left out: text inside `corpus.json` from old versions, lookup by an
ambiguous prefix, the move of an unreadable `corpus.json`. What an index is made of and its
copy in memory are the next section.

**Properties.**

- `NoLostImport` and the refinement `CatalogSpec`: saving the whole corpus file never undoes another write.
- `TextOfPaper`: a stored text belongs to the stored bytes, whatever happens to the source meanwhile.
- `PersistedIndexTracksMembership`: a writer that renames an index into place has an index of the corpus,
  even if it began from one that earlier failures left behind.
- `FilesMatchEntries`: what an entry names is on disk, whatever failed before, for callers who take turns. With several
  callers at once it is broken by steps outside the lock (removal deletes files after it released the lock; a lazy
  text writes back the entry it loaded first): see the hazards.
- `LeftoversAccounted`: what is on disk and no entry names is of a paper in `loose`. That one is grown by an operation
  that a failing call, a crash or the policy cuts short (`LetGo`), and by an import that puts an entry in the place
  of one that named another file or had a text (`Replaced`); imports, texts, seeds and removals that go through clean
  up after each other, blobs and manifests included.
- `EveryOperationReturns`: no failure keeps the lock.

## 4 The index file

**State.** `corpus` (the documents in the order of `corpus.json`), `file` (an index, `Broken` or `Nil`), `tmp` (the
temporary file that all savers share: an index and its stamp and, as history, the papers it was made from),
`handles` (where the file is by now that a thread writes: still temporary, in place, or unlinked), `cache`
(`INDEX_CACHE`: an index, its stamp and, as history, its version), and what each thread holds between its steps.
An index is what `index.rs` keeps: documents, the postings of each term with counts per field, lengths, and the
averages, as total and count.

**Steps.** `Import` and `RemoveEntry` change the corpus and hold the lock, `LoadBase` is the choice of
`persist_upsert` to keep the index on disk or rebuild it; `Reindex` and the rebuild of a search take no lock. A save
is `OpenTmp`, which empties the temporary file whoever wrote it, `Write` and `Rename`: a thread may rename what
another has written or only opened, whose bytes then arrive in the file in place, and whose own rename fails
(`RenameFails`). `SaveFails` may end any of the three. A search is `Ask`, `TakeStamp`, `LookUp`, `Load`, `Fill` and
`Answer`, in the order of `load_index_cached`: the stamp is read before the file and the copy is filled with the two.
`Tick` moves the clock of file times, `Damage` breaks the file.

**Abstractions.** A text is the terms the tokenizer makes of it. A score is positive or not: of BM25F that much
does not depend on floating point, and the ranking is left out. There are never more papers than a search
returns. `corpus.json` changes in one step, because its own steps are in `Corpus`. A stamp is a time and a length,
of the write and not of the rename. A write is one call that arrives whole, and a shorter index over a longer one
decodes, since `postcard` ignores what follows.
Two history variables: `behind`, the papers whose document may be older than the corpus because a save failed or
an older index was put in place; and `stamps`, the stamps of all versions of the file.

**Properties.** `IndexMirrorsCorpus`: a query finds each paper that is not behind by its present text and nothing
else, after any sequence of upserts of a finished index. `AnswersCurrent`: no search answers from an index that
had been replaced before it began, unless two versions had the same stamp.

## 5 The request router

**State.** For a call of `send`: its next step, its attempts, the delay it carries. For an origin: its free
permits and what is left of its cooldown. The free global permits, `in_flight`, the metrics that grow, and
one history variable: attempts sent to an origin since its cooldown began.

**Steps.** A step is what a call does between two awaits: `Call`, `ReadCooldown`, `Wake`, `AcquireOrigin`,
`AcquireGlobal`, `Recheck`, `Send`, then `TransportFails`, `Answered` or `RateLimited` with `ExtendCooldown`,
and `Finish` when the caller has read or dropped the response. `Recheck` and `Send` have no await between
them and still are two steps, as other threads run in between; `Send` is therefore the one point where a
call cannot be dropped. `Cancel` is the timeout around the call. `Tick` lets time pass.

**Abstractions.** Deadlines are kept as what is left of them; the delay of a 429 or 503 is any number of
ticks up to `MaxDelay`, which stands for the cap. A semaphore hands its permits out in any order, where
tokio's is first-in first-out: the model has more behaviours than the code. The semaphores are never closed.
A request that `request_origin` could clone can be cloned again. Calls are made once each. The last event and
the latency table are left out.

**Properties.** `CountersHold`: `PermitsConserved` (no permit is lost or made, over retries, rechecks, errors and
drops) and `InFlightCovers` (the counter never wraps). The refinement `PoolSpec` (limits hold). `CooldownHolds` (during
a cooldown only calls that were past their check are sent, fewer than the origin's limit). `EveryCallReturns`.
`OneRetry` is proved and not run.

## 6 A search

**The search.** `PaperSearch` is `search` and `search_papers`. The sources asked and the keys and stores there are
come with the request (`AskInit`). A source answers (`SourceAnswers`) or fails or runs into its timer
(`SourceFails`); when all have ended `Collect` builds the lists of the diagnostics and joins the hits in the order of
the sources. A DOI is looked up at Crossref alone (`ResolveDoi`), or the corpus is all that is asked (`CacheOnly`). Then
come the merge (`Merging`), the corpus (`SearchCorpus`), the ranking with the research workspace
(`SearchResearch`) and the pages (`ReadPage`). `SearchSources` has one operator for each of the thirteen clients:
which identifiers, title and author it makes of what the source holds.

**The merge.** The loops of `dedupe` and `merge_prefer_cached`: `hits` and how many are `taken`, the records `out`
with the `keys` beside them, `index` and `candidate` of the inner loop; then the copies `cached` and how many are
`placed`. One history variable, `from`, holds the inputs merged into each record. A step is one iteration of a loop:
`TakeNew` and `TakeMatch` take a hit, `Absorb`, `PassOver` and `EndRecheck` are the search that follows a match,
`SearchCached` is the answer of the corpus, `PlaceAtEnd`, `ReplaceMatch` and `Finish` are `merge_prefer_cached`.

**Abstractions.** A hit is the fields that identity depends on. DOI, arXiv id and PMID obey the same rules
and are one function over `Kinds`; a text stands for all texts with its key, `Keyless` for a text that has
none although it is not blank (a bare `https://doi.org/`). An ISBN that cannot be normalized has no key and
cannot hide one that can, so it is none at all. Only the first author counts: merging appends authors. The score of
the ranking is left out but for the part that identity decides, and a later page comes from sources that answer as
they did for the first.

**Properties.**

- `NoTwoAlike`: after each hit, no two records are compatible. `dedupe` compares only the record that
  changed, by keys it computed earlier, while the list shrinks.
- `IdentifiersAgree`: no chain of merges brings contradicting identifiers together or loses one.
- `EverySourceAccounted`: each source asked is in exactly one list of the diagnostics.
- `NothingLost`: an identifier that a source reported reaches the client.
- `PagesCoverOnce`: following `next_offset` gives the ranked hits once each.
- `MergeSpec`: the search implements `SearchMerge`, the specification the theorems are about.
- `SearchEnds`: with sources that never answer and a merge that starts again after each record it takes in.

## 7 Zotero

**State.** `mode` (cloud, local or hybrid), `library` (the version of each object behind the API, 0 for none),
`clock` (the library's version), `call` (of each call: where it is, its request, which of its HTTP exchanges, the
attempt, the last answer, its result) and `late` (writes given up that may still arrive). `effects` is history: what
each call changed.

**Steps.** `Begin` is the service: `ensure_write_supported` and validation before the backend. `Send`, `RetryGet`,
`Wake`, `EndRead`, `EndWrite` are `get_json`, `send_json_write` and `send_delete`. `ServeRead`, `ServeWrite` are the
API and the connection: a write may be applied and its answer lost or unreadable, refused by status or as one of the
failures of a multi-object answer, or arrive after its caller has given up (`ArriveLate`). `Edit` is another client.
`get_item` and `update_item` are two exchanges. The hybrid mode reads locally and writes to the cloud.

**Abstractions.** An object is its version. A caller names a version it has read, or none. A write token is not
modelled: no request is sent twice, so no two carry the same. Delays are a state, not a time.

**Properties.** `ChangesOnce`, `NoLostUpdate` (an update changes the version its caller had read),
`HonestAnswers` (success means changed, a refusal means unchanged for good; only `update_item`, which reads after
its write, may report that read's failure), `CallsReturn`.

## 8 Reading papers

**State.** In Zotero, `version` of each attachment (0 when it is gone); `grobid` (down, starting, up); `cache`
(`paper_cache`); `corpus` (of each paper what its text is about); `incoming` (the files the mirror writes);
`mirror`, `open`, `parse`, `read`: the downloads, and the calls of `open_paper`, of `get_paper_structure` and of the
speech tools.

**Steps.** `PaperStructure`: `GetItem`, `LookUp`, `Probe`, `Spawn`, `WaitUntilAlive`, `Alive`,
`ProcessFulltext` or `BuildFromFulltext`, `Insert`: the cache is looked up and filled under separate locks, and the
attachment may be replaced between any two. `OpenPaper`: `Metadata`, `Toc`, `Read` and the five ways to a text
(`ResearchText`, `AttachmentText`, `PaperText`, `ItemText`, `IdentityText`, the last with a download and its
ingest), `Say`, then the structure. `MirrorWrites`, `MirrorWritten`, `MirrorIngests` are `mirror_open_access_hit`, by
a call or by a detached thread. `ReadingAloud` has `prepare_vox_text`, `prepare_item_for_vox` and
`prepare_search_result_for_vox`.

**Abstractions.** A text is what it is about, its version and where it was found. A file is blank while it is
written. A download that fails ends that view. The corpus adapter is switched on. A structure without an attachment's
version is never refreshed, as in the code. An attachment that is gone from Zotero does not come back. The attachment
that a call names with an item may be another item's (`Elsewhere`) or the key of a cached paper, which
`resolve_open_targets` (`service.rs:1929`) does not check. The names of incoming files differ in the run:
`paperseed_safe_name` may give two papers one name, and then `NamedIsRead` fails.

**Properties.** `NamedIsRead`: a text or structure is of the paper that was named and, if an attachment was named, of
that one (`OpenedIsRequested`), and whoever names an attachment hears it (`HeardIsNamed`). There is one exception,
which the operator `Answers` states: a structure asked for by an item and an attachment that the item does not have, or
no longer, is silently that of another attachment of the item (`service.rs:1215`, while `prepare_item_for_vox` refuses,
`service.rs:1600`). `OneDocument`: text and structure of one answer are of one attachment, with the same exception: the
text of another item's attachment, or of a cached paper named as one, is answered beside the structure of the item.
`ProvenanceTrue`: the answer says where they come from, also when earlier attempts failed. `StructureFresh`: no
structure is older than the attachment the call saw. `KeyReadsItself`: section 13.

## 9 Settings and access

**State.** `file` (`config.toml`: the fields it mentions), `env`, `cmd` (the commands under way), `access` (the
request of one that runs `papers access`). History: what the user expects of each field (`said`), and whether
commands took turns and none was killed (`calm`). `said` is made of what the user typed alone (`Expected`) and of what was
expected before, never of what the command computes.

**Steps.** `config set`, `config init`, interactive or not, and `config doctor --setup` load, ask and write; the
write truncates and then writes (`Truncate`, `Write`). `Load` is the file, the environment and `validate`. Then
`papers access`: the profile is made of the configuration, the resolver is asked (`Follow`, `Redirected`,
`AnsweredPdf`, `AnsweredPage`, `Unanswered`), the options are ranked and one is opened or named.

**Abstractions.** The fields of the library (`backend_mode`, the two API addresses, `api_key`, type and ids) and of
the institution are all there; of the others one stands for each kind: `hf_token` for the optional texts,
`paperseed_enabled` for the flags, `timeout_secs` for the numbers. Aliases are left out. An institution's address is a
resolver's, a gateway's or malformed; an API address is secure or not (`Secure`: what `ensure_secure_transport` lets
pass); an address of an answer is its host, whether a sign-in is part of it, and where it leads. A login that is no
number may be found or not.

**Properties.** `SettingsKept`: after commands that take turns the file says of every field what was set or answered
last. A blank answer is the value there was, of all fields that `init --force` and `--setup` do not ask about too; a
local library fixes the user and drops key and group; an old institution address takes the place of its kind unless a
new one is set. Of a user id that was looked up nothing is said.
`RunsByPrecedence`: the environment before the file, the specific name before the general one, in any order.
`ProfileBuilds`: what `validate` accepts, `new_profile` accepts; what no service is made of is exactly a key with an
insecure address in use (`KeyAtRisk`), which `validate` lets pass. `OpensTrusted`: what is opened is the paper itself,
or what the resolver or gateway of the profile serves, and the best of it. `AccessEnds`: over any redirects.

## 10 Texts

A text is a sequence of characters, of which matter a letter, a space, a break, a full stop, a tick and what begins
a heading, and the width of each in bytes. `TextChunks` is `split_for_tts` and `split_technical_content`,
`OpenText` the chapters, the table of contents and the reader: `AskToc`, `OpenFirst`, `OpenNext` with the
offset of the page before, and `Replace`, as every call resolves its text anew. The titles of chapters are left out.
The list of headings is a function from where each starts to its chapter's number, so that sublists are subsets of its
domain; the two arrays of `filter_monotonic_candidates` are two recursive functions, `LongestTo` and `ChainTo`.

`TeiParser` is `parse_tei`: one pass over the tags and texts of GROBID's document, with the flags, buffers and
`Option`s of `ParseState`. A text is its number, what is captured is a set of texts, and `said` remembers of each text
which elements it stood in. A document is made as it is read, by a grammar (`Grammars`). That no element but `div` and
`p` is within one of its own name is assumed of it (`Start`), as of all that GROBID writes; a document that is cut off
is an error. How the texts of a capture are joined and trimmed is left out.

`TextSections` is what is made where GROBID is not at hand: the lines of a text, each by the heading it is taken for,
become sections, and the sections become what `build_sections` returns. Lines after `\end{abstract}` and before the
next heading still belong to the abstract, and are dropped with it when the item states its own.

`StructureOutline` is the outline and the selection of a structure within a budget of characters and nodes; one call of
it does not affect the next. Of a text that a selector picks only the first page is modelled.

`ChunksFaithful`: no chunk is longer than asked; the fences in it, behind the breadcrumb, are closed; and the chunks say
what the page says, fences aside. The last two are claimed of pages whose three backticks stand at the start of a line,
as the tests take care to have it (`chunking.rs:537`): where a long line that has them further on is split, they come to
the start of a chunk and are a fence that nothing closes (`QuotesFence`; the run has such texts). A page that quotes a
fence but has none still loses nothing. A breadcrumb that itself starts with three backticks would be one more fence.
`PagesCover`: the pages give the text or chapter once and whole, and none is refused. `ChaptersTile`: the headings kept
ascend and no longer ascending sequence of headings would do; a chapter with text goes from its first heading to the
first of the next chapter, so that the slices divide the book; the table of contents ascends.
`OutlineAccounts`: an outline stays in its budget and says when it leaves something out. A structure beyond the limits of
depth or of the number of sections is refused (`BeyondLimits`), which is no outline.
`StructureKept`: a section has the texts of its `div` of the body, nested ones included, a reference those of its
`biblStruct`, each once and in order, none is missing when the document ends, and title, DOI and authors of the paper
are none of its references'. `LinesSectioned`: every line is in one section, in order, and no two sections have one id;
blank lines are not, nor the words of a heading beside the name of its kind: "Design of the Engine" becomes "Design".

## 11 The runs

| Run | Instance | Shows |
|---|---|---|
| `corpus_concurrent` | 2 threads, 2 papers, 2 requests, all operations, 4 of them, 1 fault, damage | the corpus file, texts and catalogue under any interleaving |
| `corpus_locked` | import, text and remove, 3 of them, 2 faults, fair | the index after failures; every operation returns |
| `corpus_sequential` | 1 thread, 4 operations, 1 fault, 4 requests by 2 extensions, one of them refused, YAMS, damage, a paper that cannot be extracted | what callers who take turns rely on, and what stays behind |
| `index` | 2 papers, 3 texts, 2 threads, 4 operations or 3 and a fault, 2 file times | the index file and its copy in memory |
| `router_limits` | 3 calls to one origin, 1 to another, limits 2 and 2, drops | permits, limits, cooldowns |
| `router_progress` | 2 calls to each of 2 origins, one refused, drops, fair | every call returns |
| `search` | 7 requests, 4 sources with 2 to 5 entries, up to 2 hits each, 3 copies, fair | diagnostics, records, identifiers, pages, the refinement, termination |
| `zotero` | 2 calls, 2 objects, 2 modes, reads try twice, versions to 3, fair | writes, answers, termination |
| `reading` | 2 calls, a mirror thread, a reader, an item with 2 PDFs, an attachment of another, 2 works | identity, origin and age of what is read |
| `vox_identity` | the same | section 13 |
| `access` | 3 commands, 2 at a time, 2 files, 2 environments, 3 settings, 4 and 3 sets of answers, 5 addresses, fair | settings, backend and profile, what is opened |
| `text` | some 2,400 short texts, 6 requests; 12 structures, 6 selectors, 3 budgets; documents of 2 grammars; plain texts | chunks, pages, chapters; what a structure holds and what an outline leaves out |

**Bounds.** `MaxOps`, `MaxCommands` bound the operations and commands started, `MaxFaults` crashes and failing
calls, `MaxDelay` the cooldown, `MaxTime` the file times, `MaxVersion` the versions.
*Corpus:* two writers and one bystander paper are what a lost update takes; a third operation in sequence lets the
index start from what a failed one left; the fourth adds a removal or a re-import around it. Two extensions let the entry
of a paper name another file than before. Two titles let a
re-import change the indexed content; four requests let it change the licence and where it comes from.
*Index:* two of the texts have one length, so that stamps collide; a term is in both fields of the third, and the other
term is gone from a paper whose text becomes a shorter one. Four operations are two writes around two searches, and two
writers are enough to meet in the temporary file. `Budget` is a bound: a fault takes the place of an operation, which
leaves a save that fails, one that goes on from what it left, and a search or a rebuild beside them.
*Router:* three calls on a limit of two make one wait, and a global limit of two lets the other origin compete; one
tick of delay is enough to have a cooldown begin, be found on a recheck and end.
*Search:* two records that a third hit connects through an identifier and a fourth that contradicts one of them;
the entries share a DOI, an arXiv id, an ISBN or title and author, bridge two of these, contradict, or have a keyless
identifier. Pages of one, two and three, and a limit of zero and above the maximum.
*Zotero:* two objects and two calls let a second call and another client come between the read and the write of
the first, and a late request arrive after either; one retry tells the first attempt from the last.
*Reading:* the constraint `OneSide` keeps apart what does not interact: nothing that happens to the corpus concerns
an item of Zotero, and the readers stand alone, so while one side moves the others stay as they were at the start,
without files of earlier downloads too. Where the two
meet, one of them is at rest: the key of a cached paper is asked for as an item while Zotero stays as it was, and named
as an item's attachment while the corpus does.
*Access:* three commands let two overlap and a third read what they left; `Alone` is a bound: a request for access
runs with no other command under way, with which it shares nothing. The answers are one blank set and one for each kind
of library, by number and by name, from a blank and from an old file. Four redirects as in the code.
*Texts:* up to five lines, three chapters; sizes below, at and above the length of a line, of a breadcrumb and of a
fence; a two-byte character. `Beside` is a bound: one text replaces others. Documents have six elements (`MaxElements`)
and two texts (`MaxTexts`), enough for a `div` in a `div` with a heading beside a figure, or for a title and an author
of a reference after those of the paper; plain texts have four lines (`MaxLines`), enough for two sections of one kind
and lines before and between them. `MCOpenText` takes one of four at a time (`made`): pages, outlines, documents or
plain texts, which share no state.
Papers, threads and the three competing calls are symmetric in the runs that check safety only.

**Deadlock** is not checked: operations and calls are bounded in number, so every instance comes to rest. That
nothing comes to rest too early is what `EveryOperationReturns`, `EveryCallReturns`, `SearchEnds`, `CallsReturn` and
`AccessEnds` say.

**Fairness.** Weak fairness of each thread's `Step` says that the operating system runs every thread that can
run. Nothing is assumed of faults, users or new operations. A mutex need not be fair, and is not assumed to
be: with boundedly many operations, weak fairness suffices. For a call of the router, `Step` includes the provider's
answer: every HTTP client is built with a timeout (10 or 15 seconds, `crossref.rs:22`, `access.rs:150`,
`external/*.rs`) that covers the body, so an exchange ends. `WF(Tick)` says that time passes. Of a search only the
timer of each source (`SourceFails`) and the task itself are fair, never an answer. A Zotero client is built with a
timeout too, so `WF(Api)` says that an exchange ends, in whatever way. `WF(Ask)` is the task that runs `papers access`,
its exchanges included.

## 12 The proofs

The eight modules prove, for every value of the constants that satisfies the assumptions next to their declarations
(types, distinct values, finitely many calls, resolvers that are no gateways, limits of at least one, which
`RequestRouter::new` enforces; `TargetsAssumption` and `AsksAssumption`: an identifier names a work, and the key of an
item is the item's or a cached paper's; `AnswersAssumption`: the hits that the clients can
make of what the sources hold are among those the merge is about). Some theorems have a hypothesis of their own; each
is listed with its theorem, and each is needed, because the property is false without it:

| Theorem | States |
|---|---|
| `TypeCorrect` (corpus, router, merge) | the type invariant, which no run checks again |
| `MutualExclusion` | one thread of a process at a time in the locked section |
| `TextIsOfPaper` | `[]TextOfPaper`, for any number of processes |
| `NoStaleSave`, `NoImportIsLost`, `ImplementsCatalog` | `[]SnapshotCurrent`, `[]NoLostImport`, `Spec => CatalogSpec`, for one process |
| `IndexTracksMembership` | `Spec => PersistedIndexTracksMembership`, for one process (`OneProcess`) whose operations all take the lock (`OnlyWriters`) |
| `EntriesHaveTheirFiles` | `[]FilesMatchEntries`, for one thread (`OneThread`), over any failures |
| `LeftoversAreAccounted` | `LeftoverSpec => []LeftoversAccounted`, for one thread, over any failures |
| `CachedIndexIsCurrent` | `[]AnswersCurrent` |
| `NoPermitLost`, `InFlightNeverWraps`, `CountersAlwaysHold` | the two parts of `[]CountersHold`, and both |
| `CooldownIsKept`, `AtMostOneRetry` | `[]CooldownHolds`, `[]OneRetry` |
| `ImplementsPool` | `Spec => PoolSpec` |
| `DedupeLeavesNoPair`, `IdentifiersNeverMix` | `[]NoTwoAlike`, `[]IdentifiersAgree` |
| `SearchImplementsMerge`, `SearchLeavesNoPair` | `SearchSpec => MergeSpec`, so that the two above hold of every search |
| `SourcesAreAccounted`, `NoIdentifierIsLost`, `PagesAreTheAnswer` | `[]EverySourceAccounted`, `[]NothingLost`, `[]PagesCoverOnce` |
| `NoWriteIsRepeated`, `UpdatesAreNotLost`, `AnswersAreHonest` | `[]ChangesOnce`, `[]NoLostUpdate`, `[]HonestAnswers` |
| `StructuresAreFresh`, `ProvenanceIsTrue`, `NamedIsHeard` | `[]StructureFresh`, `[]ProvenanceTrue`, `[]HeardIsNamed` |
| `OpenedIsWhatWasRequested`, `NamedIsAlwaysRead`, `AnswerIsOneDocument` | `[]OpenedIsRequested`, `[]NamedIsRead`, `[]OneDocument`, where no two works share the name of a file (`NamesDiffer`) |
| `SettingsAreKept` | `[]SettingsKept` |
| `SourcesTakePrecedence` | `[]RunsByPrecedence` |
| `ConfigurationBuilds`, `OnlyTrustedOpens` | `[]ProfileBuilds`, `[]OpensTrusted` |
| `ReaderInvariant`, `PagesAlwaysCover` | `[]PageInv`, `[]PagesCover` |
| `ChaptersAlwaysTile` | `[]ChaptersTile` |
| `LinesAlwaysSectioned`, `StructureAlwaysKept` | `SpecSections => []LinesSectioned`, `SpecTei => []StructureKept` |

*Corpus.* None of the invariants is inductive. `TypeInv` adds to the types which operation each step belongs
to and what it carries, without which the types of `view` and `pending` cannot be kept. `LockHeld` says that
a thread in the locked section holds its process's lock; mutual exclusion follows. `TextInv` says that the
text on its way to a blob is the paper's: it relates the text and the paper of a thread over the steps from
extraction to the blob. `WriteInv` is the heart: a thread in the locked section has in `view` the corpus on
disk but for its own paper, `dbTmp` holds that `view` when it is about to be renamed, and after the rename the
disk holds it. It is inductive because no other thread writes `db` or `dbTmp` meanwhile, which is where the
assumption `OneProcess` enters: with two processes the theorem is false (section 13). The refinement
needs nothing more: `RenameDb` is the one step that changes `db`, and `RenameIndex` the one that
acknowledges. `IndexInv` follows the index through the locked section: after the rename of `corpus.json` the `view` is
the corpus on disk, the `draft` made of it lists the same papers whether it was kept or rebuilt, and so does the
temporary file. A reindex outside the lock may replace that temporary file, which is what `OnlyWriters` excludes.
`AloneInv` says for each step of a lone caller what it may rely on: the staged file, the stored file under the name that
the entry it carries has, the text that goes with it (`AloneKnows`), and of a removal that the entry it carries was the
paper's and is gone (`KnowsPaper`). As every entry of the corpus has its text, no build of an index fails. `LeftInv`
adds what no entry names because an operation has it in hand at the moment: a file that is stored and not yet named
or named no more, a text that is written before the corpus is saved, and what a removal has still to delete. An
operation that ends early lets go of it, and its paper is `loose` from then on.

*Router.* Every claim is about the size of a set of calls. Lemma `Counts` says how a step of one call changes
the size of each set: by one, or not at all, according to that call alone. `RouterInv` puts the conservation
laws, the bound of `in_flight`, the attempts (`Owed`, the calls that have yet to make one, are needed to show
that retries pay for second attempts) and the early sends of an origin together with the calls about to send,
which with the permit of the call that met the rate limit stay below the limit.

*Merge.* `NoTwoAlike` holds between the hits only, so `DistinctInv` says what holds inside the search that
follows a match: the cached keys are those of the records (`KeysFresh`), the records other than the one that
changed are apart (`OthersApart`), and so is that one from the candidates it has passed (`ComparedApart`).
Compatibility is symmetric, which is why comparing in one direction is enough; lemma `AbsorbStep` says what
replacing one element and removing a later one does to the list. `IdentifiersAgree` needs `KeysFresh` too: only
a veto on the present keys makes a promotion safe, which is lemma `ShowsBoth`.

*Search.* Two steps of the search are steps of the merge that begins it, the steps while it merges are the merge's own
and all others leave it alone: that is the refinement. It needs `AskInv`, by which the collected hits are a list of
hits that the sources may give. `CoverInv` says that every hit taken is among the inputs of some record; with
`IdentifiersAgree` and `AskInv`, by which every hit of a source is among those collected, no identifier is lost up to
the answer, and `AnswerInv` carries it over the ranking to the pages. `AccountInv` says which source is on which list
at each stage: a list has no source twice because the sources are started in a fixed order. The lists are joined by a
recursive function, `FlattenSeq`, and what is proved of it (`EachOnce`, `ApartInTwo`, `HoldsNext`) is proved by its
least counterexample; that the ranking is a permutation (`RankedProperties`) is because `Before` orders the places
totally.

*Index.* `IndexInv` says of every stamp that was ever read to which versions it may belong: the stamp a thread holds
is that of a version no older than the file was when its search began, and the copy in memory is no older than any
version that bears its stamp. The order of `load_index_cached`, the stamp before the bytes, is what makes it
inductive: a thread may fill the copy late, but then with the stamp of the older file.

*What an index holds.* `IndexMirrors` is proved from what an index is: `Holds(index, T)` says of a list of texts that
the rows, the lengths, the averages and the postings of every term are those of these texts. The builder
(`BuildHolds`, over the number of documents added) and the upsert of a finished index (`UpsertHolds`: the old postings
leave every term, the new ones are sorted into place) both give such an index, of the texts they were given; what
holds texts is accepted by `validate` (`HoldsIsValid`), finds by their terms and nothing else (`SearchFinds`, for
which every posting must weigh something), and has averages that do not depend on the order of the papers
(`SameAverages`). `MirrorInv` then says that the file mirrors the corpus but for the papers that are behind, that an
index which a thread is about to save mirrors the papers it was made from, that the temporary file mirrors those of
whoever wrote it last (which is why it does not matter to the file in place whose bytes a rename finds), and that
nobody changes the corpus between an import and its load.

*Zotero.* `CallsInv` says for each place of a call what the API may have done for it: nothing before it is asked
(`Fresh`), something after it answered well or the answer could not be read (`Acted`), either after the connection
broke, when the request may also be under way (`late`) and the call never returns to the exchange. That writes are
single exchanges, and the first of their operation, is lemma `Steps`. For `NoLostUpdate` it is not enough: `UpdateInv`
adds that the version a caller names stays at or below that of the object, unless the object is gone, so that the
precondition, which the API checks from above, holds for that very version only.

*Reading.* `ReadingInv` is one invariant of all callers. Of a call for a structure it says that the attachment it works
on is one of the item's (`Chosen`) and still at the version it saw, or newer, or gone, or that the corpus has a paper of
this key and no attachment was named (`FromCorpus`); of the cache, that what it holds is not older than the version it
is filed under (`CacheOK`). Of a call of `open_paper` it says where its text can have come from at each step (`Whence`),
whose it is (`Whose`) and, once it has a text and asks for a structure, that the attachment it prefers is the one it has
read (`Matching`); of a download, that the file in `incoming` is the work's or blank (`MirrorOK`). This last is false when
two works share a name, hence `NamesDiffer`. Replacing an attachment only raises its version or removes it, which
is why no step of one call spoils what another relies on.

*Settings.* While commands take turns (`calm`), the file says of each field what the user expects; from the load to the
answer a command's own configuration does (`Promised`), and until it is written it says what is expected of the
command. The heart is `InteractiveKeeps` and `PromptKeeps`: every configuration that the questions can lead to, without an
error, agrees field by field with what the answers were meant to say; and that writing a configuration and loading
it again is the identity, for files that mention any fields or their old names.

*Access.* `ValidBuilds` is the heart of `ConfigurationBuilds`: the checks of `config.rs`, those of the backend and the
classification in `access.rs` are compared field by field, and `CommandInv` carries it from `Load` to the command that
runs. `RequestInv` says of a request in each of its places how the selected address came about: ranked options of the
resolver that belong to the resolver or the gateway, or the fallback to the gateway or to the address itself.

*Environment.* The sort by precedence is the set of the ascending orders: a listing is arbitrary, and a stable sort of
all of them gives just these. `OverridesHold` says what applying an order amounts to, by the smallest number of
variables for which it fails: a field has its loaded value if no variable of the order sets it, and otherwise the
value of the last one that does. An order lists every variable once (`OrderListsAll`), so the last one has the highest
precedence, and `CommandInv` carries that, too, from `Load` to the command that runs. `EnvironmentsAssumption` leaves
out the variables that the program does not read.

*Pages.* `PagesCover` compares what was read with the text; it does not say where the next page begins. `PageInv` does: a
reader who is told to go on holds the first characters of its text and its offset is the bytes of exactly these, so that
it stands at a character, whatever its width, and another one is left. Widths are positive, so that a text and an offset
determine the place (`PrefixBytes`, `PageAt`); this is what `CharsBefore` breaks. `GiveReadsOn` is one call, `PageStep`
the induction; a replaced text ends the claim, as it does in the property.

*Chapters.* `ChaptersTile` is about one text and needs no strengthening, only the recursion. `LongestTo` is what its
recursion says at every heading (`LongestExists`: a heading where it were not would have a least one) and counts the
longest sequence that ends there (`LongestHasLengths`, `NoLongerUpTo`); `ChainTo` is such a sequence
(`ChainsAreRight`), so that `FilterMonotonic` keeps a longest one (`FilteredAreRight`). For the slices: of two headings
of one chapter the first has at least as much text behind it, because what follows the second one, trimmed, is an end of
what follows the first (`TrimmedSuffix`, `SharedEnd`, `BodyIsSuffix`, `FirstHasMost`). So the choice of the longest body,
which could have taken a running header, takes the first heading (`SliceIsChapter`).

*Sections of a text.* `LinesSectioned` is about what is returned. `SectionsInv` says of the lines read so far that each is
in the section at hand, in one before it or before all of them, unless nothing is said in it; that the sections before
ascend; and that their ids are fresh. A number that no section has had is at most the line that began the section
(`FreshId`), which is why `unique_section_id` finds one; `FlushSound` and `SplitSound` carry the order over the two
places that put sections together.

*Documents.* `TeiInv` says what the flags of the parser stand for. As no element but `div` and `p` is within one of its
own name, a flag is set while its element is open (`PathInv`), so that the section and the reference at hand are those
the path is in, and no `div` of the body is open without one (`SectionInv`, `ReferenceInv`); a section ends with its
outermost `div` and nothing else (`SectionEnds`), when its heading is no longer captured. The heading is one of the
section's own texts because it is captured while the section is open, and there is one, because a heading that has been
read is `known`. Sections and references that have ended keep their texts, as later texts are in later elements
(`SectionsKept`, `ReferencesKept`). A title or a DOI of the paper is captured in an element that began outside every
reference (`TitleInv`), and the names of a person are those read in the `persName` that is open (`AuthorsInv`), which is
why an author of the paper is none of a reference's. `TeiAssumption` says of a grammar that it knows what every element
it allows may contain.

*Only model-checked:* liveness under fairness (`EveryOperationReturns`, `EveryCallReturns`, `SearchEnds`, `CallsReturn`,
`AccessEnds`), which is beyond the prover; `ChunksFaithful`, whose splitting and joining are folds and selections, that
is, operators with operators as arguments, about which no induction can be instantiated; and `OutlineAccounts`, as
structures are trees and the operators on them `RECURSIVE`.

## 13 Where the code and its documents part

`vox_identity` is a run that ends in a violation. `prepare_vox_text`, for an attachment key that Zotero cannot read,
takes the key for a query and reads out the cached paper that ranks first (`src/service.rs:1560`), while the
comment of the function it calls says that identifier reads must never use query matches (`src/service.rs:1769`).

Others were met while modelling. They have no run of their own; where brackets name an instance, the model of it has
the behaviour.

| Said | The code |
|---|---|
| CHANGELOG: concurrent corpus writers are serialized | within one process (`NoLostImport` with two processes) |
| README: manifests are created only when redistribution is allowed | checks one load, writes from another (`app.rs:538`; two threads) |
| README: status warns on drift | compares ids, not content (`indexing.rs:98`): a re-import whose index was not saved goes unnoticed (a fault) |
| `--help` of remove: a paper and its stored file | the file its entry names; one that an earlier import stored under another extension stays (`app.rs:453`; two extensions) |
| `--help` of ingest: licence override | the metadata record's licence wins (`sources.rs:209`) |
| README: results are deduplicated by their identifiers | a copy that connects two records is merged with one |
| tests: `in_flight` is 0 when an exchange is over | not when a timeout drops it on the wire |
| `docs/structured-paper.md:46`: agents should surface or retry | the structure made without GROBID is cached, so asking again does not retry |
| `error.rs:33`: `config validate` helps with a configuration error | it says valid of a key with an address that no backend accepts (`config.rs:885`, `backends/cloud.rs:29`) |
| `config init`: leave blank to disable (`src/main.rs:724`) | blank keeps the address that is set (`src/main.rs:775`) |

## 14 What is not modelled

The components in `PROJECT.json` say which parts and why. In short: the wire formats of providers and HTML;
command-line and MCP plumbing, which calls the service once and formats its answer; the score of a search, which is
floating point; the open-access resolver and the update check, which are one stateless request each; ISBN digits;
set-up of the research workspace; redaction and tracing.

The detached mirror of `OpenPaper` and the import of `Corpus` are not composed: the one hands the other a file that
it has closed, and what happens to a file that changes during an import is `ReplaceSource`.

## 15 Plan

1. Two processes in `Corpus` with the moved `.bad` file of an unreadable `corpus.json`.
2. ISBN check digits and conversion against a reference definition.
