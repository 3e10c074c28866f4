----------------------------- MODULE PaperSearch -----------------------------
(***************************************************************************)
(* One paper search from the request to the pages a client reads:          *)
(* `search` (src/src/external/mod.rs) asks the enabled sources at once,    *)
(* each under its own timer, `search_papers` (src/src/service.rs) merges   *)
(* their hits with those of the corpus and of the research workspace,      *)
(* ranks them and cuts a page.  The merge itself is SearchMerge, whose     *)
(* steps this module takes over unchanged.                                 *)
(*                                                                         *)
(* A later page comes from a new search.  The pages are those of sources   *)
(* and a corpus that answer as they did for the first one.                 *)
(***************************************************************************)
EXTENDS SearchSources

CONSTANTS
  Present,        \* the sources of the instance, a part of the thirteen
  Requests,       \* the requests that may be made
  Holds,          \* the entries each source may send
  Copies,         \* the corpus, in the order of corpus.json
  ResearchHits,   \* what the research workspace may find
  DefaultPage, MaxPage,
  MaxFetch        \* the most hits taken from one source

CacheModes == {"auto", "include", "only", "off"}

AllSources == {SourceOrder[i] : i \in DOMAIN SourceOrder} \cup {"paperseed", "research"}

(* sources = None: the caller named none, and all are asked.               *)
Request == [ids: [Kinds -> Identifiers \cup {None}],
            isbn: Isbns \cup {None},
            title: Titles \cup {None},
            sources: (SUBSET AllSources) \cup {None},
            cache: CacheModes,
            limit: Nat]

ASSUME RequestsAssumption ==
  /\ Present \subseteq AllSources \ {"paperseed", "research"}
  /\ "crossref" \in Present
  /\ Requests \subseteq Request
  /\ Holds \in [Present -> SUBSET Entries]
  /\ {Copies[i] : i \in DOMAIN Copies} = Cached
  /\ DefaultPage \in 1 .. MaxPage /\ MaxPage \in Nat /\ MaxFetch \in Nat \ {0}

VARIABLES
  request,    \* what was asked
  keysSet,    \* the keyed sources that have a key
  stores,     \* the local stores there are: "paperseed", "research"
  stage,      \* "asking", "merging", "paging" or "closed"
  outcome,    \* of each source: [status, hits]
  ok, skipped, failed,   \* the diagnostics
  answer,     \* the ranked hits
  offset, shown          \* the pages: where the next begins, what was read

searchVars == <<request, keysSet, stores, stage, outcome, ok, skipped, failed,
                answer, offset, shown>>

-----------------------------------------------------------------------------
(* The request.                                                            *)

Names(source) == request.sources # None => source \in request.sources

CacheMode ==
  IF request.cache # "auto" \/ request.sources = None THEN request.cache
  ELSE IF "paperseed" \notin request.sources THEN "off"
  ELSE IF request.sources = {"paperseed"} THEN "only" ELSE "include"

Blanked == /\ \A k \in Kinds : request.ids[k] = None
           /\ request.isbn = None /\ request.title = None

(* A DOI is looked up at Crossref alone.                                   *)
DirectCrossref ==
  request.ids[Doi] # None /\ CacheMode # "only" /\ Names("crossref")

FanOut == ~DirectCrossref /\ CacheMode # "only"

Enabled == IF FanOut THEN {s \in Present : Names(s)} ELSE {}

Waiting == {s \in Enabled : outcome[s].status = "waiting"}

(* The results come in the order in which the sources were started.        *)
InOrder(S) ==
  FlattenSeq([n \in DOMAIN SourceOrder |->
                IF SourceOrder[n] \in S THEN <<SourceOrder[n]>> ELSE <<>>])

(* Mistake: sources that were not asked are listed too.                    *)
WithStatusOfAll(status) ==
  InOrder({s \in Present : outcome[s].status = status})

WithStatus(status) ==
  InOrder({s \in Enabled : outcome[s].status = status})

-----------------------------------------------------------------------------
(* The fan-out.                                                            *)

Set(s, status, list) ==
  outcome' = [outcome EXCEPT ![s] = [status |-> status, hits |-> list]]

AskInit ==
  /\ request \in Requests
  /\ keysSet \in SUBSET (Keyed \cap Present)
  /\ stores \in {{}, {"paperseed"}, {"paperseed", "research"}}
  /\ stage = "asking"
  /\ outcome = [s \in Present |->
                  [status |-> IF s \in Keyed \ keysSet THEN "skipped" ELSE "waiting",
                   hits |-> <<>>]]
  /\ ok = <<>> /\ skipped = <<>> /\ failed = <<>>
  /\ answer = <<>> /\ offset = 0 /\ shown = <<>>

UnchangedRequest == UNCHANGED <<request, keysSet, stores>>
UnchangedPages == UNCHANGED <<answer, offset, shown>>

(* A source answers in time; more hits than the limit are not taken.       *)
SourceAnswers(s) ==
  /\ stage = "asking" /\ s \in Waiting /\ ~Blanked
  /\ \E entries \in Lists(Holds[s], MaxFetch) :
       Set(s, "ok", Answer(s, entries, MaxFetch, request.isbn))
  /\ UNCHANGED <<stage, ok, skipped, failed, vars>>
  /\ UnchangedRequest /\ UnchangedPages

(* An error, a refused query or the timer.                                 *)
SourceFails(s) ==
  /\ stage = "asking" /\ s \in Waiting
  /\ Set(s, "failed", <<>>)
  /\ UNCHANGED <<stage, ok, skipped, failed, vars>>
  /\ UnchangedRequest /\ UnchangedPages

(* The hits of the sources of a list, one source after the other.          *)
Joined(list) == FlattenSeq([n \in DOMAIN list |-> outcome[list[n]].hits])

(* Mistake: the hits are taken over as they arrive.                        *)
CollectArrived ==
  /\ stage = "asking" /\ FanOut
  /\ ok' = WithStatus("ok")
  /\ skipped' = WithStatus("skipped")
  /\ failed' = WithStatus("failed")
  /\ hits' = Joined(WithStatus("ok"))
  /\ stage' = IF Waiting = {} THEN "merging" ELSE stage
  /\ UNCHANGED <<pc, taken, out, keys, index, candidate, cached, placed, from,
                 outcome>>
  /\ UnchangedRequest /\ UnchangedPages

(* All have ended; the lists are in the order of the sources, whatever     *)
(* the order of their answers.                                             *)
Collect ==
  /\ stage = "asking" /\ FanOut /\ Waiting = {}
  /\ ok' = WithStatus("ok")
  /\ skipped' = WithStatus("skipped")
  /\ failed' = WithStatus("failed")
  /\ hits' = Joined(WithStatus("ok"))
  /\ stage' = "merging"
  /\ UNCHANGED <<pc, taken, out, keys, index, candidate, cached, placed, from,
                 outcome>>
  /\ UnchangedRequest /\ UnchangedPages

(* The one hit of a DOI.  A work without a title, whose DOI stands for it, *)
(* is not in the instance.                                                 *)
ResolvedHit(e, doi) ==
  [Crossref(<<e>>)[1] EXCEPT !.ids[Doi] = IF @ = None THEN doi ELSE @]

(* External is what the sources may return: the merge takes its hits from  *)
(* there.                                                                  *)
ASSUME AnswersAssumption ==
  \A r \in Requests :
    /\ \A s \in Present : \A entries \in Lists(Holds[s], MaxFetch) :
         Answer(s, entries, MaxFetch, r.isbn) \in Seq(External)
    /\ \A e \in Holds["crossref"] :
         r.ids[Doi] # None /\ e.ids[Doi] \in {r.ids[Doi], None} /\ e.title # None
           => ResolvedHit(e, r.ids[Doi]) \in External

ResolveDoi ==
  /\ stage = "asking" /\ DirectCrossref
  /\ \/ /\ \E e \in Holds["crossref"] :
             /\ e.ids[Doi] \in {request.ids[Doi], None}
             /\ e.title # None
             /\ hits' = <<ResolvedHit(e, request.ids[Doi])>>
        /\ ok' = <<"crossref">> /\ failed' = <<>>
     \/ hits' = <<>> /\ ok' = <<>> /\ failed' = <<"crossref">>
  /\ stage' = "merging"
  /\ UNCHANGED <<pc, taken, out, keys, index, candidate, cached, placed, from,
                 skipped, outcome>>
  /\ UnchangedRequest /\ UnchangedPages

CacheOnly ==
  /\ stage = "asking" /\ CacheMode = "only"
  /\ stage' = "merging"
  /\ UNCHANGED <<vars, ok, skipped, failed, outcome>>
  /\ UnchangedRequest /\ UnchangedPages

-----------------------------------------------------------------------------
(* The merge, the corpus and the research workspace.                       *)

UnchangedSearch == UNCHANGED <<stage, skipped, outcome>> /\ UnchangedRequest
                   /\ UnchangedPages

CorpusAsked == CacheMode # "off" /\ "paperseed" \in stores

Merging ==
  /\ stage = "merging"
  /\ Dedupe \/ MergePreferCached
  /\ UnchangedSearch /\ UNCHANGED <<ok, failed>>

(* The corpus is searched; of what it finds for an automatic search a      *)
(* filter keeps what the query bears out.                                  *)
SearchCorpus ==
  /\ stage = "merging" /\ SearchCached
  /\ \/ /\ ~CorpusAsked /\ cached' = <<>>
        /\ UNCHANGED <<ok, failed>>
     \/ /\ CorpusAsked
        /\ ok' = IF cached' # <<>> \/ CacheMode = "only"
                 THEN Append(ok, "paperseed") ELSE ok
        /\ UNCHANGED failed
     \/ /\ CorpusAsked /\ cached' = <<>>
        /\ failed' = Append(failed, "paperseed")
        /\ UNCHANGED ok
  /\ UnchangedSearch

(* What a copy is compared by: what its entry says of the work, not its    *)
(* place in the corpus.                                                    *)
CachedIdentityHit(copy) == [copy EXCEPT !.paperId = None]

(* A hit is told the paper id of the first copy that describes its work.   *)
Annotated(h) ==
  LET same == {i \in DOMAIN Copies :
                 CompatibleIdentity(CachedIdentityHit(Copies[i]), h)}
  IN IF same = {} THEN h ELSE [h EXCEPT !.paperId = Copies[Min(same)].paperId]

(* What the ranking puts first: the DOI of the query, its arXiv id, its    *)
(* title.  The rest of the key of search_rank is left out.                 *)
Rank(h) ==
  LET Match(k) == Shared(Key(h.ids[k]), request.ids[k])
      One(b) == IF b THEN 1 ELSE 0
  IN 4 * One(Match(Doi)) + 2 * One(Match(Arxiv)) + One(h.title = request.title)

(* The sort is stable, and changes nothing when there is nothing to rank   *)
(* by: the place of a hit is one behind all those that come before it.     *)
Before(list, i, j) ==
  \/ Rank(list[i]) > Rank(list[j])
  \/ Rank(list[i]) = Rank(list[j]) /\ i < j

Place(list, i) == 1 + Cardinality({j \in DOMAIN list : Before(list, j, i)})

Ranked(list) ==
  [n \in DOMAIN list |-> list[CHOOSE i \in DOMAIN list : Place(list, i) = n]]

(* The hits of the research workspace are not merged with the others.  A   *)
(* corpus that cannot be read annotates nothing.                           *)
Finished(found) ==
  LET all == out \o found IN
  \/ answer' = Ranked(all)
  \/ /\ CorpusAsked
     /\ answer' = Ranked([i \in DOMAIN all |-> Annotated(all[i])])

(* The files of one work are one hit. A bound: one work is found.          *)
ResearchFound == Lists(ResearchHits, 1)

SearchResearch ==
  /\ stage = "merging" /\ pc = "done"
  /\ \/ /\ ~Names("research")
        /\ Finished(<<>>) /\ UNCHANGED <<ok, skipped, failed>>
     \/ /\ Names("research") /\ "research" \notin stores
        /\ Finished(<<>>) /\ skipped' = Append(skipped, "research")
        /\ UNCHANGED <<ok, failed>>
     \/ /\ Names("research") /\ "research" \in stores
        /\ \E found \in ResearchFound : Finished(found)
        /\ ok' = Append(ok, "research") /\ UNCHANGED <<skipped, failed>>
     \/ /\ Names("research") /\ "research" \in stores
        /\ Finished(<<>>) /\ failed' = Append(failed, "research")
        /\ UNCHANGED <<ok, skipped>>
  /\ stage' = "paging"
  /\ UNCHANGED <<vars, outcome, offset, shown>> /\ UnchangedRequest

-----------------------------------------------------------------------------
(* The pages.                                                              *)

PageLimit ==
  LET asked == IF request.limit = 0 THEN DefaultPage ELSE request.limit IN
  IF asked > MaxPage THEN MaxPage ELSE asked

PageEnd == IF offset + PageLimit > Len(answer) THEN Len(answer)
           ELSE offset + PageLimit

(* Mistake: the next offset is counted with the limit the client gave.     *)
ReadPageAsAsked ==
  /\ stage = "paging"
  /\ shown' = shown \o SubSeq(answer, offset + 1, PageEnd)
  /\ IF PageEnd < Len(answer)
     THEN offset' = offset + request.limit /\ UNCHANGED stage
     ELSE stage' = "closed" /\ UNCHANGED offset
  /\ UNCHANGED <<vars, outcome, ok, skipped, failed, answer>> /\ UnchangedRequest

(* The client reads a page and follows next_offset while there is one.     *)
ReadPage ==
  /\ stage = "paging"
  /\ shown' = shown \o SubSeq(answer, offset + 1, PageEnd)
  /\ IF PageEnd < Len(answer)
     THEN offset' = offset + PageLimit /\ UNCHANGED stage
     ELSE stage' = "closed" /\ UNCHANGED offset
  /\ UNCHANGED <<vars, outcome, ok, skipped, failed, answer>> /\ UnchangedRequest

-----------------------------------------------------------------------------
SearchInit == Init /\ AskInit

Asking == \/ \E s \in Present : SourceAnswers(s) \/ SourceFails(s)
          \/ Collect \/ ResolveDoi \/ CacheOnly

SearchNext == Asking \/ Merging \/ SearchCorpus \/ SearchResearch \/ ReadPage

SearchSpec == SearchInit /\ [][SearchNext]_<<vars, searchVars>>

(* Every source is under a timer, and the rest is the calling task's and   *)
(* the client's own work.                                                  *)
Served == Collect \/ ResolveDoi \/ CacheOnly \/ Merging \/ SearchCorpus
          \/ SearchResearch \/ ReadPage

FairSearch ==
  /\ SearchSpec
  /\ \A s \in Present : WF_<<vars, searchVars>>(SourceFails(s))
  /\ WF_<<vars, searchVars>>(Served)

=============================================================================
