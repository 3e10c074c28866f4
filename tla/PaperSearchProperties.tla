------------------------ MODULE PaperSearchProperties ------------------------
(***************************************************************************)
(* What the merge of a search promises, and a search to the client that    *)
(* reads its pages.                                                        *)
(***************************************************************************)
EXTENDS PaperSearch

-----------------------------------------------------------------------------
(* The merge                                                               *)

TypeOK ==
  /\ pc \in {"dedupe", "recheck", "cached", "done"}
  /\ hits \in Seq(External) /\ cached \in Seq(Cached)
  /\ taken \in 0 .. Len(hits) /\ placed \in 0 .. Len(cached)
  /\ out \in Seq(Hit)
  /\ Len(from) = Len(out)
  /\ \A i \in DOMAIN from : from[i] \subseteq 1 .. Len(hits) + Len(cached)
  /\ pc \in {"dedupe", "recheck"} => Len(keys) = Len(out)
  /\ pc = "recheck" => index \in DOMAIN out /\ candidate \in 1 .. Len(out) + 1

(* dedupe returns no two records that describe one work, although a merge  *)
(* changes the identity of a record after others were compared with it and *)
(* the comparisons use keys that were computed earlier (the loops of       *)
(* dedupe, and the keys kept beside the records).                          *)
NoTwoAlike ==
  pc = "dedupe" =>
    \A i, j \in DOMAIN out : i # j => ~CompatibleIdentity(out[i], out[j])

InputAt(p) == IF p <= Len(hits) THEN hits[p] ELSE cached[p - Len(hits)]

TextsAt(positions, k) == {InputAt(p).ids[k] : p \in positions}

(* A record with this text shows the identifier that is among the texts.   *)
Shows(text, texts) ==
  texts \cap Keyless = {} =>
    IF texts \cap Identifiers = {} THEN text \in {Blank, None}
                                   ELSE texts \cap Identifiers = {text}

(* However long the chain of merges, a record never mixes hits whose DOIs, *)
(* arXiv ids or PMIDs contradict each other, and it shows the identifier   *)
(* that any of its hits had (the veto of `compatible`, the promotion in    *)
(* merge_hit_metadata, in both loops).  Texts without a key are excepted:  *)
(* merge_hit_metadata keeps them in the place of an identifier.            *)
IdentifiersAgree ==
  \A i \in DOMAIN out, k \in Kinds : Shows(out[i].ids[k], TextsAt(from[i], k))

-----------------------------------------------------------------------------
(* The search                                                              *)

(* The merge inside a search is the merge that is described and proved by  *)
(* itself: nothing else of the search touches its lists, and the hits of   *)
(* the sources arrive once (search and search_papers call dedupe and       *)
(* merge_prefer_cached on lists they own).                                 *)
MergeSpec == Spec

Times(s, list) == Cardinality({i \in DOMAIN list : list[i] = s})

(* However the sources' answers, errors and timers fall, the diagnostics   *)
(* name every source that was to be asked exactly once, those that failed  *)
(* or were skipped without a hit in the answer, and no other (join_all and *)
(* the loop over its results in search; the additions of search_papers).   *)
EverySourceAccounted ==
  stage = "closed" =>
    /\ \A s \in Enabled :
         Times(s, ok) + Times(s, skipped) + Times(s, failed) = 1
    /\ \A s \in (Present \ Enabled) \ {"crossref"} :
         Times(s, ok) + Times(s, skipped) + Times(s, failed) = 0
    /\ DirectCrossref => Times("crossref", ok) + Times("crossref", failed) = 1
    /\ Times("paperseed", ok) + Times("paperseed", failed) <= 1
    /\ Names("research") <=>
         Times("research", ok) + Times("research", skipped)
           + Times("research", failed) = 1

(* No identifier a source reported is lost on the way to the client: not   *)
(* by the merge, by a copy that takes a record's place, by the ranking or  *)
(* between two pages.  Texts without a key are excepted: they hide the     *)
(* identifier of a hit or a copy they are merged with.                     *)
NothingLost ==
  stage = "closed" =>
    \A s \in Present : \A i \in DOMAIN outcome[s].hits : \A k \in Kinds :
      LET id == Key(outcome[s].hits[i].ids[k]) IN
      /\ id # None
      /\ \A j \in DOMAIN hits : hits[j].ids[k] \notin Keyless
      /\ \A j \in DOMAIN cached : cached[j].ids[k] \notin Keyless
      => \E j \in DOMAIN shown : Key(shown[j].ids[k]) = id

(* The pages a client reads by following next_offset are the ranked hits,  *)
(* each once, although the limit it gave may be zero or above the maximum  *)
(* (page_limit and the slice of search_papers).                            *)
PagesCoverOnce ==
  /\ stage = "paging" => shown = SubSeq(answer, 1, offset)
  /\ stage = "closed" => shown = answer

(* A search ends and its pages come to an end, although a source may never *)
(* answer and the merge of a hit starts again after every record it takes  *)
(* in (the timer of run_source, the loops of dedupe).                      *)
SearchEnds == <>(stage = "closed")

=============================================================================
