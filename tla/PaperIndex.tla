----------------------------- MODULE PaperIndex -----------------------------
(***************************************************************************)
(* The BM25F index of the corpus (crates/paperseed-index): the builder     *)
(* that makes an index of all documents, the upsert that changes one       *)
(* document of a finished index, the check of an index that was read, and  *)
(* what a query finds.                                                     *)
(*                                                                         *)
(* A token is a value: NFKD, folding and stemming are the same function on *)
(* both sides.  Scores are abstracted to whether they are positive, so     *)
(* that a result is a set; a corpus has no more papers than top_k.         *)
(* Parameters are in hundredths, and an average is a total and a number of *)
(* documents.                                                              *)
(***************************************************************************)
EXTENDS Naturals, SequencesExt

CONSTANTS
  Fields,  \* the names of BuildOptions::fields
  B,       \* their length normalisation, in hundredths
  Weight   \* their weights, in hundredths

ASSUME ParametersAssumption ==
  /\ B \in [Fields -> 0..100]
  /\ Weight \in [Fields -> Nat \ {0}]

Terms(text) == UNION {ToSet(text[f]) : f \in Fields}

Lens(text) == [f \in Fields |-> Len(text[f])]

(* The FieldTerms of a posting: the fields that hold the term, with tf.    *)
FieldTerms(text, term) ==
  [f \in {g \in Fields : term \in ToSet(text[g])} |->
     Cardinality({i \in DOMAIN text[f] : text[f][i] = term})]

(* The sum of a column of lengths, as the number of its units.             *)
Total(lens, f) == Cardinality(UNION {{i} \X (1..lens[i][f]) : i \in DOMAIN lens})

Averages(lens) ==
  [f \in Fields |-> [total |-> Total(lens, f), documents |-> Len(lens)]]

Position(ids, id) ==
  LET at == {i \in DOMAIN ids : ids[i] = id} IN IF at = {} THEN 0 ELSE Min(at)

(* The elements of S, which the relation R orders.                         *)
Sorted(S, R) ==
  [n \in 1..Cardinality(S) |->
     CHOOSE x \in S : Cardinality({y \in S : <<y, x>> \in R}) = n - 1]

Ascending(S) == Sorted(S, {p \in S \X S : p[1] < p[2]})

(* What is left of a list of which the places in a set are kept.           *)
Retained(list, places) ==
  LET at == Ascending(places) IN [n \in DOMAIN at |-> list[at[n]]]

(* A stable sort by document.                                              *)
ByDoc(list) ==
  LET places == DOMAIN list
      before == {p \in places \X places :
                   \/ list[p[1]].doc < list[p[2]].doc
                   \/ list[p[1]].doc = list[p[2]].doc /\ p[1] < p[2]}
      at == Sorted(places, before)
  IN [n \in places |-> list[at[n]]]

----------------------------------------------------------------------------
(* The builder: term_docs maps a term to the documents that hold it.       *)

NewBuilder == [ids |-> <<>>, lens |-> <<>>, termDocs |-> <<>>]

Forgotten(termDocs, doc) ==
  LET left == [t \in DOMAIN termDocs |->
                 [d \in DOMAIN termDocs[t] \ {doc} |-> termDocs[t][d]]]
  IN [t \in {u \in DOMAIN left : DOMAIN left[u] # {}} |-> left[t]]

AddDocument(builder, document) ==
  LET found == Position(builder.ids, document.id)
      doc == IF found = 0 THEN Len(builder.ids) + 1 ELSE found
      kept == Forgotten(builder.termDocs, doc)
      docsOf(t) == IF t \in DOMAIN kept THEN DOMAIN kept[t] ELSE {}
      here(t) == IF t \in Terms(document.text) THEN {doc} ELSE {}
  IN [ids  |-> IF found = 0 THEN Append(builder.ids, document.id) ELSE builder.ids,
      lens |-> IF found = 0 THEN Append(builder.lens, Lens(document.text))
               ELSE [builder.lens EXCEPT ![doc] = Lens(document.text)],
      termDocs |-> [t \in DOMAIN kept \cup Terms(document.text) |->
                      [d \in docsOf(t) \cup here(t) |->
                         IF d = doc THEN FieldTerms(document.text, t) ELSE kept[t][d]]]]

Finished(builder) ==
  [ids |-> builder.ids, lens |-> builder.lens, averages |-> Averages(builder.lens),
   postings |-> [t \in DOMAIN builder.termDocs |->
     LET docs == Ascending(DOMAIN builder.termDocs[t])
     IN [i \in DOMAIN docs |-> [doc |-> docs[i], fields |-> builder.termDocs[t][docs[i]]]]]]

Build(documents) ==
  LET after[n \in 0..Len(documents)] ==
        IF n = 0 THEN NewBuilder ELSE AddDocument(after[n - 1], documents[n])
  IN Finished(after[Len(documents)])

----------------------------------------------------------------------------
(* One document of a finished index.                                       *)

(* Mistake: the postings of the document's earlier text are kept.          *)
StillPosted(postings, doc) == postings

WithoutPostings(postings, doc) ==
  LET left == [t \in DOMAIN postings |->
                 Retained(postings[t],
                          {i \in DOMAIN postings[t] : postings[t][i].doc # doc})]
  IN [t \in {u \in DOMAIN left : left[u] # <<>>} |-> left[t]]

UpsertDocument(index, document) ==
  LET found == Position(index.ids, document.id)
      doc == IF found = 0 THEN Len(index.ids) + 1 ELSE found
      kept == IF found = 0 THEN index.postings ELSE WithoutPostings(index.postings, doc)
      lens == IF found = 0 THEN Append(index.lens, Lens(document.text))
              ELSE [index.lens EXCEPT ![doc] = Lens(document.text)]
      before(t) == IF t \in DOMAIN kept THEN kept[t] ELSE <<>>
      posting(t) == [doc |-> doc, fields |-> FieldTerms(document.text, t)]
  IN [ids |-> IF found = 0 THEN Append(index.ids, document.id) ELSE index.ids,
      lens |-> lens, averages |-> Averages(lens),
      postings |-> [t \in DOMAIN kept \cup Terms(document.text) |->
        IF t \in Terms(document.text)
        THEN ByDoc(Append(before(t), posting(t)))
        ELSE kept[t]]]

----------------------------------------------------------------------------
(* validate: what search relies on in an index that was read.              *)
Valid(index) ==
  /\ Len(index.lens) = Len(index.ids)
  /\ \A i \in DOMAIN index.lens : DOMAIN index.lens[i] = Fields
  /\ DOMAIN index.averages = Fields
  /\ IsInjective(index.ids)
  /\ \A t \in DOMAIN index.postings :
       LET list == index.postings[t]
       IN /\ list # <<>>
          /\ \A i \in 1..(Len(list) - 1) : list[i].doc < list[i + 1].doc
          /\ \A i \in DOMAIN list : /\ list[i].doc \in DOMAIN index.ids
                                    /\ DOMAIN list[i].fields \subseteq Fields

(* weighted_tf > 0: some field's count has a weight and a positive divisor.*)
Weighs(index, posting) ==
  \E f \in DOMAIN posting.fields :
     LET average == index.averages[f]
     IN /\ posting.fields[f] * Weight[f] > 0
        /\ \/ average.total = 0
           \/ (100 - B[f]) * average.total
                + B[f] * index.lens[posting.doc][f] * average.documents > 0

Search(index, query) ==
  {index.ids[posting.doc] : posting \in
     {p \in UNION {ToSet(index.postings[t]) : t \in query \cap DOMAIN index.postings} :
        p.doc \in DOMAIN index.ids /\ Weighs(index, p)}}

=============================================================================
