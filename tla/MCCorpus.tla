------------------------------ MODULE MCCorpus ------------------------------
(* Small instances of the corpus store for TLC.                            *)
EXTENDS CorpusProperties, TLC

CONSTANTS h1, h2, t1, t2, server

(* PDFs, all with text.  Or the second content is no PDF, and under        *)
(* another extension no text is looked for in a file.                      *)
AllText == [f \in File |-> "text"]
SecondFails ==
  [f \in File |->
     IF f[2] = "bin" THEN "none" ELSE IF f[1] = h2 THEN "error" ELSE "text"]

Import(title, license, extract, ext) ==
  [title |-> title, license |-> license, metaLicense |-> NoLicense,
   ingest |-> FALSE, extract |-> extract, ext |-> ext]

Ingest(title, license, metaLicense) ==
  [title |-> title, license |-> license, metaLicense |-> metaLicense,
   ingest |-> TRUE, extract |-> FALSE, ext |-> "pdf"]

(* An open paper with its text, and the same paper, private and retitled,  *)
(* whose text is left for later.                                           *)
OpenAndPrivate ==
  {Import("A", "CcBy", TRUE, "pdf"), Import("B", "UserOwnedPrivate", FALSE, "pdf")}

(* And the same paper by another extension, and one that the policy        *)
(* refuses to store for what its metadata record says.                     *)
OtherFiles ==
  OpenAndPrivate \cup
  {Import("A", "CcBy", TRUE, "bin"), Ingest("A", NoLicense, "Restricted")}

MCHash == {h1, h2}
MCThreads == {t1, t2}
OneThread == {t1}

ServerOnly == {server}
InServer == [t \in MCThreads |-> server]
OneInServer == t1 :> server

Symmetry == Permutations(MCThreads) \cup Permutations(MCHash)

=============================================================================
