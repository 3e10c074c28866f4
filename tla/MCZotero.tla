------------------------------ MODULE MCZotero ------------------------------
(* A small library for TLC: reads, and writes with a version, an older     *)
(* one, or none, some of them not valid.                                   *)
EXTENDS ZoteroBackend

CONSTANTS c1, c2, k1, k2

Plain(op, key, version) ==
  Request(op, key, version, "n", "book", "t", {}, {})
Author == [creatorType |-> "author", name |-> NONE, firstName |-> NONE,
           lastName |-> "l"]
Nobody == [Author EXCEPT !.lastName = ""]

Asked ==
  {Plain("get_item", k1, NONE), Plain("search_items", NONE, NONE),
   Plain("get_attachment_bytes", k1, NONE),
   Request("create_item", NONE, NONE, NONE, "journalArticle", "t", {Author}, {"x"}),
   Request("create_item", NONE, NONE, NONE, "journalArticle", NONE, {}, {}),
   Request("create_item", NONE, NONE, NONE, "book", NONE, {Nobody}, {}),
   Plain("update_item", k1, NONE), Plain("update_item", k1, 1),
   Plain("update_item", k1, 2), Plain("update_collection", k2, 2),
   Plain("delete_item", k1, 1), Plain("delete_item", k1, 2),
   Plain("delete_collection", "", 1)}

=============================================================================
