------------------------------ MODULE MCAccess ------------------------------
(* A few settings, answers and environments for TLC.                       *)
EXTENDS AccessProperties, TLC

CONSTANTS c1, c2

MCTexts == STRING

Word(field, text) == [field |-> field, text |-> text]
MCWords ==
  {Word("cloud_api_base", "mine"), Word("api_key", "unset"),
   Word("institution_resolver_url", "proxy")}

Answer(source, base, local, key, library, login, timeout, resolver, gateway) ==
  [source |-> source, base |-> base, local |-> local, key |-> key,
   library |-> library, login |-> login, timeout |-> timeout,
   resolver |-> resolver, gateway |-> gateway]
MCInitAnswers ==
  {Answer("", "", "", "", "", "", "", "", ""),
   Answer("cloud", "", "", "k2", "user", "ada", "", "openurl", "proxy"),
   Answer("local", "", "lan", "", "", "", "0", "", ""),
   Answer("hybrid", "mine", "lan", "", "group", "20", "", "", "")}

SetupAnswer(resolver, gateway, paperseed) ==
  [resolver |-> resolver, gateway |-> gateway, paperseed |-> paperseed]
MCSetupAnswers ==
  {SetupAnswer("", "", ""), SetupAnswer("openurl", "", "true"),
   SetupAnswer("garbled", "proxy", "")}

(* A file of an old version, and one without an institution.               *)
MCFiles ==
  {[api_base |-> "old", api_key |-> "k", user_id |-> "7", hf_token |-> "t",
    institution_access_mode |-> "fallback", institution_access_url |-> "openurl"],
   [group_id |-> "20", institution_access_mode |-> "prefer",
    institution_access_url |-> "proxy", institution_resolver_url |-> "openurl"]}

MCEnvironments ==
  {<<>>,
   [ZOTERO_MCP_API_BASE |-> "e1", PAPERBRIDGE_API_BASE |-> "e2",
    PAPERBRIDGE_CLOUD_API_BASE |-> "e3", HF_TOKEN |-> "e4",
    PAPERBRIDGE_HF_TOKEN |-> ""]}

(* The resolver itself, or what it passes on to an aggregator; the gateway *)
(* before a publisher; and the address of another.                         *)
MCLinks ==
  {Url("openurl", FALSE, "openurl"), Url("openurl", FALSE, "aggregator"),
   Url("proxy", TRUE, "publisher"), Url("publisher", FALSE, "publisher")}

=============================================================================
