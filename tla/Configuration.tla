--------------------------- MODULE Configuration ---------------------------
(* How a configuration is made of texts: those that a user sets or answers *)
(* with, the file, and the environment.                                    *)
EXTENDS InstitutionProfile, Naturals, SequencesExt

CONSTANT NONE  \* no file, no value

-----------------------------------------------------------------------------
(* Texts and files.                                                        *)
Unset(text) == text \in {"", "unset"}
Number(text) == text \in {"0", "7", "20"}

(* set_value: the value of a text, or "error". The aliases are left out.   *)
SetValue(f, text) ==
  CASE f = "backend_mode" ->
         IF text \in {"cloud", "local", "hybrid"} THEN text ELSE "error"
    [] f \in {"cloud_api_base", "local_api_base"} ->
         IF text = "" THEN "error" ELSE text
    [] f \in {"api_key", "hf_token"} -> IF Unset(text) THEN "unset" ELSE text
    [] f \in {"user_id", "group_id"} ->
         IF Unset(text) THEN "unset" ELSE IF Number(text) THEN text ELSE "error"
    [] f = "timeout_secs" -> IF Number(text) THEN text ELSE "error"
    [] f = "library_type" -> IF text \in {"user", "group"} THEN text ELSE "error"
    [] f = "paperseed_enabled" ->
         IF text \in {"true", "false"} THEN text ELSE "error"
    [] f = "institution_access_mode" ->
         IF text \in {"off", "fallback", "prefer"} THEN text ELSE "error"
    [] f = "institution_access_url" ->
         IF Unset(text) THEN "unset" ELSE IF IsUrl(text) THEN text ELSE "error"
    [] f = "institution_resolver_url" ->
         IF Unset(text) THEN "unset" ELSE IF IsResolver(text) THEN text ELSE "error"
    [] f = "institution_gateway_url" ->
         IF Unset(text) THEN "unset" ELSE IF IsGateway(text) THEN text ELSE "error"

(* apply_partial: what the file mentions, else the default.                *)
Applied(content) ==
  [f \in Fields |->
     CASE f \in DOMAIN content -> content[f]
       [] f = "cloud_api_base" /\ f \notin DOMAIN content
            /\ "api_base" \in DOMAIN content -> content["api_base"]
       [] OTHER -> DefaultConfig[f]]

LoadFileOrDefault(content) ==
  IF content = NONE THEN DefaultConfig ELSE Applied(content)

(* An optional field without a value is not written.                       *)
Serialized(cfg) ==
  [f \in {g \in Fields : g \notin Optional \/ cfg[g] # "unset"} |-> cfg[f]]

-----------------------------------------------------------------------------
(* The environment. A variable sets a field; several may set the same.     *)
VariableOf ==
  [PAPERBRIDGE_CLOUD_API_BASE |-> "cloud_api_base",
   PAPERBRIDGE_API_BASE |-> "cloud_api_base",
   ZOTERO_MCP_API_BASE |-> "cloud_api_base",
   PAPERBRIDGE_LOCAL_API_BASE |-> "local_api_base",
   PAPERBRIDGE_BACKEND_MODE |-> "backend_mode",
   PAPERBRIDGE_API_KEY |-> "api_key", ZOTERO_MCP_API_KEY |-> "api_key",
   PAPERBRIDGE_HF_TOKEN |-> "hf_token", HF_TOKEN |-> "hf_token",
   PAPERBRIDGE_LIBRARY_TYPE |-> "library_type",
   PAPERBRIDGE_USER_ID |-> "user_id",
   PAPERBRIDGE_INSTITUTION_ACCESS_MODE |-> "institution_access_mode",
   PAPERBRIDGE_INSTITUTION_GATEWAY_URL |-> "institution_gateway_url"]

EnvPrecedence(v) ==
  CASE v = "PAPERBRIDGE_CLOUD_API_BASE" -> 2
    [] v \in {"HF_TOKEN", "ZOTERO_MCP_API_BASE", "ZOTERO_MCP_API_KEY"} -> 0
    [] OTHER -> 1

(* A text of the environment is read less strictly than one that is set:   *)
(* texts and addresses are checked by validate, numbers have no "unset".   *)
EnvValue(f, text) ==
  CASE f \in {"cloud_api_base", "local_api_base"} -> text
    [] f \in {"api_key", "hf_token"} -> IF text = "" THEN "unset" ELSE text
    [] f = "user_id" -> IF Number(text) THEN text ELSE "error"
    [] f = "institution_gateway_url" -> IF Unset(text) THEN "unset" ELSE text
    [] OTHER -> SetValue(f, text)

(* Mistake: variables are applied as the system lists them.                *)
AsListed(set) == SetToSeqs(set)

(* The system lists the variables in any order; sorted by precedence, the  *)
(* lowest comes first, and equal ones are as they were listed.             *)
ByPrecedence(set) ==
  {order \in SetToSeqs(set) :
     \A i, j \in DOMAIN order :
       i < j => EnvPrecedence(order[i]) <= EnvPrecedence(order[j])}

SetFromEnv(cfg, env, v) ==
  [cfg EXCEPT ![VariableOf[v]] = EnvValue(VariableOf[v], env[v])]

ApplyEnvOverrides(cfg, env, order) ==
  LET after[n \in 0..Len(order)] ==
        IF n = 0 THEN cfg ELSE SetFromEnv(after[n - 1], env, order[n])
  IN after[Len(order)]

EnvIsReadable(env) ==
  \A v \in DOMAIN env : EnvValue(VariableOf[v], env[v]) # "error"

-----------------------------------------------------------------------------
(* Institution addresses that a user is asked for. A blank answer keeps    *)
(* the address there is; an address of the wrong kind ends the command.    *)
Endpoint(answer, current, fits) ==
  IF answer = "" THEN current ELSE IF answer \in fits THEN answer ELSE "error"

(* An address of an old configuration is offered in the place of its kind. *)
Offered(cfg) ==
  IF cfg["institution_resolver_url"] = "unset"
     /\ cfg["institution_gateway_url"] = "unset"
  THEN ProfileOf(cfg)
  ELSE [resolver |-> cfg["institution_resolver_url"],
        gateway |-> cfg["institution_gateway_url"]]

(* The mode goes off without an address and on with one.                   *)
ModeFor(cfg, r, g) ==
  IF r = "unset" /\ g = "unset" THEN "off"
  ELSE IF cfg["institution_access_mode"] = "off" THEN "fallback"
  ELSE cfg["institution_access_mode"]

PromptInstitutionAccess(cfg, a) ==
  LET r == Endpoint(a.resolver, Offered(cfg).resolver, Resolvers)
      g == Endpoint(a.gateway, Offered(cfg).gateway, Gateways) IN
  [cfg EXCEPT !["institution_access_url"] = "unset",
     !["institution_resolver_url"] = r, !["institution_gateway_url"] = g,
     !["institution_access_mode"] = ModeFor(cfg, r, g)]

(* doctor --setup asks for what the file does not mention.                 *)
AsksAccess(content) ==
  DOMAIN content \cap {"institution_resolver_url", "institution_gateway_url"} = {}

AsksPaperseed(content) == "paperseed_enabled" \notin DOMAIN content

RunDoctorSetup(cfg, content, a) ==
  LET c == IF AsksAccess(content) THEN PromptInstitutionAccess(cfg, a) ELSE cfg
  IN IF AsksPaperseed(content) /\ a.paperseed # ""
     THEN [c EXCEPT !["paperseed_enabled"] = SetValue("paperseed_enabled", a.paperseed)]
     ELSE c

(* config init --interactive. A blank answer is the value there is. A      *)
(* login that is no number is looked up, by name or by key, and may not be *)
(* found.                                                                  *)
Prompted(f, cfg, text) == IF text = "" THEN cfg[f] ELSE text

OrKept(f, cfg, text) == SetValue(f, Prompted(f, cfg, text))

LoginIds(cfg, login) ==
  LET text == Prompted("user_id", cfg, login) IN
  CASE text = "unset" -> {"error"}
    [] Number(text) -> {text}
    [] OTHER -> {"7", "error"}

LocalLibrary(cfg, a) ==
  {[cfg EXCEPT !["backend_mode"] = "local",
               !["local_api_base"] = Prompted("local_api_base", cfg, a.local),
               !["api_key"] = "unset", !["library_type"] = "user",
               !["user_id"] = "0", !["group_id"] = "unset"]}

(* A local address is asked for a hybrid backend, whose reads are local.   *)
CloudApi(cfg, a, source) ==
  [cfg EXCEPT !["backend_mode"] = source,
     !["cloud_api_base"] = Prompted("cloud_api_base", cfg, a.base),
     !["local_api_base"] = Prompted("local_api_base", cfg,
                                    IF source = "hybrid" THEN a.local ELSE ""),
     !["api_key"] = IF a.key = "" THEN cfg["api_key"]
                    ELSE SetValue("api_key", a.key),
     !["library_type"] = OrKept("library_type", cfg, a.library)]

CloudLibrary(cfg, a, source) ==
  LET c == CloudApi(cfg, a, source) IN
  IF c["library_type"] = "group"
  THEN {[c EXCEPT !["group_id"] = OrKept("group_id", cfg, a.login),
                  !["user_id"] = "unset"]}
  ELSE {[c EXCEPT !["user_id"] = id, !["group_id"] = "unset"] :
          id \in LoginIds(cfg, a.login)}

Interactive(cfg, a) ==
  LET source == OrKept("backend_mode", cfg, a.source) IN
  {PromptInstitutionAccess(
     [c EXCEPT !["timeout_secs"] = OrKept("timeout_secs", cfg, a.timeout)], a) :
     c \in IF source = "local" THEN LocalLibrary(cfg, a)
           ELSE CloudLibrary(cfg, a, source)}

=============================================================================
