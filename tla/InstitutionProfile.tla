-------------------------- MODULE InstitutionProfile --------------------------
(* The fields of a configuration, what makes one valid, and what the       *)
(* service builds from it: its backend and the profile of institutional    *)
(* access.                                                                 *)
EXTENDS FiniteSets

CONSTANTS
  Resolvers,  \* addresses that detect_gateway takes for an OpenURL resolver
  Gateways,   \* addresses that it takes for EZproxy or OpenAthens
  Malformed,  \* texts that are no absolute HTTPS URL without credentials
  Secure      \* API addresses of HTTPS, or of HTTP on this computer

ASSUME AddressAssumption ==
  /\ Resolvers \cap Gateways = {}
  /\ "unset" \notin Resolvers \cup Gateways \cup Malformed
  /\ Malformed \cap (Resolvers \cup Gateways) = {}

(* One field of every kind: hf_token for the optional ones that are only   *)
(* handed on, paperseed_enabled for the flags.                             *)
Fields ==
  {"backend_mode", "cloud_api_base", "local_api_base", "api_key", "hf_token",
   "library_type", "user_id", "group_id", "timeout_secs", "paperseed_enabled",
   "institution_access_mode", "institution_access_url",
   "institution_resolver_url", "institution_gateway_url"}

InstitutionFields ==
  {"institution_access_mode", "institution_access_url",
   "institution_resolver_url", "institution_gateway_url"}

Optional ==
  {"api_key", "hf_token", "user_id", "group_id", "institution_access_url",
   "institution_resolver_url", "institution_gateway_url"}

DefaultConfig ==
  [f \in Fields |->
     CASE f \in Optional -> "unset"
       [] f = "backend_mode" -> "cloud"
       [] f = "cloud_api_base" -> "zotero.org"
       [] f = "local_api_base" -> "localhost"
       [] f = "library_type" -> "user"
       [] f = "timeout_secs" -> "20"
       [] f = "paperseed_enabled" -> "false"
       [] f = "institution_access_mode" -> "off"]

IsUrl(address) == address = "unset" \/ address \in Resolvers \cup Gateways
IsResolver(address) == address = "unset" \/ address \in Resolvers
IsGateway(address) == address = "unset" \/ address \in Gateways

LibraryHasId(cfg) ==
  IF cfg["library_type"] = "user" THEN cfg["user_id"] # "unset"
  ELSE cfg["group_id"] # "unset"

Valid(cfg) ==
  /\ cfg["timeout_secs"] # "0"
  /\ cfg["cloud_api_base"] # "" /\ cfg["local_api_base"] # ""
  /\ LibraryHasId(cfg)
  /\ IsUrl(cfg["institution_access_url"])
  /\ IsResolver(cfg["institution_resolver_url"])
  /\ IsGateway(cfg["institution_gateway_url"])
  /\ cfg["institution_access_mode"] # "off" =>
       \E f \in {"institution_access_url", "institution_resolver_url",
                 "institution_gateway_url"} : cfg[f] # "unset"

-----------------------------------------------------------------------------
(* Mistake: the endpoint of an old configuration is taken for a gateway.   *)
LegacyIsGateway(cfg) ==
  [mode |-> cfg["institution_access_mode"],
   resolver |-> cfg["institution_resolver_url"],
   gateway |-> IF cfg["institution_gateway_url"] = "unset"
               THEN cfg["institution_access_url"]
               ELSE cfg["institution_gateway_url"]]

(* The endpoint of an old configuration fills the place of its kind.       *)
ProfileOf(cfg) ==
  LET legacy == cfg["institution_access_url"]
      resolver == cfg["institution_resolver_url"]
      gateway == cfg["institution_gateway_url"] IN
  [mode |-> cfg["institution_access_mode"],
   resolver |-> IF resolver = "unset" /\ legacy \in Resolvers
                THEN legacy ELSE resolver,
   gateway |-> IF gateway = "unset" /\ legacy \in Gateways
               THEN legacy ELSE gateway]

(* What new_profile and library_prefix ask of a configuration.             *)
ProfileAccepted(p) ==
  /\ IsResolver(p.resolver) /\ IsGateway(p.gateway)
  /\ p.mode # "off" => p.resolver # "unset" \/ p.gateway # "unset"

(* A key is not sent to an insecure address: a hybrid backend makes one    *)
(* for either address.                                                     *)
BackendBuilds(cfg) ==
  cfg["api_key"] # "unset" =>
    /\ cfg["cloud_api_base"] \in Secure
    /\ cfg["backend_mode"] # "cloud" => cfg["local_api_base"] \in Secure

Builds(cfg) ==
  /\ BackendBuilds(cfg)
  /\ IsUrl(cfg["institution_access_url"])
  /\ ProfileAccepted(ProfileOf(cfg)) /\ LibraryHasId(cfg)

=============================================================================
