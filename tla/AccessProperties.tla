-------------------------- MODULE AccessProperties --------------------------
(* What the settings and the access to sources promise.                    *)
EXTENDS SourceAccess

(* Commands that take turns and are not killed change what they were asked *)
(* to and nothing else, although each rewrites the whole file: a field     *)
(* holds what was set or answered last, what a local library fixes, or     *)
(* what it held before any command asked about it. Of the id of a user who *)
(* was looked up nothing is said. (Overlapping commands lose one another's *)
(* settings, and a killed one may leave the file empty: write_to_file      *)
(* neither locks nor replaces.)                                            *)
SettingsKept ==
  calm /\ Active \subseteq {c \in Commands : cmd[c].at # "writing"} =>
    \A f \in Fields :
      \/ LoadFileOrDefault(file)[f] = said[f]
      \/ f = "user_id" /\ said[f] = NONE

(* A command runs with each field from its most specific source: the       *)
(* environment before the file, and of several variables the one whose     *)
(* name is most specific, in whatever order the system lists them.         *)
RunsByPrecedence ==
  \A c \in Commands : cmd[c].at = "running" =>
    \A f \in Fields :
      LET set == {v \in DOMAIN env : VariableOf[v] = f} IN
      IF set = {} THEN cmd[c].cfg[f] = Applied(cmd[c].raw)[f]
      ELSE \E v \in set :
             /\ cmd[c].cfg[f] = EnvValue(f, env[v])
             /\ \A w \in set : EnvPrecedence(w) <= EnvPrecedence(v)

(* A configuration that validate accepts makes a service, but for one kind *)
(* alone: validate in config.rs and new_profile in access.rs, which        *)
(* classify addresses apart, agree, and what no backend is made of is a    *)
(* key with an address in use that is neither HTTPS nor this computer's    *)
(* (validate asks only that an address is not empty).                      *)
KeyAtRisk(cfg) ==
  /\ cfg["api_key"] # "unset"
  /\ \/ cfg["cloud_api_base"] \notin Secure
     \/ cfg["backend_mode"] # "cloud" /\ cfg["local_api_base"] \notin Secure

ProfileBuilds ==
  \A c \in Commands : cmd[c].at = "running" =>
    (Builds(cmd[c].cfg) <=> ~KeyAtRisk(cmd[c].cfg))

(* What papers access opens: a free copy itself unless the institution is  *)
(* preferred; the address asked for when access is off; otherwise what the *)
(* resolver or the gateway serves, and the best of it (docs/papers.md:38). *)
OpensTrusted ==
  access.opened # NONE =>
    /\ Profile.mode = "off" => access.opened = access.target
    /\ access.free /\ Profile.mode # "prefer" => access.opened = access.target
    /\ access.opened = access.target
         \/ access.opened.host \in {Profile.resolver, Profile.gateway}
    /\ access.options # {} =>
         \E o \in access.options :
           /\ o.url = access.opened /\ o.auto_open
           /\ \A q \in access.options :
                q.auto_open /\ Aggregator(o) => Aggregator(q)

(* A request ends, though the resolver redirects for ever.                 *)
AccessEnds == access.at # "idle" ~> access.at \in {"done", "failed"}

=============================================================================
