---------------------------- MODULE SourceAccess ----------------------------
(* `papers access`: which address of a paper a run opens in the browser,   *)
(* by the profile of institutional access in its configuration and by what *)
(* the library's resolver answers.                                         *)
EXTENDS Settings

CONSTANTS
  Links,    \* the addresses that a resolver may send on to or offer
  MaxHops   \* redirects that are followed: four

ASSUME AccessAssumption == MaxHops \in Nat

VARIABLE access  \* the request of the command that runs

accessVars == <<file, env, cmd, started, said, calm, access>>

(* An address: who serves it, whether a sign-in is part of it or of what   *)
(* it leads to, and who serves the last address it leads to.               *)
Url(host, gated, destination) ==
  [host |-> host, gated |-> gated, destination |-> destination]

NoAccess ==
  [at |-> "idle", by |-> NONE, doi |-> FALSE, free |-> FALSE, target |-> NONE,
   asked |-> NONE, hop |-> 0, selected |-> NONE, options |-> {},
   holdings |-> "not_checked", allowed |-> TRUE, opened |-> NONE]

Profile == ProfileOf(cmd[access.by].cfg)

Publisher == Url("publisher", FALSE, "publisher")
Repository == Url("repository", FALSE, "repository")

-----------------------------------------------------------------------------
(* A free copy is left alone unless the institution is preferred.          *)
InstitutionEnabled(p, free) == p.mode # "off" /\ (~free \/ p.mode = "prefer")

UseResolver(p, doi, free) ==
  /\ InstitutionEnabled(p, free)
  /\ p.resolver # "unset"
  /\ doi \/ p.gateway = "unset"

(* The resolver asked about the work; the target behind a sign-in.         *)
BuildOpenUrl(p) == Url(p.resolver, FALSE, p.resolver)
BuildGatewayUrl(p, target) == Url(p.gateway, TRUE, target.destination)

BuildUrl(p, target, doi, free) ==
  CASE UseResolver(p, doi, free) -> BuildOpenUrl(p)
    [] ~UseResolver(p, doi, free) /\ InstitutionEnabled(p, free)
         /\ p.gateway # "unset" -> BuildGatewayUrl(p, target)
    [] OTHER -> target

Resolve(a, target, free) ==
  LET p == ProfileOf(cmd[a.by].cfg)
      url == BuildUrl(p, target, a.doi, free)
      asks == UseResolver(p, a.doi, free) IN
  [a EXCEPT !.at = IF asks THEN "asking" ELSE "resolved",
            !.free = free, !.target = target, !.selected = url,
            !.asked = IF asks THEN url ELSE NONE]

(* A bound: nothing else happens during a request. It would not matter, as *)
(* the run has loaded its configuration.                                   *)
Alone(c) == Active = {c} /\ access.at = "idle"

(* The request names a page, or a DOI that Crossref and Unpaywall are      *)
(* asked about. A failure of Unpaywall is no free copy.                    *)
AccessPage(c) ==
  /\ Goes(c, "running", "run") /\ Alone(c)
  /\ access' = Resolve([NoAccess EXCEPT !.by = c], Publisher, FALSE)
  /\ UNCHANGED settingsVars

AccessDoi(c) ==
  /\ Goes(c, "running", "run") /\ Alone(c)
  /\ access' = [NoAccess EXCEPT !.at = "doi", !.by = c, !.doi = TRUE]
  /\ UNCHANGED settingsVars

WorkFound ==
  /\ access.at = "doi"
  /\ access' \in {Resolve(access, Repository, TRUE), Resolve(access, Publisher, FALSE)}
  /\ UNCHANGED settingsVars

Fail == access' = [access EXCEPT !.at = "failed"]

WorkNotFound ==
  /\ access.at = "doi" /\ Fail
  /\ UNCHANGED settingsVars

-----------------------------------------------------------------------------
(* What a resolver offers. A link of its own, or one of the sign-in        *)
(* gateway, may be opened without looking.                                 *)
SameOrigin(url, address) == url.host = address

(* Mistake: what the resolver redirects to is trusted.                     *)
RedirectTrusted(url, own) ==
  [url |-> url, auto_open |-> TRUE]

AccessOption(url, own) ==
  [url |-> url,
   auto_open |-> (own /\ SameOrigin(url, Profile.resolver))
                 \/ SameOrigin(url, Profile.gateway)]

Aggregator(option) == option.url.destination = "aggregator"

(* What opens by itself comes before what does not, a publisher before an  *)
(* aggregator, then by name.                                               *)
RankedBefore(o, q) ==
  \/ o.auto_open /\ ~q.auto_open
  \/ o.auto_open = q.auto_open /\ ~Aggregator(o) /\ Aggregator(q)

First(options) == {o \in options : \A q \in options : ~RankedBefore(q, o)}

ApplySelectedOption(a, o) == [a EXCEPT !.selected = o.url, !.allowed = o.auto_open]

(* Without an option the resolver's own page stays selected.               *)
ApplyHoldings(status, options) ==
  LET held == [access EXCEPT !.at = "resolved", !.holdings = status,
                             !.options = options] IN
  IF options = {} THEN access' = held
  ELSE \E o \in First(options) : access' = ApplySelectedOption(held, o)

LookupFailed ==
  access' = [access EXCEPT !.at = "resolved", !.holdings = "error",
                           !.allowed = FALSE]

-----------------------------------------------------------------------------
(* Mistake: redirects are not counted.                                     *)
FollowForEver(url) ==
  IF SameOrigin(url, Profile.resolver)
  THEN access' = [access EXCEPT !.asked = url]
  ELSE ApplyHoldings("available", {AccessOption(url, FALSE)})

(* A redirect within the resolver is followed; one that leaves it is the   *)
(* holding; the fifth, or one that is not fit, fails.                      *)
Follow(url) ==
  CASE access.hop = MaxHops -> LookupFailed
    [] access.hop < MaxHops /\ SameOrigin(url, Profile.resolver) ->
         access' = [access EXCEPT !.asked = url, !.hop = @ + 1]
    [] OTHER -> ApplyHoldings("available", {AccessOption(url, FALSE)})

Redirected ==
  /\ access.at = "asking"
  /\ \E url \in Links : Follow(url)
  /\ UNCHANGED settingsVars

(* No answer, an error status, an unfit redirect or an answer too long.    *)
Unanswered ==
  /\ access.at = "asking"
  /\ LookupFailed
  /\ UNCHANGED settingsVars

AnsweredPdf ==
  /\ access.at = "asking"
  /\ ApplyHoldings("available", {AccessOption(access.asked, TRUE)})
  /\ UNCHANGED settingsVars

(* The links of a page whose labels speak of a full text. A bound: two.    *)
FulltextLinks == {links \in SUBSET Links : Cardinality(links) <= 2}

Listed(links) == {AccessOption(u, TRUE) : u \in links}

(* A page without one says that there is nothing, or cannot be read.       *)
AnsweredPage ==
  /\ access.at = "asking"
  /\ \E links \in FulltextLinks :
       IF links = {}
       THEN \E s \in {"unavailable", "unparsed"} : ApplyHoldings(s, {})
       ELSE ApplyHoldings("available", Listed(links))
  /\ UNCHANGED settingsVars

-----------------------------------------------------------------------------
OpenInBrowser ==
  /\ access.at = "resolved"
  /\ IF access.allowed
     THEN access' = [access EXCEPT !.at = "done", !.opened = access.selected]
     ELSE Fail
  /\ UNCHANGED settingsVars

(* --no-open, or a tool call: the resolution is the answer.                *)
AnswerOnly ==
  /\ access.at = "resolved"
  /\ access' = [access EXCEPT !.at = "done"]
  /\ UNCHANGED settingsVars

Leave ==
  /\ access.at \in {"done", "failed"}
  /\ Stop(access.by)
  /\ access' = NoAccess

(* A run that does something else.                                         *)
Other(c) == access.by # c /\ Stop(c) /\ UNCHANGED access

Ask ==
  WorkFound \/ WorkNotFound \/ Redirected \/ Unanswered \/ AnsweredPdf
  \/ AnsweredPage \/ OpenInBrowser \/ AnswerOnly

Init == SettingsInit /\ access = NoAccess

Next ==
  \/ /\ access.at = "idle" /\ (Edit \/ \E c \in Commands : Command(c))
     /\ UNCHANGED access
  \/ \E c \in Commands : AccessPage(c) \/ AccessDoi(c) \/ Other(c)
  \/ Ask \/ Leave

Spec == Init /\ [][Next]_accessVars

(* The runtime drives a request on; the client of the resolver has a       *)
(* timeout of 15 seconds, those of Crossref and Unpaywall of 10.           *)
FairSpec == Spec /\ WF_accessVars(Ask)

=============================================================================
