------------------------------ MODULE Settings ------------------------------
(* The configuration file, and the commands that read and write it:        *)
(* `config set`, `config init`, `config doctor --setup`, and every command *)
(* that runs with the configuration.                                       *)
EXTENDS Configuration

CONSTANTS
  Texts,         \* what a field, a file and the user's answers may hold
  Commands,      \* the commands that may be under way together
  Words,         \* what a user may set: fields and texts
  InitAnswers,   \* what a user may answer to `config init --interactive`
  SetupAnswers,  \* and to `config doctor --setup`
  Files,         \* files that a user may have written
  Environments,  \* the environments that paperbridge may run in
  MaxCommands    \* bound on the commands started

ASSUME SettingsAssumption == MaxCommands \in Nat

(* What a file may hold: some fields, or the old name of one.              *)
IsContent(content) ==
  \E S \in SUBSET (Fields \cup {"api_base"}) : content \in [S -> Texts]

ASSUME TextsAssumption ==
  /\ {"unset", "error", "cloud", "local", "user", "0", "7", "20", "false", "off",
      "fallback", "zotero.org", "localhost"} \subseteq Texts
  /\ Words \subseteq [field : Fields, text : Texts]
  /\ \A a \in InitAnswers :
       {a.source, a.base, a.local, a.key, a.library, a.login, a.timeout,
        a.resolver, a.gateway} \subseteq Texts
  /\ \A a \in SetupAnswers : {a.resolver, a.gateway, a.paperseed} \subseteq Texts
  /\ (\A content \in Files : IsContent(content)) /\ ~IsContent(NONE)

(* Of an environment, what is read: the variables with a meaning.          *)
ASSUME EnvironmentsAssumption ==
  \A e \in Environments : DOMAIN e \subseteq DOMAIN VariableOf

VARIABLES
  file,     \* config.toml: a function from the fields it mentions, or NONE
  env,      \* the environment: a function from variables to texts
  cmd,      \* the commands
  started,  \* history: the number of commands started
  said,     \* history: the value a user expects of each field; NONE if it was
            \* looked up
  calm      \* history: no two commands overlapped, none was killed

settingsVars == <<file, env, cmd, started, said, calm>>

Empty == [f \in {} |-> NONE]
Idle == [at |-> "idle", kind |-> NONE, word |-> NONE, answers |-> NONE,
         raw |-> NONE, cfg |-> NONE]

-----------------------------------------------------------------------------
Active == {c \in Commands : cmd[c].at # "idle"}

Goes(c, at, kind) == cmd[c].at = at /\ cmd[c].kind = kind

(* A command starts; another one under way may come between its steps.     *)
Start(c, next) ==
  /\ cmd[c].at = "idle" /\ started < MaxCommands
  /\ started' = started + 1
  /\ calm' = (calm /\ Active = {})
  /\ cmd' = [cmd EXCEPT ![c] = next]

End(c) == cmd' = [cmd EXCEPT ![c] = Idle]

(* The configuration as it was changed is written, by what was answered if *)
(* anything was asked; an error ends the command.                          *)
WriteOrEnd(c, cfg, a) ==
  IF "error" \in {cfg[f] : f \in Fields} THEN End(c)
  ELSE cmd' = [cmd EXCEPT ![c].at = "write", ![c].cfg = cfg, ![c].answers = a]

BeginSet(c) ==
  /\ \E w \in Words : Start(c, [Idle EXCEPT !.at = "load", !.kind = "set", !.word = w])
  /\ UNCHANGED <<file, env, said>>

(* Mistake: the environment is read and then written with the rest.        *)
SetWithEnv(c) ==
  /\ Goes(c, "load", "set")
  /\ LET w == cmd[c].word
         cfg == ApplyEnvOverrides(LoadFileOrDefault(file), env,
                                  CHOOSE order \in ByPrecedence(DOMAIN env) : TRUE) IN
     WriteOrEnd(c, [cfg EXCEPT ![w.field] = SetValue(w.field, w.text)], NONE)
  /\ UNCHANGED <<file, env, started, said, calm>>

LoadAndSet(c) ==
  /\ Goes(c, "load", "set")
  /\ LET w == cmd[c].word IN
     WriteOrEnd(c, [LoadFileOrDefault(file) EXCEPT
                      ![w.field] = SetValue(w.field, w.text)], NONE)
  /\ UNCHANGED <<file, env, started, said, calm>>

(* Without --force an existing file stays. init_file writes the defaults.  *)
BeginInit(c) ==
  /\ \E force \in BOOLEAN :
       IF file # NONE /\ ~force THEN Start(c, Idle)
       ELSE Start(c, [Idle EXCEPT !.at = "write", !.kind = "init",
                                  !.cfg = DefaultConfig])
  /\ UNCHANGED <<file, env, said>>

(* Interactively it loads, then asks, then writes.                         *)
BeginInteractive(c) ==
  /\ \E force \in BOOLEAN :
       IF file # NONE /\ ~force THEN Start(c, Idle)
       ELSE Start(c, [Idle EXCEPT !.at = "ask", !.kind = "interactive",
                                  !.cfg = LoadFileOrDefault(file)])
  /\ UNCHANGED <<file, env, said>>

AnswerInit(c) ==
  /\ Goes(c, "ask", "interactive")
  /\ \E a \in InitAnswers :
       \E cfg \in Interactive(cmd[c].cfg, a) : WriteOrEnd(c, cfg, a)
  /\ UNCHANGED <<file, env, started, said, calm>>

(* doctor --setup reads the file twice: for what it mentions, and to load. *)
BeginSetup(c) ==
  /\ Start(c, [Idle EXCEPT !.at = "load", !.kind = "setup",
                 !.raw = IF file = NONE THEN Empty ELSE file])
  /\ UNCHANGED <<file, env, said>>

LoadForSetup(c) ==
  /\ Goes(c, "load", "setup")
  /\ cmd' = [cmd EXCEPT ![c].at = "ask", ![c].cfg = LoadFileOrDefault(file)]
  /\ UNCHANGED <<file, env, started, said, calm>>

AnswerSetup(c) ==
  /\ Goes(c, "ask", "setup")
  /\ \E a \in SetupAnswers :
       WriteOrEnd(c, RunDoctorSetup(cmd[c].cfg, cmd[c].raw, a), a)
  /\ UNCHANGED <<file, env, started, said, calm>>

(* fs::write empties the file first.                                       *)
Truncate(c) ==
  /\ cmd[c].at = "write"
  /\ file' = Empty
  /\ cmd' = [cmd EXCEPT ![c].at = "writing"]
  /\ UNCHANGED <<env, started, said, calm>>

-----------------------------------------------------------------------------
(* What a user expects of the file after a command, by what the user said: *)
(* a text that was typed, what was there where nothing was, and of fields  *)
(* that the command does not ask about nothing else than what was there.   *)
Meant(text) == IF Unset(text) THEN "unset" ELSE text

Answered(f, text) == IF text = "" THEN said[f] ELSE Meant(text)

(* An old endpoint takes the place of its kind if neither has an address.  *)
ExpectedAddress(f, text, kind) ==
  CASE text # "" -> text
    [] /\ text = "" /\ said["institution_access_url"] \in kind
       /\ said["institution_resolver_url"] = "unset"
       /\ said["institution_gateway_url"] = "unset" -> said["institution_access_url"]
    [] OTHER -> said[f]

ExpectedAccess(a) ==
  LET r == ExpectedAddress("institution_resolver_url", a.resolver, Resolvers)
      g == ExpectedAddress("institution_gateway_url", a.gateway, Gateways)
      m == said["institution_access_mode"] IN
  [f \in InstitutionFields |->
     CASE f = "institution_resolver_url" -> r
       [] f = "institution_gateway_url" -> g
       [] f = "institution_access_url" -> "unset"
       [] f = "institution_access_mode" ->
            CASE {r, g} = {"unset"} -> "off"
              [] {r, g} # {"unset"} /\ m = "off" -> "fallback"
              [] OTHER -> m]

(* A library of one's own has a user, one of a group a group. Which user a *)
(* login belongs to is not said.                                           *)
ExpectedUser(a) ==
  LET text == IF a.login = "" THEN said["user_id"] ELSE a.login
  IN IF Number(text) THEN text ELSE NONE

ExpectedAnswers(a) ==
  LET source == Answered("backend_mode", a.source)
      library == Answered("library_type", a.library) IN
  [f \in Fields |->
     CASE f \in InstitutionFields -> ExpectedAccess(a)[f]
       [] f = "backend_mode" -> source
       [] f = "timeout_secs" -> Answered(f, a.timeout)
       [] f = "local_api_base" /\ source # "cloud" -> Answered(f, a.local)
       [] f = "cloud_api_base" /\ source # "local" -> Answered(f, a.base)
       [] f \in {"api_key", "group_id"} /\ source = "local" -> "unset"
       [] f = "library_type" /\ source = "local" -> "user"
       [] f = "user_id" /\ source = "local" -> "0"
       [] f = "api_key" /\ source # "local" -> Answered(f, a.key)
       [] f = "library_type" /\ source # "local" -> library
       [] f = "user_id" /\ source # "local" ->
            IF library = "group" THEN "unset" ELSE ExpectedUser(a)
       [] f = "group_id" /\ source # "local" ->
            IF library = "group" THEN Meant(Answered(f, a.login)) ELSE "unset"
       [] OTHER -> said[f]]

ExpectedSetup(raw, a) ==
  [f \in Fields |->
     CASE f \in InstitutionFields /\ AsksAccess(raw) -> ExpectedAccess(a)[f]
       [] f = "paperseed_enabled" /\ AsksPaperseed(raw) -> Answered(f, a.paperseed)
       [] OTHER -> said[f]]

Expected(x) ==
  CASE x.kind = "set" ->
         [f \in Fields |-> IF f = x.word.field THEN Meant(x.word.text) ELSE said[f]]
    [] x.kind = "init" -> DefaultConfig
    [] x.kind = "interactive" -> ExpectedAnswers(x.answers)
    [] x.kind = "setup" -> ExpectedSetup(x.raw, x.answers)

Write(c) ==
  /\ cmd[c].at = "writing"
  /\ file' = Serialized(cmd[c].cfg)
  /\ said' = Expected(cmd[c])
  /\ End(c)
  /\ UNCHANGED <<env, started, calm>>

(* Any other command: the file, then the environment, then validate.       *)
BeginRun(c) ==
  /\ Start(c, [Idle EXCEPT !.at = "load", !.kind = "run"])
  /\ UNCHANGED <<file, env, said>>

Load(c) ==
  /\ Goes(c, "load", "run")
  /\ \E order \in ByPrecedence(DOMAIN env) :
       LET cfg == ApplyEnvOverrides(LoadFileOrDefault(file), env, order) IN
       IF EnvIsReadable(env) /\ Valid(cfg)
       THEN cmd' = [cmd EXCEPT ![c].at = "running", ![c].cfg = cfg,
                      ![c].raw = IF file = NONE THEN Empty ELSE file]
       ELSE End(c)
  /\ UNCHANGED <<file, env, started, said, calm>>

Stop(c) ==
  /\ Goes(c, "running", "run")
  /\ End(c)
  /\ UNCHANGED <<file, env, started, said, calm>>

(* A command is killed, before or between the steps of its write.          *)
Kill(c) ==
  /\ cmd[c].at \in {"load", "ask", "write", "writing"}
  /\ End(c)
  /\ calm' = FALSE
  /\ UNCHANGED <<file, env, started, said>>

(* The user edits the file.                                                *)
Edit ==
  /\ Active = {} /\ file' \in Files
  /\ said' = LoadFileOrDefault(file')
  /\ UNCHANGED <<env, cmd, started, calm>>

SettingsInit ==
  /\ file \in Files \cup {NONE} /\ env \in Environments
  /\ cmd = [c \in Commands |-> Idle]
  /\ started = 0 /\ said = LoadFileOrDefault(file) /\ calm = TRUE

Command(c) ==
  \/ BeginSet(c) \/ LoadAndSet(c)
  \/ BeginInit(c) \/ BeginInteractive(c) \/ AnswerInit(c)
  \/ BeginSetup(c) \/ LoadForSetup(c) \/ AnswerSetup(c)
  \/ Truncate(c) \/ Write(c) \/ BeginRun(c) \/ Load(c) \/ Kill(c)

=============================================================================
