---------------------------- MODULE ZoteroBackend ----------------------------
(* The Zotero backends and the service's calls to them: reads that are     *)
(* retried, writes that are sent once and guarded by a version or a token, *)
(* answers that are lost, and a library that others change meanwhile.      *)
EXTENDS Integers, FiniteSets, Sequences

CONSTANTS
  NONE,        \* what is not given; a text is NONE, "" when it is blank, or a name
  Calls,       \* the calls of tools and commands
  Keys,        \* the objects of the library
  Modes,       \* the backend modes that a configuration may choose
  Requests,    \* what the calls may ask for
  MaxRetries,  \* MAX_RETRIES
  MaxVersion   \* bound on the versions the library reaches

ASSUME ZoteroAssumption ==
  /\ MaxRetries \in Nat /\ MaxVersion \in Nat
  /\ Modes \subseteq {"cloud", "local", "hybrid"}
  /\ NONE \notin Nat

-----------------------------------------------------------------------------
(* The requests that change a library, and what makes one valid.           *)

(* A request carries the fields of all six kinds; each kind looks at its   *)
(* own.                                                                    *)
Request(op, key, version, name, type, title, creators, tags) ==
  [op |-> op, key |-> key, version |-> version, name |-> name, type |-> type,
   title |-> title, creators |-> creators, tags |-> tags]

Blank(text) == text = ""
Missing(text) == text \in {NONE, ""}

ValidCreator(c) ==
  /\ ~Blank(c.creatorType)
  /\ ~Missing(c.name) \/ ~Missing(c.firstName) \/ ~Missing(c.lastName)

(* A journal article needs a title; any title, creator or tag that is      *)
(* given has to say something.                                             *)
ValidItem(r) ==
  /\ ~Blank(r.type) /\ ~Blank(r.title)
  /\ r.type = "journalArticle" => ~Missing(r.title)
  /\ \A c \in r.creators : ValidCreator(c)
  /\ \A t \in r.tags : ~Blank(t)

ValidItemUpdate(r) ==
  /\ ~Blank(r.key) /\ ~Blank(r.type) /\ ~Blank(r.title)
  /\ \A c \in r.creators : ValidCreator(c)
  /\ \A t \in r.tags : ~Blank(t)

ValidCollectionUpdate(r) == ~Blank(r.key) /\ ~Blank(r.name)

Valid(r) ==
  CASE r.op = "create_collection" -> ~Blank(r.name)
    [] r.op = "create_item" -> ValidItem(r)
    [] r.op = "update_collection" -> ValidCollectionUpdate(r)
    [] r.op = "update_item" -> ValidItemUpdate(r)
    [] r.op \in {"delete_collection", "delete_item"} -> ~Blank(r.key)
    [] OTHER -> TRUE

-----------------------------------------------------------------------------
VARIABLES
  mode,      \* backend_mode
  library,   \* the version of every object behind the API, 0 for none
  clock,     \* the library's version, which every change raises
  call,      \* the calls
  late,      \* writes that were given up and may still reach the API
  effects    \* history: the changes that calls made

vars == <<mode, library, clock, call, late, effects>>

Writes == {"create_collection", "create_item", "update_collection",
           "update_item", "delete_collection", "delete_item"}

(* The HTTP exchanges of an operation, in order. Only GETs of JSON retry.  *)
ReadExchanges(op) ==
  CASE op = "get_item" -> <<"get", "get">>
    [] op = "get_attachment_bytes" -> <<"fetch">>
    [] OTHER -> <<"get">>

WriteExchanges(op) ==
  IF op = "update_item" THEN <<"write", "get">> ELSE <<"write">>

Exchanges(op) == IF op \in Writes THEN WriteExchanges(op) ELSE ReadExchanges(op)

Idle == [at |-> "idle", request |-> NONE, step |-> 0, attempt |-> 0,
         answer |-> NONE, result |-> NONE]

Kind(c) == Exchanges(call[c].request.op)[call[c].step]
Going(c) == call[c].at \notin {"idle", "done"}

(* The hybrid backend reads from the local one and writes to the cloud.    *)
Backend(op) ==
  IF mode # "hybrid" THEN mode
  ELSE IF op \in Writes THEN "cloud" ELSE "local"

(* The local backend refuses every write.                                  *)
WriteSupported(op) == Backend(op) # "local"

Continue(c, at) == call' = [call EXCEPT ![c].at = at]
End(c, result) ==
  call' = [call EXCEPT ![c] = [Idle EXCEPT
             !.at = "done", !.request = call[c].request, !.result = result]]

-----------------------------------------------------------------------------
(* ensure_write_supported and the validation come before the backend.      *)
Refused(r) == r.op \in Writes /\ ~(WriteSupported(r.op) /\ Valid(r))

(* The version a caller names is one that it has read before.              *)
Known(r) == r.version = NONE \/ r.version \in 1..library[r.key]

Begin(c) ==
  /\ call[c].at = "idle"
  /\ \E r \in Requests :
       /\ r.key \in Keys => Known(r)
       /\ call' = [call EXCEPT ![c] =
            [Idle EXCEPT !.request = r, !.step = 1,
               !.at = IF Refused(r) THEN "done" ELSE "send",
               !.result = IF Refused(r) THEN "invalid" ELSE NONE]]
  /\ UNCHANGED <<mode, library, clock, late, effects>>

Send(c) ==
  /\ call[c].at = "send"
  /\ Continue(c, "sent")
  /\ UNCHANGED <<mode, library, clock, late, effects>>

(* Mistake: no precondition when the caller gave no version.               *)
NoPrecondition(r) == IF r.version = NONE THEN MaxVersion ELSE r.version

(* If-Unmodified-Since-Version: the version of the request, or 0, which no *)
(* object has. What is created carries a write token instead.              *)
IfUnmodifiedSince(r) == IF r.version = NONE THEN 0 ELSE r.version

-----------------------------------------------------------------------------
(* The API. It changes an object when the object is not newer than the     *)
(* version the request names.                                              *)
Accepts(r) ==
  IF r.op \in {"create_collection", "create_item"}
  THEN \E k \in Keys : library[k] = 0
  ELSE library[r.key] \in 1..IfUnmodifiedSince(r)

Apply(c) ==
  LET r == call[c].request IN
  /\ clock < MaxVersion
  /\ clock' = clock + 1
  /\ \E k \in Keys :
       /\ IF r.op \in {"create_collection", "create_item"}
          THEN library[k] = 0 ELSE k = r.key
       /\ library' = [library EXCEPT ![k] =
            IF r.op \in {"delete_collection", "delete_item"} THEN 0 ELSE clock']
       /\ effects' = effects \cup
            {[call |-> c, key |-> k, from |-> library[k]]}

Answer(c, a) ==
  call' = [call EXCEPT ![c].at = "answered", ![c].answer = a]

(* The API answers a write: done; refused, by status or as one of the      *)
(* failures of a multi-object answer; or the connection breaks, before or  *)
(* after the API acted, or while the request may still arrive.             *)
ServeWrite(c) ==
  /\ call[c].at = "sent" /\ Kind(c) = "write"
  /\ UNCHANGED mode
  /\ \/ /\ Accepts(call[c].request) /\ Apply(c)
        /\ UNCHANGED late
        /\ \E a \in {"ok", "unreadable", "broken"} : Answer(c, a)
     \/ /\ \E a \in {"status", "busy", "nothing_saved", "broken"} : Answer(c, a)
        /\ UNCHANGED <<library, clock, late, effects>>
     \/ /\ Answer(c, "broken")
        /\ late' = late \cup {c}
        /\ UNCHANGED <<library, clock, effects>>

(* A record is taken with the fields it lacks left out, one that is not of *)
(* the expected form is unreadable.                                        *)
Decoded == {"ok", "unreadable"}

ServeRead(c) ==
  /\ call[c].at = "sent" /\ Kind(c) # "write"
  /\ \E a \in Decoded \cup {"status", "busy", "broken"} : Answer(c, a)
  /\ UNCHANGED <<mode, library, clock, late, effects>>

(* A write arrives after its caller has given up.                          *)
ArriveLate(c) ==
  /\ c \in late
  /\ late' = late \ {c}
  /\ Accepts(call[c].request) /\ Apply(c)
  /\ UNCHANGED <<mode, call>>

(* Another Zotero client changes an object or deletes it.                  *)
Edit ==
  /\ clock < MaxVersion
  /\ clock' = clock + 1
  /\ \E k \in Keys : \E v \in {0, clock + 1} :
       library' = [library EXCEPT ![k] = v]
  /\ UNCHANGED <<mode, call, late, effects>>

-----------------------------------------------------------------------------
(* get_json asks again after a broken connection, and after 429 and 503,   *)
(* until MaxRetries.                                                       *)
Retries(c) ==
  /\ call[c].answer \in {"broken", "busy"}
  /\ call[c].attempt < MaxRetries

(* Mistake: the attempts are not counted.                                  *)
RetryForEver(c) ==
  /\ call[c].at = "answered" /\ Kind(c) = "get" /\ Retries(c)
  /\ Continue(c, "sleeping")
  /\ UNCHANGED <<mode, library, clock, late, effects>>

RetryGet(c) ==
  /\ call[c].at = "answered" /\ Kind(c) = "get" /\ Retries(c)
  /\ call' = [call EXCEPT ![c].at = "sleeping", ![c].attempt = @ + 1]
  /\ UNCHANGED <<mode, library, clock, late, effects>>

(* The delay, capped at a minute, is over.                                 *)
Wake(c) ==
  /\ call[c].at = "sleeping"
  /\ Continue(c, "send")
  /\ UNCHANGED <<mode, library, clock, late, effects>>

(* The next exchange of the operation, with its own count of attempts, or  *)
(* its end.                                                                *)
Proceed(c) ==
  IF call[c].step < Len(Exchanges(call[c].request.op))
  THEN call' = [call EXCEPT ![c].at = "send", ![c].step = @ + 1,
                            ![c].attempt = 0]
  ELSE End(c, "ok")

(* Api for a status, Http or Serde for what cannot be read.                *)
Failure(a) == IF a \in {"status", "busy"} THEN "api" ELSE "failed"

EndRead(c) ==
  /\ call[c].at = "answered" /\ Kind(c) \in {"get", "fetch"}
  /\ Kind(c) = "get" => ~Retries(c)
  /\ IF call[c].answer = "ok" THEN Proceed(c)
     ELSE End(c, Failure(call[c].answer))
  /\ UNCHANGED <<mode, library, clock, late, effects>>

(* Mistake: an answer that failed objects only is taken for success.       *)
SavedByStatus(c) == call[c].answer \in {"ok", "unreadable", "nothing_saved"}

(* A write is never sent again. A deletion reads no more than the status.  *)
Saved(c) ==
  \/ call[c].answer = "ok"
  \/ /\ call[c].request.op \in {"delete_collection", "delete_item"}
     /\ call[c].answer = "unreadable"

(* Mistake: writes are retried as reads are.                               *)
EndWriteOrRetry(c) ==
  /\ call[c].at = "answered" /\ Kind(c) = "write"
  /\ IF Retries(c)
     THEN call' = [call EXCEPT ![c].at = "send", ![c].attempt = @ + 1]
     ELSE IF Saved(c) THEN Proceed(c) ELSE End(c, Failure(call[c].answer))
  /\ UNCHANGED <<mode, library, clock, late, effects>>

EndWrite(c) ==
  /\ call[c].at = "answered" /\ Kind(c) = "write"
  /\ IF Saved(c) THEN Proceed(c) ELSE End(c, Failure(call[c].answer))
  /\ UNCHANGED <<mode, library, clock, late, effects>>

-----------------------------------------------------------------------------
Init ==
  /\ mode \in Modes
  /\ library \in [Keys -> {0, 1}] /\ clock = 1
  /\ call = [c \in Calls |-> Idle]
  /\ late = {} /\ effects = {}

Client(c) ==
  Send(c) \/ RetryGet(c) \/ Wake(c) \/ EndRead(c) \/ EndWrite(c)
Api(c) == ServeWrite(c) \/ ServeRead(c)

Next ==
  \/ Edit
  \/ \E c \in Calls : Begin(c) \/ Client(c) \/ Api(c) \/ ArriveLate(c)

Spec == Init /\ [][Next]_vars

(* The runtime drives every call on; an exchange ends at the latest with   *)
(* the timeout of the HTTP client.                                         *)
FairSpec == Spec /\ \A c \in Calls : WF_vars(Client(c)) /\ WF_vars(Api(c))

-----------------------------------------------------------------------------
Effects(c) == {e \in effects : e.call = c}

(* A call changes the library at most once, however its answer was lost    *)
(* and whenever its request arrived: send_json_write and send_delete never *)
(* send again.                                                             *)
ChangesOnce == \A e, f \in effects : e.call = f.call => e = f

(* An update or a deletion changes the very version its caller had read:   *)
(* what somebody else wrote in between is not overwritten, and a request   *)
(* without a version changes nothing (docs/skill.md:329).                  *)
NoLostUpdate ==
  \A e \in effects :
    LET r == call[e.call].request IN
    r.op \in {"update_collection", "update_item",
              "delete_collection", "delete_item"} => e.from = r.version

(* What a caller is told is so: after success the library was changed,     *)
(* after a refusal by the service or by the API it was not and will not    *)
(* be. Only update_item may report the failure of a read that follows its  *)
(* write.                                                                  *)
HonestAnswers ==
  \A c \in Calls : call[c].at = "done" =>
    /\ call[c].result = "ok" /\ call[c].request.op \in Writes => Effects(c) # {}
    /\ call[c].result = "invalid" => Effects(c) = {} /\ c \notin late
    /\ call[c].result = "api" /\ call[c].request.op # "update_item" =>
         Effects(c) = {} /\ c \notin late

(* Every call returns, whatever the API answers and however often it asks  *)
(* to wait.                                                                *)
CallsReturn == \A c \in Calls : Going(c) ~> call[c].at = "done"

=============================================================================
