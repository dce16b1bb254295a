------------------------------- MODULE Sources -------------------------------
(***************************************************************************)
(* Requests of the HTTP API on a source of another user: the public        *)
(* gateway's adapter routes (internal/service/adapters*.go, http.go) over  *)
(* the user source (usersource*.go), which calls the same routes of the    *)
(* user's helper (userworker.go), which works on the native sessions.      *)
(* Meanwhile the native scope (account and store) and the bindings change. *)
(*                                                                         *)
(* A handler is a program: a sequence of steps, each of them what happens  *)
(* between two points where others may act.  A step that asks for          *)
(* /v1/info is two: what the helper samples, and the gateway's use of it.  *)
(* The scope never returns to an earlier value; 0 stands for the identity  *)
(* that a helper without a native scope reports.                           *)
(***************************************************************************)
EXTENDS Integers, Sequences, FiniteSets, SequencesExt, Functions, TLC

CONSTANTS
  Scenarios,    \* [jobs, left]: the requests and what may happen
  EventKinds,   \* the kinds of events that a scenario bounds
  Sessions,
  MaxReaders,   \* maxImageReaders
  MaxStreams,   \* the streams of a source
  MaxCached,    \* the cached access of a source
  MaxUploads    \* uploads.MaxPending

VARIABLES
  nat,       \* the native side: [scope, up, bind, caps]
  source,    \* userSource: [scope, access, streams]
  req,       \* the requests
  readers,   \* Server.imageReaders of the root server
  uploads,   \* the uploads of the gateway's store that are pending
  answers,   \* history: what clients were told
  applied,   \* history: what was done natively
  left       \* events that may still happen

sourcesVars == <<nat, source, req, readers, uploads, answers, applied, left>>
Spend(k) == left[k] > 0 /\ left' = [left EXCEPT ![k] = @ - 1]

NoScope == -1
(* A token: kind, scope, session and value, sealed by one of the two        *)
(* servers; what the gateway seals is a token of the helper.                *)
Token(kind, scope, sess, val) == [kind |-> kind, scope |-> scope, sess |-> sess, val |-> val]
Sealed(kind, scope, sess, inner) == [kind |-> kind, scope |-> scope, sess |-> sess, inner |-> inner]
NoToken == Token("none", NoScope, 0, 0)
NoSeal == Sealed("none", NoScope, 0, NoToken)

(* Mutant: a token of any session will do.                                   *)
UnsealedAnywhere(t, kind, sess, scope) == t.kind = kind /\ t.scope = scope

(* unseal(), in both.                                                        *)
Unsealed(t, kind, sess, scope) == t.kind = kind /\ t.scope = scope /\ t.sess = sess

-----------------------------------------------------------------------------
(* The programs.  Steps of the helper and of the native side begin with h    *)
(* and n.                                                                    *)
View == <<"sample", "view">>
Check == <<"sample", "check">>
HAccess == <<"hcheck", "naccess", "hcheck", "hproject">>
HRead == <<"hview", "hcursor", "hcheck", "nread", "hcheck">> \o HAccess \o <<"hcheck">>
ReadSource == HRead \o <<"remember">>
CheckScope(validated) == (IF validated THEN Check ELSE <<>>) \o <<"sample", "same">>
SourceAccess(validated) ==
  (IF validated THEN Check ELSE <<>>) \o <<"sample", "scope", "hview", "hexpect">> \o HAccess
  \o <<"verify">> \o CheckScope(validated)
ViewAccess == Check \o SourceAccess(FALSE) \o Check \o <<"project">>
ScopedRead == Check \o ReadSource \o Check \o <<"project">>
CatalogAccess == <<"cached">> \o ReadSource \o <<"catalog", "project">>
ValidateAccess == SourceAccess(TRUE) \o <<"equal">>
(* A message, a stop or a setting is validated under its entry's lock and    *)
(* again before it is sent; a name or an archive goes out as it is.          *)
BoundCall == <<"hcheck", "nvalidate", "nvalidate", "hcheck", "napply">>
PlainCall == <<"napply">>
HMutate(call) == <<"hview", "hunseal">> \o HAccess \o <<"hcompare", "hcheck", "hcheck", "nvalidate">> \o call
CallMutation(call) == ValidateAccess \o CheckScope(TRUE) \o HMutate(call)
Mutate(call) ==
  ViewAccess \o <<"compare", "attachments">> \o Check \o ValidateAccess \o CallMutation(call) \o <<"confirm", "answer">>
HCreate == <<"hview", "hexpect", "hcheck", "hcheck", "hcheck", "ncreate", "hcheck", "nstart", "hcheck">> \o HAccess
SourceCreate == CheckScope(TRUE) \o HCreate \o CheckScope(TRUE) \o <<"remember">>
SourceModels == <<"hview", "nread", "hcheck">>
ListRows == Check \o <<"hview", "hcheck", "nlist", "hproject", "hcheck", "remember", "project">> \o Check
ListBare == Check \o <<"hview", "hcheck", "nlist", "hcheck">> \o CatalogAccess \o Check
CreateRoute == <<"expect">> \o Check \o <<"attachments">> \o Check \o SourceCreate \o Check \o ViewAccess
ImageRoute == <<"acquire">> \o ScopedRead \o Check
SourceAttach == Check \o <<"sample", "scope", "hview", "hcheck", "nattach", "hattached", "register", "sample", "attached">>
Refresh == ScopedRead \o <<"show">>
EventsRoute == SourceAttach \o Refresh \o Check \o Refresh
UploadBegin == <<"expect">> \o Check \o Check \o <<"begin", "sample", "begun">>
UploadMore == <<"unsealupload">> \o Check \o Check \o <<"store">> \o Check
UploadCancel == <<"unsealupload">> \o Check \o <<"cancelupload">>
RelayRoute == <<"hview", "hexpect", "hcheck", "nvalidate">> \o BoundCall
SessionRoute == <<"acquire", "nread">>
RootRoute == <<"nread">>

(* route(): what a request does, by its kind; the last three are on the     *)
(* helper's or the gateway's own surface.                                   *)
Prog ==
  [list   |-> View \o ListRows \o <<"answer">>,
   bare   |-> View \o ListBare \o <<"answer">>,
   page   |-> View \o <<"cursor">> \o ScopedRead \o Check \o <<"answer">>,
   models |-> View \o SourceModels \o Check \o <<"answer">>,
   mutate |-> View \o <<"unseal">> \o Mutate(BoundCall),
   rename |-> View \o <<"unseal">> \o CatalogAccess \o Mutate(PlainCall),
   create |-> View \o CreateRoute \o <<"answer">>,
   image  |-> View \o ImageRoute \o <<"answer">>,
   events |-> View \o EventsRoute,
   upload |-> View \o UploadBegin \o <<"answer">>,
   store  |-> View \o UploadMore \o <<"answer">>,
   cancel |-> View \o UploadCancel \o <<"answer">>,
   relay  |-> RelayRoute \o <<"answer">>,
   plain  |-> SessionRoute \o <<"answer">>,
   root   |-> RootRoute \o <<"answer">>]

Request(job) ==
  [kind |-> job.kind, s |-> job.s, state |-> "waiting", pc |-> 1, tok |-> NoSeal, att |-> NoSeal,
   view |-> NoScope, hview |-> NoScope, acc |-> NoScope, sample |-> NoScope,
   checked |-> [scope |-> NoScope, bind |-> 0],
   nacc |-> [scope |-> NoScope, bind |-> 0, caps |-> FALSE], access |-> NoToken, caps |-> FALSE, given |-> NoSeal,
   cursor |-> 0, data |-> [scope |-> NoScope, sess |-> 0], reader |-> FALSE, conn |-> "none", lease |-> FALSE, named |-> FALSE]

(* What clients hold at first: they have listed and read both sessions in   *)
(* scope 1, and started an upload.                                          *)
GivenFirst ==
  {Sealed("binding", 1, s, Token("binding", 1, s, 1)) : s \in Sessions}
  \cup {Sealed("history", 1, s, Token("history", 1, s, s)) : s \in Sessions}
  \cup {Sealed("upload", 1, 0, Token("id", NoScope, 0, 0))}
Tokens == GivenFirst \cup {a.tok : a \in answers}

SourcesInit ==
  /\ nat = [scope |-> 1, up |-> TRUE, bind |-> [s \in Sessions |-> 1], caps |-> TRUE]
  /\ source = [scope |-> NoScope, access |-> <<>>, streams |-> {}]
  /\ \E scn \in Scenarios : req = [r \in DOMAIN scn.jobs |-> Request(scn.jobs[r])] /\ left = scn.left
  /\ readers = 0 /\ uploads = {0} /\ answers = {} /\ applied = <<>>

At(r, step) == req[r].state = "running" /\ Prog[req[r].kind][req[r].pc] = step
Forward(q, changes) == [(changes @@ q) EXCEPT !.pc = @ + 1]
Refused(q) == [q EXCEPT !.state = "refusing"]
(* A step that goes on under a condition, and otherwise ends the request.   *)
Goes(r, cond, changes) == req' = [req EXCEPT ![r] = IF cond THEN Forward(@, changes) ELSE Refused(@)]
Nothing == [state |-> "running"]
Only(r, step, cond, changes) == At(r, step) /\ Goes(r, cond, changes) /\ UNCHANGED <<nat, source, readers, uploads, answers, applied, left>>

(* ServeHTTP() and routeAdapter(): a request begins with what its client     *)
(* was given; the gateway relays what it holds for the session itself.       *)
Carries(kind) == CASE kind \in {"mutate", "rename"} -> {"binding", "history"} [] kind = "page" -> {"history"}
                [] kind \in {"create", "upload", "relay"} -> {"binding"} [] kind \in {"cancel", "store"} -> {"upload", "binding"} [] OTHER -> {}
Attaches(kind) == IF kind \in {"mutate", "create"} THEN {"upload"} ELSE {}
Serve(r) ==
  /\ req[r].state = "waiting"
  /\ \E tok \in {NoSeal} \cup {t \in Tokens : t.kind \in Carries(req[r].kind)},
        att \in {NoSeal} \cup {t \in Tokens : t.kind \in Attaches(req[r].kind)} :
       /\ (tok = NoSeal) = (Carries(req[r].kind) = {})
       /\ req[r].kind = "relay" => tok.sess = req[r].s
       /\ req' = [req EXCEPT ![r].state = "running", ![r].tok = tok, ![r].att = att,
                             ![r].view = IF req[r].kind = "relay" THEN tok.scope ELSE @,
                             ![r].acc = IF req[r].kind = "relay" THEN tok.scope ELSE @,
                             ![r].access = IF req[r].kind = "relay" THEN tok.inner ELSE @]
  /\ UNCHANGED <<nat, source, readers, uploads, answers, applied, left>>

-----------------------------------------------------------------------------
(* The gateway.                                                              *)
(* descriptor(): the helper's answer about the source arrives; a new scope   *)
(* forgets what was cached and cancels the streams.                          *)
Reported == IF nat.up THEN nat.scope ELSE 0
Sample(r) == Only(r, "sample", TRUE, [sample |-> Reported])
Arrives(r, cond, changes, otherwise) ==
  LET scope == req[r].sample
      dropped == IF scope = source.scope THEN {} ELSE source.streams
      rest == [q \in DOMAIN req |-> IF q \in dropped THEN [req[q] EXCEPT !.conn = "closed"] ELSE req[q]] IN
  /\ source' = IF scope = source.scope THEN source ELSE [scope |-> scope, access |-> <<>>, streams |-> {}]
  /\ req' = [rest EXCEPT ![r] = IF cond THEN Forward(@, changes) ELSE Refused(otherwise @@ @)]
Asked(r, step, cond, changes) ==
  At(r, step) /\ Arrives(r, cond, changes, Nothing) /\ UNCHANGED <<nat, readers, uploads, answers, applied, left>>

MakeView(r) == Asked(r, "view", TRUE, [view |-> req[r].sample])
CheckView(r) == Asked(r, "check", req[r].sample = req[r].view, Nothing)

Expected(q) == q.tok.scope = q.view
Expect(r) == Only(r, "expect", Expected(req[r]), [acc |-> req[r].view, named |-> TRUE])

UnsealBinding(r) == Only(r, "unseal", Unsealed(req[r].tok, "binding", req[r].s, req[r].view), Nothing)
UnsealCursor(r) == Only(r, "cursor", Unsealed(req[r].tok, "history", req[r].s, req[r].view), Nothing)
UnsealUpload(r) == Only(r, "unsealupload", Unsealed(req[r].tok, "upload", 0, req[r].view), Nothing)
Attachments(r) ==
  Only(r, "attachments", req[r].att = NoSeal \/ Unsealed(req[r].att, "upload", 0, req[r].view), Nothing)

(* projectAccess(), and what mutate() compares.                              *)
Project(r) ==
  Only(r, "project", req[r].access.scope = req[r].view, [given |-> Sealed("binding", req[r].view, req[r].s, req[r].access)])
Compare(r) == Only(r, "compare", req[r].given = req[r].tok /\ req[r].caps, [named |-> TRUE])

(* Access(), checkScope() and ValidateAccess() of the user source.  The      *)
(* scope a request expects is the view's where its context carries one.      *)
Scope(r) == Asked(r, "scope", req[r].named => req[r].sample = req[r].view, [acc |-> req[r].sample])
Verify(r) == Only(r, "verify", req[r].access.scope = req[r].acc, Nothing)
Same(r) == Asked(r, "same", req[r].sample = req[r].acc, Nothing)
Confirm(r) == Only(r, "confirm", req[r].data.scope /= NoScope, Nothing)
Equal(r) == Only(r, "equal", req[r].access = req[r].tok.inner, Nothing)

(* remember() and CatalogAccess().                                           *)
Remembered(s, access) ==
  IF source.scope /= NoScope /\ access.scope /= source.scope THEN source
  ELSE [source EXCEPT !.access = (s :> access) @@ IF Cardinality(DOMAIN @) >= MaxCached THEN <<>> ELSE @]
Remember(r) ==
  /\ At(r, "remember") /\ source' = Remembered(req[r].s, req[r].access) /\ Goes(r, TRUE, Nothing)
  /\ UNCHANGED <<nat, readers, uploads, answers, applied, left>>
Cached(r) ==
  LET s == req[r].s
      hit == s \in DOMAIN source.access /\ source.access[s].scope = source.scope IN
  Only(r, "cached", TRUE, IF hit THEN [access |-> source.access[s], pc |-> req[r].pc + Len(ReadSource)] ELSE Nothing)
Catalog(r) == Only(r, "catalog", req[r].access.scope = source.scope, [caps |-> FALSE])

(* image(): the budget of readers belongs to the root server.                *)
AcquireImageReader(r) ==
  /\ At(r, "acquire") /\ Goes(r, readers < MaxReaders, [reader |-> TRUE])
  /\ readers' = IF readers < MaxReaders THEN readers + 1 ELSE readers
  /\ UNCHANGED <<nat, source, uploads, answers, applied, left>>

(* upload(): an upload that was begun in a scope that has gone is cancelled; *)
(* a chunk may be the last one, and an upload may be completed.              *)
BeginUpload(r) ==
  /\ At(r, "begin") /\ Goes(r, Cardinality(uploads) < MaxUploads, Nothing)
  /\ uploads' = IF Cardinality(uploads) < MaxUploads THEN uploads \cup {r} ELSE uploads
  /\ UNCHANGED <<nat, source, readers, answers, applied, left>>
BegunUpload(r) ==
  /\ At(r, "begun")
  /\ Arrives(r, req[r].sample = req[r].view, [given |-> Sealed("upload", req[r].view, 0, Token("id", NoScope, 0, r))], Nothing)
  /\ uploads' = IF req[r].sample = req[r].view THEN uploads ELSE uploads \ {r}
  /\ UNCHANGED <<nat, readers, answers, applied, left>>
StoreUpload(r) ==
  /\ At(r, "store") /\ Goes(r, req[r].tok.inner.val \in uploads, Nothing)
  /\ uploads' \in {uploads, uploads \ {req[r].tok.inner.val}}
  /\ UNCHANGED <<nat, source, readers, answers, applied, left>>
CancelUpload(r) ==
  /\ At(r, "cancelupload") /\ Goes(r, req[r].tok.inner.val \in uploads, Nothing)
  /\ uploads' = uploads \ {req[r].tok.inner.val}
  /\ UNCHANGED <<nat, source, readers, answers, applied, left>>

(* Attach(): the stream is registered for the scope it was opened in, and    *)
(* given back when the view has changed meanwhile.                           *)
RegisterStream(r) ==
  LET ok == source.scope = req[r].acc /\ Cardinality(source.streams) < MaxStreams IN
  /\ At(r, "register")
  /\ req' = [req EXCEPT ![r] = IF ok THEN Forward(@, Nothing) ELSE Refused([@ EXCEPT !.conn = "closed"])]
  /\ source' = IF ok THEN [source EXCEPT !.streams = @ \cup {r}] ELSE source
  /\ UNCHANGED <<nat, readers, uploads, answers, applied, left>>

(* Mutant: the attachment is forgotten when the view has changed.            *)
AttachedKept(r) == Asked(r, "attached", req[r].sample = req[r].view, [lease |-> TRUE])

Attached(r) ==
  /\ At(r, "attached")
  /\ Arrives(r, req[r].sample = req[r].view, [lease |-> TRUE], [conn |-> "closed"])
  /\ UNCHANGED <<nat, readers, uploads, answers, applied, left>>

(* What the goroutine of a stream does with a page, an error and the end.    *)
StreamPage(r) ==
  /\ r \in source.streams /\ req[r].conn = "open" /\ Spend("event")
  /\ IF source.scope = req[r].acc
     THEN source' = Remembered(req[r].s, Token("binding", req[r].hview, req[r].s, nat.bind[req[r].s])) /\ UNCHANGED req
     ELSE req' = [req EXCEPT ![r].conn = "closed"] /\ UNCHANGED source
  /\ UNCHANGED <<nat, readers, uploads, answers, applied>>
StreamFails(r) ==
  /\ r \in source.streams /\ req[r].conn = "open" /\ Spend("fail")
  /\ source' = [source EXCEPT !.access = Restrict(@, DOMAIN @ \ {req[r].s}), !.streams = @ \ {r}]
  /\ req' = [req EXCEPT ![r].conn = "closed"]
  /\ UNCHANGED <<nat, readers, uploads, answers, applied>>
StreamGone(r) ==
  /\ r \in source.streams /\ req[r].conn = "closed"
  /\ source' = [source EXCEPT !.streams = @ \ {r}]
  /\ UNCHANGED <<nat, req, readers, uploads, answers, applied, left>>

-----------------------------------------------------------------------------
(* The helper: the same routes over the native sessions.                     *)
HView(r) == Only(r, "hview", nat.up, [hview |-> nat.scope])
HCheck(r) ==
  Only(r, "hcheck", nat.up /\ nat.scope = req[r].hview, [checked |-> [req[r].checked EXCEPT !.scope = nat.scope]])
HExpect(r) == Only(r, "hexpect", req[r].acc = req[r].hview, Nothing)
HUnseal(r) == Only(r, "hunseal", Unsealed(req[r].tok.inner, "binding", req[r].s, req[r].hview), Nothing)
HCursor(r) ==
  LET t == req[r].tok.inner IN
  IF req[r].kind = "page" THEN Only(r, "hcursor", Unsealed(t, "history", req[r].s, req[r].hview), [cursor |-> t.val])
  ELSE Only(r, "hcursor", TRUE, Nothing)
HProject(r) ==
  Only(r, "hproject", req[r].nacc.scope = req[r].hview,
       [access |-> Token("binding", req[r].hview, req[r].s, req[r].nacc.bind), caps |-> req[r].nacc.caps])
HCompare(r) == Only(r, "hcompare", req[r].access = req[r].tok.inner /\ req[r].caps, Nothing)

(* The native operations: each at one moment, in the scope of that moment.   *)
NRead(r) ==
  Only(r, "nread", nat.up, [data |-> [scope |-> nat.scope, sess |-> IF req[r].cursor = 0 THEN req[r].s ELSE req[r].cursor]])
NList(r) ==
  Only(r, "nlist", nat.up, [data |-> [scope |-> nat.scope, sess |-> req[r].s], nacc |-> [scope |-> nat.scope, bind |-> 0, caps |-> FALSE]])
NAccess(r) == Only(r, "naccess", nat.up, [nacc |-> [scope |-> nat.scope, bind |-> nat.bind[req[r].s], caps |-> nat.caps]])
(* Mutant: any session that can be told is valid.                            *)
ValidatedAny(q) == nat.up
Validated(q) == nat.up /\ nat.bind[q.s] = q.tok.inner.val
NValidate(r) ==
  Only(r, "nvalidate", Validated(req[r]), [checked |-> [req[r].checked EXCEPT !.bind = nat.bind[req[r].s]]])

(* The native side does what it is asked, in the scope of that moment: the   *)
(* account and the binding may have changed since the last check.            *)
Applies(r, step) ==
  /\ At(r, step) /\ Goes(r, TRUE, [data |-> [scope |-> nat.scope, sess |-> req[r].s]])
  /\ applied' = Append(applied, [r |-> r, step |-> step, s |-> req[r].s, scope |-> nat.scope, checked |-> req[r].checked])
  /\ UNCHANGED <<nat, source, readers, uploads, answers, left>>
NApply(r) == Applies(r, "napply")
NCreate(r) == Applies(r, "ncreate")
NStart(r) == Applies(r, "nstart")
NAttach(r) == Only(r, "nattach", nat.up, [conn |-> "open"])
HAttached(r) ==
  /\ At(r, "hattached")
  /\ req' = [req EXCEPT ![r] = IF nat.up /\ nat.scope = req[r].hview THEN Forward(@, Nothing) ELSE Refused([@ EXCEPT !.conn = "closed"])]
  /\ UNCHANGED <<nat, source, readers, uploads, answers, applied, left>>

-----------------------------------------------------------------------------
(* respond(): the answer, sealed for the view; a page also carries a cursor. *)
Answer(q) ==
  [kind |-> q.kind, s |-> q.s, view |-> q.view, data |-> q.data,
   tok |-> IF q.kind \in {"page", "events"} THEN Sealed("history", q.view, q.s, Token("history", q.hview, q.s, q.data.sess)) ELSE q.given]
Respond(r) ==
  /\ At(r, "answer") \/ At(r, "show")
  /\ answers' = answers \cup {Answer(req[r]) @@ [r |-> r]}
  /\ req' = [req EXCEPT ![r] = IF @.pc = Len(Prog[@.kind]) THEN [@ EXCEPT !.state = "closing"] ELSE Forward(@, Nothing)]
  /\ UNCHANGED <<nat, source, readers, uploads, applied, left>>

(* call(): a call fails, its answer is lost, the client goes away.  An open  *)
(* stream that nobody got is closed with its context.                        *)
Fails(r) ==
  /\ req[r].state = "running" /\ Spend("fail")
  /\ uploads' = IF At(r, "answer") THEN uploads ELSE uploads \ {r}
  /\ req' = [req EXCEPT ![r] = Refused(IF req[r].lease THEN @ ELSE [@ EXCEPT !.conn = IF @ = "open" THEN "closed" ELSE @])]
  /\ UNCHANGED <<nat, source, readers, answers, applied>>

(* The deferred calls of a handler.                                          *)
Finish(r) ==
  /\ req[r].state \in {"refusing", "closing"}
  /\ readers' = IF req[r].reader THEN readers - 1 ELSE readers
  /\ req' = [req EXCEPT ![r].state = IF @ = "closing" THEN "answered" ELSE "refused", ![r].reader = FALSE,
                        ![r].conn = IF req[r].lease THEN "closed" ELSE @, ![r].lease = FALSE]
  /\ UNCHANGED <<nat, source, uploads, answers, applied, left>>

(* The account or the store changes, or cannot be told; a session is bound   *)
(* anew; a permission goes.                                                  *)
Changes(k, n) == Spend(k) /\ nat' = n /\ UNCHANGED <<source, req, readers, uploads, answers, applied>>
NativeChange ==
  \/ Changes("switch", [nat EXCEPT !.scope = @ + 1])
  \/ Changes("flip", [nat EXCEPT !.up = ~@])
  \/ \E s \in Sessions : Changes("rebind", [nat EXCEPT !.bind[s] = @ + 1])
  \/ nat.caps /\ Changes("narrow", [nat EXCEPT !.caps = FALSE])

Gateway(r) ==
  \/ Serve(r) \/ Sample(r) \/ MakeView(r) \/ CheckView(r) \/ Expect(r) \/ UnsealBinding(r) \/ UnsealCursor(r)
  \/ UnsealUpload(r) \/ Attachments(r) \/ Project(r) \/ Compare(r) \/ Scope(r) \/ Verify(r) \/ Same(r) \/ Equal(r) \/ Confirm(r)
  \/ Remember(r) \/ Cached(r) \/ Catalog(r) \/ AcquireImageReader(r) \/ BeginUpload(r) \/ BegunUpload(r) \/ StoreUpload(r) \/ CancelUpload(r)
  \/ RegisterStream(r) \/ Attached(r) \/ StreamPage(r) \/ StreamFails(r) \/ StreamGone(r) \/ Respond(r) \/ Fails(r) \/ Finish(r)
Helper(r) ==
  \/ HView(r) \/ HCheck(r) \/ HExpect(r) \/ HUnseal(r) \/ HCursor(r) \/ HProject(r) \/ HCompare(r) \/ HAttached(r)
  \/ NRead(r) \/ NList(r) \/ NAccess(r) \/ NValidate(r) \/ NApply(r) \/ NCreate(r) \/ NStart(r) \/ NAttach(r)
SourcesNext == NativeChange \/ \E r \in DOMAIN req : Gateway(r) \/ Helper(r)
SourcesSpec == SourcesInit /\ [][SourcesNext]_sourcesVars

-----------------------------------------------------------------------------
(* What a client is told under a scope and a session is of that scope and    *)
(* that session, and so are the tokens it is given: whichever samples        *)
(* arrived late or out of order, and wherever between two checks the         *)
(* account changed (adapters.go:213, usersource.go:58).                      *)
AnswerInScope ==
  \A a \in answers : a.kind \in {"list", "bare", "page", "models", "create", "image", "events"} =>
    /\ a.data.scope = a.view /\ a.data.sess = a.s
    /\ a.tok.kind /= "none" => a.tok.scope = a.view /\ a.tok.sess = a.s /\ a.tok.inner.scope = a.view /\ a.tok.inner.sess = a.s

(* What reaches the native side is what a client asked for: it was last     *)
(* checked in the scope the client named, on the session and with the       *)
(* binding the client was given, its attachments are of that scope, and     *)
(* nothing is done twice.  Whoever is told that it was done is told the     *)
(* truth, and a creation that is answered started its task and its turn in  *)
(* the very scope of the answer.  The program does not hold the scope       *)
(* between the last check and the native call, so a mutation may be done    *)
(* and answered in a scope that came in between (adapters_routes.go:191     *)
(* and :294, taskaccess.go:142, usersourcemutations.go:48).                 *)
Did(r, step) == {i \in DOMAIN applied : applied[i].r = r /\ applied[i].step = step}
AppliedAsAsked ==
  /\ \A i \in DOMAIN applied : LET a == applied[i] q == req[a.r] IN
       /\ a.s = q.s /\ a.checked.scope = q.tok.scope
       /\ q.kind /= "create" => a.checked.bind = q.tok.inner.val /\ q.tok.kind = "binding" /\ q.tok.sess = a.s
       /\ q.att /= NoSeal => q.att.kind = "upload" /\ q.att.scope = a.checked.scope
       /\ Did(a.r, a.step) = {i}
  /\ \A a \in answers :
       /\ a.kind \in {"mutate", "rename", "relay"} => Did(a.r, "napply") /= {}
       /\ a.kind = "create" => \A step \in {"ncreate", "nstart"} : \E i \in Did(a.r, step) : applied[i].scope = a.view

(* A request that is over.                                                   *)
Over(q) == q.state \in {"refused", "answered"}

(* Nothing outlives its request: a reader, a native attachment, an upload    *)
(* nobody was told of; and the source keeps no stream and no access of       *)
(* another scope than the one it knows (http.go:626, usersource.go:219,      *)
(* adapters_uploads.go:51).                                                  *)
NothingHeld ==
  /\ readers = Cardinality({r \in DOMAIN req : req[r].reader}) /\ readers <= MaxReaders
  /\ \A r \in DOMAIN req : Over(req[r]) => req[r].conn /= "open" /\ ~req[r].reader
  /\ \A r \in uploads \ {0} : Over(req[r]) => req[r].pc = Len(Prog[req[r].kind])
  /\ \A r \in source.streams : req[r].acc = source.scope
  /\ \A s \in DOMAIN source.access : source.scope \in {NoScope, source.access[s].scope}
=============================================================================
