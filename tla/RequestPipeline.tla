--------------------------- MODULE RequestPipeline ---------------------------
(***************************************************************************)
(* One request through the handler pipeline (app.go, internal/routing,     *)
(* internal/acme, internal/domain, internal/handlers, internal/artifact    *)
(* and the middlewares around them).                                       *)
(*                                                                         *)
(* The domain is looked up once, but what it resolves to is looked up      *)
(* again by every handler that asks about the project, and GitLab may      *)
(* change it in between.  The domain has a namespace project "ns", which   *)
(* answers for every path no other project has, and a project "secret".    *)
(* Logging in is the subject of AuthFlow, files are of DiskServing.        *)
(***************************************************************************)
EXTENDS Integers, Sequences

CONSTANTS
  Request,      \* the requests
  Config,       \* the configurations
  World,        \* what GitLab may say about the domain
  MaxChanges,   \* bound on the changes of the world during a request
  None          \* no value

Path == {"/", "/secret/x", "/missing/x"}

\* Requests that differ in what a handler asks about; flaky: GitLab fails to answer.
AnyRequest ==
  [kind : {"page", "acme", "callback", "artifact", "preflight", "method", "uri", "status", "limited"},
   path : Path, file : BOOLEAN, https : BOOLEAN, flaky : BOOLEAN,
   session : {"none", "valid", "revoked", "undecodable"}]

ASSUME PipelineAssumption ==
  /\ Request \subseteq AnyRequest
  /\ Config \subseteq
       [auth : BOOLEAN, acme : {"off", "on", "unparsable"}, cors : BOOLEAN, redirectHTTP : BOOLEAN]
  /\ World \subseteq
       [ns : {"absent", "public", "private"}, secret : {"absent", "private"}, httpsOnly : BOOLEAN,
        broken : {None, "ErrDiskDisabled", "other"}, member : SUBSET {"ns", "secret"}]
  /\ MaxChanges \in Nat
  /\ None \notin BOOLEAN /\ None \notin {"ErrDiskDisabled", "other"}

VARIABLES
  req, config, world,
  known,     \* whether the source knew the domain (a nil domain otherwise)
  pc,        \* the handler the request is in
  after,     \* where a successful check of the token leads
  lookup,    \* the lookup path ServeNotFoundAuthFailed holds
  answers,   \* everything written to the response
  checked,   \* projects the user was found to have access to
  changes,   \* changes of the world during the request
  first      \* the answer to /secret/x, while the same is done for /missing/x

vars == <<req, config, world, known, pc, after, lookup, answers, checked, changes, first>>

Init ==
  /\ req \in Request
  /\ config \in Config
  /\ world \in World
  /\ known = FALSE
  /\ pc = "receive"
  /\ after = None
  /\ lookup = None
  /\ answers = <<>>
  /\ checked = {}
  /\ changes = 0
  /\ first = None

-----------------------------------------------------------------------------
(* Resolving                                                               *)

\* Domain.resolve of a path: a project or an error.
Resolve(path) ==
  IF ~ known THEN "ErrDomainDoesNotExist"
  ELSE IF world.broken # None THEN world.broken
  ELSE IF path = "/secret/x" /\ world.secret # "absent" THEN "secret"
  ELSE IF world.ns # "absent" THEN "ns"
  ELSE "ErrDomainDoesNotExist"

Failed(p) == p \notin {"ns", "secret"}

\* HasAccessControl, IsHTTPSOnly and IsNamespaceProject of the lookup path; the
\* domain answers FALSE when it cannot be resolved.
IsAccessControlEnabled(p) == (p = "ns" /\ world.ns = "private") \/ p = "secret"
IsHTTPSOnly(p)            == ~ Failed(p) /\ world.httpsOnly
IsNamespaceProject(p)     == p = "ns"

\* Whether project p has a file for the path.
HasFile(p, path) == req.file /\ (p = "secret" \/ path = "/")

\* GitLab's answer to a valid token; without a project it is asked for the user.
MayAccess(p) == ~ IsAccessControlEnabled(p) \/ p \in world.member

Written(s, b) == answers' = Append(answers, [status |-> s, body |-> b])

Done(s, b) ==
  /\ Written(s, b)
  /\ pc' = "done"
  /\ UNCHANGED <<req, config, world, known, after, lookup, checked, changes, first>>

Go(next) ==
  /\ pc' = next
  /\ UNCHANGED <<req, config, world, known, after, lookup, answers, checked, changes, first>>

\* checkAuthentication, and then on to next.
CheckToken(next) ==
  /\ pc' = "token"
  /\ after' = next
  /\ UNCHANGED <<req, config, world, known, lookup, answers, checked, changes, first>>

\* The domain's answer to an error of resolve.
ServeError(p) == Done(IF p = "ErrDomainDoesNotExist" THEN 404 ELSE 503, "error")

-----------------------------------------------------------------------------
(* The middlewares in front of the domain                                  *)

rejectMethods == req.kind = "method" /\ Done(405, "error")
limitURI      == req.kind = "uri" /\ Done(414, "error")
healthCheck   == req.kind = "status" /\ Done(200, "success")

\* The outermost first; the rate limiters have a module of their own, and a panic
\* is not modelled.
Receive ==
  /\ pc = "receive"
  /\ \/ rejectMethods
     \/ limitURI
     \/ healthCheck
     \/ req.kind = "limited" /\ Done(429, "error")
     \/ req.kind \notin {"method", "uri", "status", "limited"} /\ Go("route")

\* routing: a source that fails is a 502; an unknown domain goes on as nil.
Route ==
  /\ pc = "route"
  /\ IF world.broken = "other" THEN Done(502, "error")
     ELSE /\ pc' = "acme"
          /\ known' = (world.ns # "absent" \/ world.secret # "absent")
          /\ UNCHANGED <<req, config, world, after, lookup, answers, checked, changes, first>>

\* ServeAcmeChallenges returns false when it has served the file.
AcmeGoesOn(p) ==
  /\ Written(IF p = "ErrDomainDoesNotExist" THEN 404 ELSE IF Failed(p) THEN 503 ELSE 200, p)
  /\ pc' = "authenticate"
  /\ UNCHANGED <<req, config, world, known, after, lookup, checked, changes, first>>

Acme ==
  LET p == Resolve(req.path) IN
  /\ pc = "acme"
  /\ IF req.kind # "acme" \/ config.acme = "off" THEN Go("authenticate")
     ELSE IF Failed(p) \/ HasFile(p, req.path) THEN AcmeGoesOn(p)
     ELSE IF config.acme = "unparsable" THEN Go("authenticate")
     ELSE Done(307, "gitlab")

\* TryAuthenticate: a session that cannot be read, and the callback, which goes
\* on when it has neither an error nor a code and a state.
Authenticate ==
  /\ pc = "authenticate"
  /\ IF ~ config.auth THEN Go("auxiliary")
     ELSE IF req.session = "undecodable" THEN Done(302, "same")
     ELSE IF req.kind = "callback" THEN Done(302, "login") \/ Go("auxiliary")
     ELSE Go("auxiliary")

-----------------------------------------------------------------------------
(* tryAuxiliaryHandlers                                                    *)

HasToken == config.auth /\ req.session \in {"valid", "revoked"}

Auxiliary ==
  /\ pc = "auxiliary"
  /\ IF ~ req.https /\ config.redirectHTTP THEN Done(307, "https")
     ELSE IF req.kind = "artifact" THEN Go("artifact")
     ELSE Go("lookup")

\* What is done about the status the artifact server answers, before it is passed on.
checkIfLoginRequiredOrInvalidToken(s) ==
  \/ s \in {403, 404} /\ ~ HasToken /\ config.auth /\ Done(302, "login")
  \/ s = 401 /\ config.auth /\ req.session = "revoked" /\ Done(302, "same")

\* Error pages are our own; what needs no token is cacheable.
ArtifactBody(s) ==
  IF s \in {404, 500} THEN "error"
  ELSE IF s = 200 /\ ~ HasToken THEN "cacheable artifact" ELSE "artifact"

\* makeRequest: the answers of the artifact server, or none.
Artifact ==
  /\ pc = "artifact"
  /\ \/ Done(502, "error")
     \/ \E s \in {401, 403, 404} : checkIfLoginRequiredOrInvalidToken(s)
     \/ \E s \in {200, 401, 403, 404, 500} :
          /\ s \notin {403, 404} \/ HasToken \/ ~ config.auth
          /\ Done(s, ArtifactBody(s))

\* GetLookupPath: 500 when disk serving is off, or the not found of checkAuthAndServeNotFound.
Lookup ==
  LET p == Resolve(req.path) IN
  /\ pc = "lookup"
  /\ IF p = "ErrDiskDisabled" THEN Done(500, "error")
     ELSE IF ~ Failed(p) THEN Go("httpsOnly")
     ELSE IF config.auth THEN CheckToken("authFailed") ELSE Go("authFailed")

HTTPSOnly ==
  /\ pc = "httpsOnly"
  /\ IF ~ req.https /\ IsHTTPSOnly(Resolve(req.path)) THEN Done(301, "https") ELSE Go("authorize")

-----------------------------------------------------------------------------
(* AuthorizationMiddleware, serveFileOrNotFoundHandler                     *)

\* Mutant: only the namespace project is checked.
AuthorizeNamespace ==
  /\ pc = "authorize"
  /\ IF Resolve(req.path) # "ns" \/ world.ns # "private" THEN Go("serve")
     ELSE IF config.auth THEN CheckToken("serve") ELSE Done(500, "error")

Authorize ==
  /\ pc = "authorize"
  /\ IF ~ IsAccessControlEnabled(Resolve(req.path)) THEN Go("serve")
     ELSE IF config.auth THEN CheckToken("serve") ELSE Done(500, "error")

\* checkAuthentication: GetProjectID resolves again; GitLab may fail to answer,
\* which a revoked token does not show in.
Token ==
  LET p == Resolve(req.path) IN
  /\ pc = "token"
  /\ \/ req.session = "none" /\ Done(302, "login")
     \/ req.session = "revoked" /\ ~ req.flaky /\ Done(302, "same")
     \/ /\ req.session = "valid" /\ MayAccess(p) /\ ~ req.flaky
        /\ pc' = after
        /\ after' = None
        /\ checked' = checked \cup {p}
        /\ UNCHANGED <<req, config, world, known, lookup, answers, changes, first>>
     \/ req.session = "valid" /\ ~ MayAccess(p) /\ Go("authFailed")
     \/ req.session \in {"valid", "revoked"} /\ req.flaky /\ Go("authFailed")

\* Mutant: a domain that cannot be resolved counts as not served.
ServeErrorGoesOn ==
  LET p == Resolve(req.path) IN
  /\ pc = "serve"
  /\ IF req.kind = "preflight" /\ config.cors THEN Done(204, "cors")
     ELSE IF Failed(p)
     THEN /\ Written(404, "error")
          /\ pc' = "notServed"
          /\ UNCHANGED <<req, config, world, known, after, lookup, checked, changes, first>>
     ELSE IF HasFile(p, req.path) THEN Done(200, p)
     ELSE Go("notServed")

\* The cors handler answers a preflight request; Domain.ServeFileHTTP; the project's files may have none for the path.
Serve ==
  LET p == Resolve(req.path) IN
  /\ pc = "serve"
  /\ IF req.kind = "preflight" /\ config.cors THEN Done(204, "cors")
     ELSE IF Failed(p) THEN ServeError(p)
     ELSE IF HasFile(p, req.path) THEN Done(200, p)
     ELSE Go("notServed")

\* Mutant: the login for a missing file of the namespace project is left out.
NotServedPublic == pc = "notServed" /\ Go("notFound")

NotServed ==
  /\ pc = "notServed"
  /\ IF IsNamespaceProject(Resolve(req.path)) /\ config.auth THEN CheckToken("notFound") ELSE Go("notFound")

\* Domain.ServeNotFoundHTTP: the 404 page of the project.
NotFound ==
  LET p == Resolve(req.path) IN
  /\ pc = "notFound"
  /\ IF Failed(p) THEN ServeError(p) ELSE Done(404, p)

-----------------------------------------------------------------------------
(* ServeNotFoundAuthFailed                                                 *)

AuthFailed ==
  LET p == Resolve(req.path) IN
  /\ pc = "authFailed"
  /\ IF Failed(p) THEN Done(404, "error")
     ELSE /\ pc' = "authFailedPage"
          /\ lookup' = IsAccessControlEnabled(p)
          /\ UNCHANGED <<req, config, world, known, after, answers, checked, changes, first>>

AuthFailedPage ==
  /\ pc = "authFailedPage"
  /\ Go(IF IsNamespaceProject(Resolve(req.path)) /\ ~ lookup THEN "notFound" ELSE "namespaceNotFound")

\* Mutant: the page of the namespace with access control is left out.
NamespaceNotFoundSilent ==
  LET p == Resolve("/") IN
  /\ pc = "namespaceNotFound"
  /\ IF Failed(p) THEN ServeError(p)
     ELSE IF IsAccessControlEnabled(p) THEN Go("done")
     ELSE Done(404, p)

NamespaceNotFound ==
  LET p == Resolve("/") IN
  /\ pc = "namespaceNotFound"
  /\ IF Failed(p) THEN ServeError(p)
     ELSE IF IsAccessControlEnabled(p) THEN Done(404, "error")
     ELSE Done(404, p)

-----------------------------------------------------------------------------
\* GitLab's answer changes while the request is being handled.
Change ==
  /\ pc \notin {"receive", "done"}
  /\ changes < MaxChanges /\ first = None
  /\ world' \in World \ {world}
  /\ changes' = changes + 1
  /\ UNCHANGED <<req, config, known, pc, after, lookup, answers, checked, first>>

\* The same user asks for a project that does not exist.
AskForMissing ==
  /\ pc = "done" /\ changes = 0 /\ first = None
  /\ req.path = "/secret/x" /\ req.kind = "page" /\ answers # <<>>
  /\ first' = answers[1]
  /\ req' = [req EXCEPT !.path = "/missing/x"]
  /\ pc' = "receive"
  /\ after' = None
  /\ lookup' = None
  /\ answers' = <<>>
  /\ checked' = {}
  /\ known' = FALSE
  /\ UNCHANGED <<config, world, changes>>

Handle ==
  \/ Receive \/ Route \/ Acme \/ Authenticate \/ Auxiliary \/ Artifact \/ Lookup
  \/ HTTPSOnly \/ Authorize \/ Token \/ Serve \/ NotServed \/ NotFound
  \/ AuthFailed \/ AuthFailedPage \/ NamespaceNotFound

Next == Handle \/ Change \/ AskForMissing

\* A handler that has been called goes on.
Spec == Init /\ [][Next]_vars /\ WF_vars(Handle)

-----------------------------------------------------------------------------
(* Properties                                                              *)

TypeOK ==
  /\ req \in AnyRequest
  /\ config \in Config
  /\ world \in World
  /\ after \in {None, "serve", "notFound", "authFailed"}
  /\ known \in BOOLEAN
  /\ lookup \in BOOLEAN \cup {None}
  /\ pc = "authFailedPage" => lookup # None
  /\ changes \in 0..MaxChanges

Challenge == req.kind = "acme" /\ config.acme # "off"

\* What ServeFileHTTP writes for a challenge: a file, or why there is no domain.
ByAcme(a) ==
  Challenge /\ a.body \in {"ns", "secret", "ErrDomainDoesNotExist", "ErrDiskDisabled", "other"}

\* A handler that has answered ends the pipeline: whatever changes meanwhile,
\* nothing is written after an answer.  The one exception is an ACME challenge
\* that the domain has answered itself, which one more handler answers; the
\* redirect of a challenge to GitLab is final.
AnsweredOnce == Len(answers) <= 1 \/ (Len(answers) = 2 /\ ByAcme(answers[1]))

\* Every request is answered.
Answered == pc # "done" ~> pc = "done" /\ answers # <<>>

\* As long as GitLab's answer stays the same, the files and the 404 page of a
\* project with access control are only sent to a user who was found to have
\* access to it, whichever of the handlers sends them and also where two of them
\* do.  The one exception is the file an ACME challenge asks for, which
\* ServeAcmeChallenges serves before any authorization; the handlers that go on
\* after it are not excepted.
CheckedBeforeServed ==
  changes = 0 =>
    \A i \in DOMAIN answers :
      LET p == answers[i].body IN
      p \in {"ns", "secret"} /\ IsAccessControlEnabled(p) =>
        p \in checked \/ (Challenge /\ i = 1 /\ HasFile(p, req.path))

\* checkAuthAndServeNotFound: a user without access is answered the same whether
\* the project exists or not.  (Over HTTPS, and unless they may see a private
\* namespace project, which has a 404 page for them.)
MissingLikeForbidden ==
  /\ pc = "done" /\ answers # <<>> /\ first # None /\ changes = 0
  /\ config.auth /\ req.https
  /\ world.secret = "private" /\ "secret" \notin world.member
  /\ ~ (world.ns = "private" /\ "ns" \in world.member)
  => first = answers[1]
=============================================================================
