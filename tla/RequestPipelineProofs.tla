------------------------ MODULE RequestPipelineProofs ------------------------
(***************************************************************************)
(* Proofs about RequestPipeline, for any sets of requests, configurations  *)
(* and answers of GitLab, and any number of changes during a request.      *)
(***************************************************************************)
EXTENDS RequestPipeline, TLAPS

Handlers ==
  {"receive", "route", "acme", "authenticate", "auxiliary", "artifact", "lookup", "httpsOnly",
   "authorize", "token", "serve", "notServed", "notFound", "authFailed", "authFailedPage",
   "namespaceNotFound"}

Project == {"ns", "secret"}
Errors  == {"ErrDomainDoesNotExist", "ErrDiskDisabled", "other"}
Plain   == {"error", "success", "same", "login", "https", "gitlab", "artifact", "cacheable artifact", "cors"}

Answer == [status : Nat, body : Plain \cup Project \cup Errors]

(***************************************************************************)
(* The inductive invariant.  Until the pipeline ends nothing is written,   *)
(* except by the acme handler, once it is left.                            *)
(***************************************************************************)
Room ==
  /\ pc \in Handlers \cup {"done"} /\ answers \in Seq(Answer)
  /\ pc = "token" => after \in {"serve", "notFound", "authFailed"}
  /\ pc \in {"receive", "route", "acme"} => answers = <<>>
  /\ pc \in Handlers => answers = <<>> \/ (Len(answers) = 1 /\ ByAcme(answers[1]))
  /\ AnsweredOnce

(***************************************************************************)
(* While GitLab says the same, the handlers that serve from a project are  *)
(* reached only after the check of the token, or for a public project, and *)
(* what ServeNotFoundAuthFailed has read about it is still right.          *)
(***************************************************************************)
Shown ==
  changes = 0 =>
    LET p == Resolve(req.path) IN
    /\ pc \in {"serve", "notServed", "notFound"} /\ IsAccessControlEnabled(p) => p \in checked
    /\ pc = "authFailedPage" => lookup = IsAccessControlEnabled(p)

(***************************************************************************)
(* The two requests MissingLikeForbidden compares have the same answer,    *)
(* which is named here, although they take different ways to it: Stage     *)
(* tells which handlers each of them reaches, and with which session.      *)
(***************************************************************************)
Twin ==
  /\ changes = 0 /\ config.auth /\ req.https
  /\ req.kind = "page" /\ req.path \in {"/secret/x", "/missing/x"}
  /\ world.secret = "private" /\ "secret" \notin world.member
  /\ ~ (world.ns = "private" /\ "ns" \in world.member)

\* GitLab has not told that the token is revoked.
Unanswered == req.session = "valid" \/ (req.session = "revoked" /\ req.flaky)

Same ==
  CASE world.broken = "other"             -> [status |-> 502, body |-> "error"]
    [] world.broken # "other" /\ req.session = "undecodable"
                                          -> [status |-> 302, body |-> "same"]
    [] world.broken = "ErrDiskDisabled" /\ req.session # "undecodable"
                                          -> [status |-> 500, body |-> "error"]
    [] world.broken = None /\ req.session = "none"
                                          -> [status |-> 302, body |-> "login"]
    [] world.broken = None /\ req.session = "revoked" /\ ~ req.flaky
                                          -> [status |-> 302, body |-> "same"]
    [] world.broken = None /\ Unanswered /\ world.ns = "public"
                                          -> [status |-> 404, body |-> "ns"]
    [] world.broken = None /\ Unanswered /\ world.ns # "public"
                                          -> [status |-> 404, body |-> "error"]

Missing == req.path = "/missing/x"

Stage ==
  /\ pc # "artifact"
  /\ pc \in Handlers \ {"receive", "route"} => known /\ world.broken # "other"
  /\ pc \in Handlers \ {"receive", "route", "acme", "authenticate"} => req.session # "undecodable"
  /\ pc \in Handlers \ {"receive", "route", "acme", "authenticate", "auxiliary", "lookup"}
       => world.broken = None
  /\ pc \in {"httpsOnly", "authorize"} => ~ Missing \/ world.ns # "absent"
  /\ pc = "token" => CASE after = "serve"      -> ~ Missing \/ world.ns = "private"
                       [] after = "authFailed" -> Missing /\ world.ns = "absent"
                       [] after = "notFound"   -> Missing /\ world.ns = "public"
  /\ pc \in {"serve", "notServed", "notFound"} => Missing /\ world.ns = "public"
  /\ pc \in {"authFailed", "authFailedPage", "namespaceNotFound", "notFound"} => Unanswered

Alike ==
  Twin => /\ Stage
          /\ answers # <<>> => answers[1] = Same
          /\ first # None => first = Same

\* first is kept only while the second of them is handled.
Second == first # None => req.kind = "page" /\ Missing

Inv == TypeOK /\ Room /\ Shown /\ CheckedBeforeServed /\ Alike /\ Second

-----------------------------------------------------------------------------
(* What a request resolves to                                              *)

\* The values of the fields the handlers ask about.
LEMMA Fields ==
  ASSUME TypeOK
  PROVE  /\ config.auth \in BOOLEAN /\ req.https \in BOOLEAN /\ req.flaky \in BOOLEAN
         /\ req.session \in {"none", "valid", "revoked", "undecodable"}
         /\ world.ns \in {"absent", "public", "private"} /\ world.secret \in {"absent", "private"}
         /\ world.broken \in {None, "ErrDiskDisabled", "other"}
         /\ None # "ErrDiskDisabled" /\ None # "other"
  <1>1. /\ req \in AnyRequest /\ config \in Config /\ world \in World
        /\ None # "ErrDiskDisabled" /\ None # "other"
    BY PipelineAssumption DEF TypeOK
  <1>2. config.auth \in BOOLEAN
    BY <1>1, PipelineAssumption
  <1>3. /\ world.ns \in {"absent", "public", "private"} /\ world.secret \in {"absent", "private"}
        /\ world.broken \in {None, "ErrDiskDisabled", "other"}
    BY <1>1, PipelineAssumption
  <1>4. req.https \in BOOLEAN /\ req.flaky \in BOOLEAN /\ req.session \in {"none", "valid", "revoked", "undecodable"}
    BY <1>1 DEF AnyRequest
  <1> QED
    BY <1>1, <1>2, <1>3, <1>4

\* Resolve returns a project or one of the errors.
LEMMA Resolved ==
  ASSUME TypeOK, NEW path
  PROVE  /\ Resolve(path) \in Project \cup Errors
         /\ Failed(Resolve(path)) <=> Resolve(path) \in Errors
         /\ IsAccessControlEnabled(Resolve(path)) \in BOOLEAN
  <1>1. Resolve(path) \in Project \cup Errors
    BY Fields DEF Resolve, Project, Errors
  <1>2. Failed(Resolve(path)) <=> Resolve(path) \in Errors
    BY <1>1 DEF Failed, Project, Errors
  <1>3. IsAccessControlEnabled(Resolve(path)) \in BOOLEAN
    BY DEF IsAccessControlEnabled
  <1> QED
    BY <1>1, <1>2, <1>3

\* What the two requests of MissingLikeForbidden resolve to.
LEMMA TwinResolved ==
  ASSUME TypeOK, Twin, known, world.broken = None
  PROVE  /\ ~ Missing => Resolve(req.path) = "secret"
         /\ Missing /\ world.ns = "absent" => Resolve(req.path) = "ErrDomainDoesNotExist"
         /\ Missing /\ world.ns # "absent" => Resolve(req.path) = "ns"
         /\ Resolve("/") = IF world.ns = "absent" THEN "ErrDomainDoesNotExist" ELSE "ns"
  BY Fields DEF Resolve, Twin, Missing

\* Their answer, case by case.
LEMMA SameIs ==
  ASSUME TypeOK
  PROVE  /\ world.broken = "other" => Same = [status |-> 502, body |-> "error"]
         /\ world.broken # "other" /\ req.session = "undecodable"
              => Same = [status |-> 302, body |-> "same"]
         /\ world.broken = "ErrDiskDisabled" /\ req.session # "undecodable"
              => Same = [status |-> 500, body |-> "error"]
         /\ world.broken = None =>
              /\ req.session = "none" => Same = [status |-> 302, body |-> "login"]
              /\ req.session = "revoked" /\ ~ req.flaky => Same = [status |-> 302, body |-> "same"]
              /\ Unanswered /\ world.ns = "public" => Same = [status |-> 404, body |-> "ns"]
              /\ Unanswered /\ world.ns # "public" => Same = [status |-> 404, body |-> "error"]
  BY Fields DEF Same, Unanswered

-----------------------------------------------------------------------------
(* Steps of the pipeline                                                   *)

\* The answer is written and the pipeline ends.
Ends(a) ==
  /\ answers' = Append(answers, a) /\ pc' = "done"
  /\ UNCHANGED <<req, config, world, known, after, lookup, checked, changes, first>>

\* A handler answers.
LEMMA DoneStep ==
  ASSUME Inv, pc \in Handlers, NEW a \in Answer, Ends(a),
         changes = 0 /\ a.body \in {"ns", "secret"} /\ IsAccessControlEnabled(a.body)
           => a.body \in checked,
         Twin => a = Same
  PROVE  Inv'
  <1>1. /\ answers' = Append(answers, a) /\ pc' = "done"
        /\ UNCHANGED <<req, config, world, known, after, lookup, checked, changes, first>>
    BY DEF Ends
  <1>2. /\ answers \in Seq(Answer)
        /\ answers = <<>> \/ (Len(answers) = 1 /\ ByAcme(answers[1]))
    BY DEF Inv, Room
  <1>4. TypeOK'
    BY <1>1 DEF Inv, TypeOK
  <1>5. Challenge' = Challenge /\ "done" \notin Handlers
    BY <1>1 DEF Challenge, Handlers
  <1>6. /\ answers' \in Seq(Answer) /\ Len(answers') = Len(answers) + 1 /\ answers'[Len(answers')] = a
        /\ \A i \in DOMAIN answers : answers'[i] = answers[i]
        /\ DOMAIN answers' = DOMAIN answers \cup {Len(answers')}
    BY <1>1, <1>2, SMTT(20)
  <1>7. Room'
    <2>1. Len(answers) = 1 => answers'[1] = answers[1]
      BY <1>2, <1>6
    <2>2. AnsweredOnce'
      BY <1>2, <1>5, <1>6, <2>1 DEF AnsweredOnce, ByAcme
    <2> QED
      BY <1>1, <1>5, <1>6, <2>2 DEF Room
  <1>8. Shown'
    BY <1>1 DEF Shown
  <1>9. CheckedBeforeServed'
    <2>1. SUFFICES ASSUME changes = 0, NEW i \in DOMAIN answers',
                          answers'[i].body \in {"ns", "secret"},
                          IsAccessControlEnabled(answers'[i].body)
                   PROVE  \/ answers'[i].body \in checked
                          \/ Challenge /\ i = 1 /\ HasFile(answers'[i].body, req.path)
      BY <1>1, <1>5 DEF CheckedBeforeServed, IsAccessControlEnabled, HasFile
    <2>2. CASE i \in DOMAIN answers
      BY <1>6, <2>1, <2>2 DEF Inv, CheckedBeforeServed
    <2>3. CASE i = Len(answers')
      BY <1>6, <2>1, <2>3
    <2> QED
      BY <1>6, <2>2, <2>3
  <1>10. Alike'
    <2>1. Twin' => Twin /\ ~ Challenge
      BY <1>1 DEF Twin, Challenge
    <2>2. Twin' => answers'[1] = a
      BY <1>2, <1>6, <2>1 DEF ByAcme
    <2>3. Same' = Same
      BY <1>1 DEF Same, Unanswered
    <2>4. Stage'
      BY <1>1 DEF Stage, Handlers
    <2> QED
      BY <1>1, <2>1, <2>2, <2>3, <2>4 DEF Alike, Inv
  <1>11. Second'
    BY <1>1 DEF Inv, Second, Missing
  <1> QED
    BY <1>4, <1>7, <1>8, <1>9, <1>10, <1>11 DEF Inv

\* The answer shows nothing of a project.
LEMMA PlainStep ==
  ASSUME Inv, pc \in Handlers, NEW a \in [status : Nat, body : Plain], Ends(a), Twin => a = Same
  PROVE  Inv'
  <1>1. a \in Answer /\ a.body \notin {"ns", "secret"}
    BY ZenonT(30) DEF Answer, Plain
  <1> QED
    BY <1>1, DoneStep

\* A handler hands the request on and writes nothing.
LEMMA MoveStep ==
  ASSUME Inv, pc \in Handlers, pc' \in Handlers,
         UNCHANGED <<req, config, world, answers, changes, first>>,
         checked \subseteq checked', known' \in BOOLEAN,
         after' \in {None, "serve", "notFound", "authFailed"},
         pc' = "token" => after' \in {"serve", "notFound", "authFailed"},
         lookup' \in BOOLEAN \cup {None}, pc' = "authFailedPage" => lookup' # None,
         pc' \in {"receive", "route", "acme"} => answers = <<>>,
         Shown', Twin => Stage'
  PROVE  Inv'
  <1>1. TypeOK'
    BY DEF Inv, TypeOK
  <1>2. Challenge' = Challenge /\ Twin' = Twin /\ Same' = Same
    BY DEF Challenge, Twin, Same, Unanswered
  <1>3. Room'
    BY <1>2 DEF Inv, Room, AnsweredOnce, ByAcme
  <1>4. CheckedBeforeServed'
    BY <1>2 DEF Inv, CheckedBeforeServed, IsAccessControlEnabled, HasFile
  <1>5. Alike' /\ Second'
    BY <1>2 DEF Inv, Alike, Second, Missing
  <1> QED
    BY <1>1, <1>3, <1>4, <1>5 DEF Inv

\* The next handler is called.
LEMMA GoStep ==
  ASSUME Inv, pc \in Handlers, NEW next \in Handlers \ {"receive", "acme", "token", "authFailedPage"},
         Go(next), next = "route" => pc = "receive",
         changes = 0 /\ next \in {"serve", "notServed", "notFound"}
           /\ IsAccessControlEnabled(Resolve(req.path)) => Resolve(req.path) \in checked,
         Twin => Stage'
  PROVE  Inv'
  <1>1. /\ pc' = next
        /\ UNCHANGED <<req, config, world, known, after, lookup, answers, checked, changes, first>>
    BY DEF Go
  <1>2. Resolve(req.path)' = Resolve(req.path) /\ \A p : IsAccessControlEnabled(p)' = IsAccessControlEnabled(p)
    BY <1>1 DEF Resolve, IsAccessControlEnabled
  <1>3. Shown'
    BY <1>1, <1>2 DEF Shown
  <1>4. /\ after \in {None, "serve", "notFound", "authFailed"} /\ known \in BOOLEAN
        /\ lookup \in BOOLEAN \cup {None} /\ (pc = "receive" => answers = <<>>)
    BY DEF Inv, TypeOK, Room
  <1>5. /\ pc' \in Handlers /\ pc' # "token" /\ pc' # "authFailedPage"
        /\ pc' \in {"receive", "route", "acme"} => answers = <<>>
    BY <1>1, <1>4
  <1> QED
    BY <1>1, <1>3, <1>4, <1>5, MoveStep

\* The token is to be checked.
LEMMA CheckTokenStep ==
  ASSUME Inv, pc \in Handlers, NEW next \in {"serve", "notFound", "authFailed"}, CheckToken(next),
         Twin => Stage'
  PROVE  Inv'
  <1>1. /\ pc' = "token" /\ after' = next
        /\ UNCHANGED <<req, config, world, known, lookup, answers, checked, changes, first>>
    BY DEF CheckToken
  <1>2. Shown'
    BY <1>1 DEF Shown
  <1>3. known \in BOOLEAN /\ lookup \in BOOLEAN \cup {None} /\ "token" \in Handlers
    BY DEF Inv, TypeOK, Handlers
  <1> QED
    BY <1>1, <1>2, <1>3, MoveStep

-----------------------------------------------------------------------------
(* The handlers                                                            *)

\* The middlewares in front of the domain.
LEMMA ReceiveStep ==
  ASSUME Inv, Receive
  PROVE  Inv'
  <1>1. pc = "receive" /\ pc \in Handlers
    BY DEF Receive, Handlers
  <1>2. CASE rejectMethods \/ limitURI \/ healthCheck \/ (req.kind = "limited" /\ Done(429, "error"))
    <2>1. \E a \in {[status |-> 405, body |-> "error"], [status |-> 414, body |-> "error"],
                    [status |-> 200, body |-> "success"], [status |-> 429, body |-> "error"]} : Ends(a)
      BY <1>2 DEF rejectMethods, limitURI, healthCheck, Done, Written, Ends
    <2>2. {[status |-> 405, body |-> "error"], [status |-> 414, body |-> "error"],
           [status |-> 200, body |-> "success"], [status |-> 429, body |-> "error"]}
            \subseteq [status : Nat, body : Plain]
      BY DEF Plain
    <2>3. ~ Twin
      BY <1>2 DEF rejectMethods, limitURI, healthCheck, Twin
    <2> QED
      BY <1>1, <2>1, <2>2, <2>3, PlainStep
  <1>3. CASE Go("route")
    <2>1. Stage'
      BY <1>3 DEF Go, Stage
    <2> QED
      BY <1>1, <1>3, <2>1, GoStep DEF Handlers
  <1> QED
    BY <1>2, <1>3 DEF Receive

\* routing.
LEMMA RouteStep ==
  ASSUME Inv, Route
  PROVE  Inv'
  <1>1. pc = "route" /\ pc \in Handlers /\ TypeOK /\ Room
    BY DEF Route, Handlers, Inv
  <1>2. CASE world.broken = "other" /\ Done(502, "error")
    <2>1. Twin => [status |-> 502, body |-> "error"] = Same
      BY <1>1, <1>2, SameIs
    <2>2. Ends([status |-> 502, body |-> "error"])
      BY <1>2 DEF Done, Written, Ends
    <2>3. [status |-> 502, body |-> "error"] \in [status : Nat, body : Plain]
      BY DEF Plain
    <2> QED
      BY <1>1, <2>1, <2>2, <2>3, PlainStep
  <1>3. CASE /\ world.broken # "other" /\ pc' = "acme"
             /\ known' = (world.ns # "absent" \/ world.secret # "absent")
             /\ UNCHANGED <<req, config, world, after, lookup, answers, checked, changes, first>>
    <2>1. Shown' /\ known' \in BOOLEAN
      BY <1>3 DEF Shown
    <2>2. Twin => Stage'
      BY <1>3, ZenonT(30) DEF Stage, Twin
    <2>3. /\ after \in {None, "serve", "notFound", "authFailed"} /\ lookup \in BOOLEAN \cup {None}
          /\ answers = <<>> /\ pc' \in Handlers
      BY <1>1, <1>3 DEF TypeOK, Room, Handlers
    <2> QED
      BY <1>1, <1>3, <2>1, <2>2, <2>3, MoveStep
  <1> QED
    BY <1>2, <1>3 DEF Route

\* The acme handler goes on after it has served a challenge.
LEMMA AcmeStep ==
  ASSUME Inv, Acme
  PROVE  Inv'
  <1> DEFINE p == Resolve(req.path)
  <1>1. pc = "acme" /\ pc \in Handlers /\ TypeOK /\ answers = <<>>
    BY DEF Acme, Handlers, Inv, Room
  <1>2. CASE Go("authenticate")
    <2>1. Twin => Stage'
      BY <1>1, <1>2 DEF Go, Inv, Alike, Stage, Handlers
    <2> QED
      BY <1>1, <1>2, <2>1, GoStep DEF Handlers
  <1>3. CASE Challenge /\ Done(307, "gitlab")
    <2>1. ~ Twin
      BY <1>3 DEF Challenge, Twin
    <2>2. Ends([status |-> 307, body |-> "gitlab"])
      BY <1>3 DEF Done, Written, Ends
    <2>3. [status |-> 307, body |-> "gitlab"] \in [status : Nat, body : Plain]
      BY DEF Plain
    <2> QED
      BY <1>1, <2>1, <2>2, <2>3, PlainStep
  <1>4. CASE Challenge /\ (Failed(p) \/ HasFile(p, req.path)) /\ AcmeGoesOn(p)
    <2> DEFINE s == IF p = "ErrDomainDoesNotExist" THEN 404 ELSE IF Failed(p) THEN 503 ELSE 200
               a == [status |-> s, body |-> p]
    <2>1. /\ answers' = Append(answers, a) /\ pc' = "authenticate"
          /\ UNCHANGED <<req, config, world, known, after, lookup, checked, changes, first>>
      BY <1>4 DEF AcmeGoesOn, Written
    <2>2. a \in Answer /\ a.body = p /\ p \in Project \cup Errors
      BY <1>1, Resolved DEF Answer
    <2> HIDE DEF a, s
    <2>3. answers' \in Seq(Answer) /\ Len(answers') = 1 /\ DOMAIN answers' = {1} /\ answers'[1] = a
      BY <1>1, <2>1, <2>2
    <2>4. Challenge' /\ ~ Twin'
      BY <1>4, <2>1 DEF Challenge, Twin
    <2>5. TypeOK'
      BY <1>1, <2>1 DEF TypeOK
    <2>6. Room'
      <3>1. ByAcme(answers[1])'
        BY <2>2, <2>3, <2>4 DEF ByAcme, Project, Errors
      <3> QED
        BY <2>1, <2>3, <3>1 DEF Room, Handlers, AnsweredOnce
    <2>7. CheckedBeforeServed'
      <3>1. p \in {"ns", "secret"} => HasFile(p, req.path)
        BY <1>4 DEF Failed
      <3>2. HasFile(p, req.path)' = HasFile(p, req.path)
        BY <2>1 DEF HasFile, Resolve
      <3> QED
        BY <2>1, <2>2, <2>3, <2>4, <3>1, <3>2 DEF CheckedBeforeServed, HasFile
    <2>8. Shown' /\ Alike' /\ Second'
      BY <2>1, <2>4 DEF Shown, Alike, Inv, Second, Missing
    <2> QED
      BY <2>5, <2>6, <2>7, <2>8 DEF Inv
  <1> QED
    BY <1>2, <1>3, <1>4 DEF Acme, Challenge, Failed

\* TryAuthenticate.
LEMMA AuthenticateStep ==
  ASSUME Inv, Authenticate
  PROVE  Inv'
  <1>1. pc = "authenticate" /\ pc \in Handlers /\ TypeOK /\ (Twin => Stage)
    BY DEF Authenticate, Handlers, Inv, Alike
  <1>2. CASE config.auth /\ req.session = "undecodable" /\ Done(302, "same")
    <2>1. Twin => [status |-> 302, body |-> "same"] = Same
      BY <1>1, <1>2, SameIs DEF Stage
    <2>2. Ends([status |-> 302, body |-> "same"])
      BY <1>2 DEF Done, Written, Ends
    <2>3. [status |-> 302, body |-> "same"] \in [status : Nat, body : Plain]
      BY DEF Plain
    <2> QED
      BY <1>1, <2>1, <2>2, <2>3, PlainStep
  <1>3. CASE req.kind = "callback" /\ Done(302, "login")
    <2>1. ~ Twin
      BY <1>3 DEF Twin
    <2>2. Ends([status |-> 302, body |-> "login"])
      BY <1>3 DEF Done, Written, Ends
    <2>3. [status |-> 302, body |-> "login"] \in [status : Nat, body : Plain]
      BY DEF Plain
    <2> QED
      BY <1>1, <2>1, <2>2, <2>3, PlainStep
  <1>4. CASE (~ config.auth \/ req.session # "undecodable") /\ Go("auxiliary")
    <2>1. Twin => Stage'
      BY <1>1, <1>4 DEF Go, Stage, Handlers, Twin
    <2> QED
      BY <1>1, <1>4, <2>1, GoStep DEF Handlers
  <1> QED
    BY <1>2, <1>3, <1>4 DEF Authenticate

\* tryAuxiliaryHandlers.
LEMMA AuxiliaryStep ==
  ASSUME Inv, Auxiliary
  PROVE  Inv'
  <1>1. pc = "auxiliary" /\ pc \in Handlers /\ TypeOK /\ (Twin => Stage)
    BY DEF Auxiliary, Handlers, Inv, Alike
  <1>2. CASE ~ req.https /\ Done(307, "https")
    <2>1. ~ Twin
      BY <1>2 DEF Twin
    <2>2. Ends([status |-> 307, body |-> "https"])
      BY <1>2 DEF Done, Written, Ends
    <2>3. [status |-> 307, body |-> "https"] \in [status : Nat, body : Plain]
      BY DEF Plain
    <2> QED
      BY <1>1, <2>1, <2>2, <2>3, PlainStep
  <1>3. CASE req.kind = "artifact" /\ Go("artifact")
    BY <1>1, <1>3, GoStep DEF Twin, Handlers
  <1>4. CASE Go("lookup")
    <2>1. Twin => Stage'
      BY <1>1, <1>4 DEF Go, Stage, Handlers
    <2> QED
      BY <1>1, <1>4, <2>1, GoStep DEF Handlers
  <1> QED
    BY <1>2, <1>3, <1>4 DEF Auxiliary

\* The artifact proxy answers, whatever the artifact server does.
LEMMA ArtifactStep ==
  ASSUME Inv, Artifact
  PROVE  Inv'
  <1>1. pc = "artifact" /\ pc \in Handlers /\ ~ Twin
    BY DEF Artifact, Handlers, Inv, Alike, Stage
  <1>2. PICK a \in [status : Nat, body : Plain] : Ends(a)
    <2>1. Done(502, "error") => Ends([status |-> 502, body |-> "error"])
      BY DEF Done, Written, Ends
    <2>2. (\E s \in {401, 403, 404} : checkIfLoginRequiredOrInvalidToken(s))
            => Ends([status |-> 302, body |-> "login"]) \/ Ends([status |-> 302, body |-> "same"])
      BY DEF checkIfLoginRequiredOrInvalidToken, Done, Written, Ends
    <2>3. (\E s \in {200, 401, 403, 404, 500} : Done(s, ArtifactBody(s)))
            => \E s \in {200, 401, 403, 404, 500} : Ends([status |-> s, body |-> ArtifactBody(s)])
      BY DEF Done, Written, Ends
    <2>4. \/ Done(502, "error")
          \/ \E s \in {401, 403, 404} : checkIfLoginRequiredOrInvalidToken(s)
          \/ \E s \in {200, 401, 403, 404, 500} : Done(s, ArtifactBody(s))
      BY DEF Artifact, Done, Written
    <2>5. {[status |-> 502, body |-> "error"], [status |-> 302, body |-> "login"],
           [status |-> 302, body |-> "same"]} \subseteq [status : Nat, body : Plain]
      BY DEF Plain
    <2>6. \A s : ArtifactBody(s) \in Plain
      BY DEF Plain, ArtifactBody
    <2>7. \A s \in {200, 401, 403, 404, 500} : [status |-> s, body |-> ArtifactBody(s)] \in [status : Nat, body : Plain]
      BY <2>6
    <2>8. \/ Ends([status |-> 502, body |-> "error"])
          \/ Ends([status |-> 302, body |-> "login"]) \/ Ends([status |-> 302, body |-> "same"])
          \/ \E s \in {200, 401, 403, 404, 500} : Ends([status |-> s, body |-> ArtifactBody(s)])
      BY <2>1, <2>2, <2>3, <2>4, ZenonT(30)
    <2> QED
      BY <2>5, <2>7, <2>8
  <1> QED
    BY <1>1, <1>2, PlainStep

\* After GetLookupPath, GitLab's answer about the two requests is known to be good.
LEMMA TwinAfterLookup ==
  ASSUME Inv, Twin, pc \in Handlers \ {"receive", "route", "acme", "authenticate", "auxiliary", "lookup"}
  PROVE  /\ Stage /\ world.broken = None /\ known /\ req.session # "undecodable"
         /\ ~ Missing => Resolve(req.path) = "secret"
         /\ Missing /\ world.ns = "absent" => Resolve(req.path) = "ErrDomainDoesNotExist"
         /\ Missing /\ world.ns # "absent" => Resolve(req.path) = "ns"
         /\ Resolve("/") = IF world.ns = "absent" THEN "ErrDomainDoesNotExist" ELSE "ns"
  <1>1. TypeOK /\ Stage
    BY DEF Inv, Alike
  <1>2. world.broken = None /\ known /\ req.session # "undecodable"
    BY <1>1 DEF Stage
  <1> QED
    BY <1>1, <1>2, TwinResolved

\* The domain's error page.
LEMMA ErrorStep ==
  ASSUME Inv, pc \in Handlers, NEW p, ServeError(p),
         Twin => p = "ErrDomainDoesNotExist" /\ Same = [status |-> 404, body |-> "error"]
  PROVE  Inv'
  <1> DEFINE a == [status |-> IF p = "ErrDomainDoesNotExist" THEN 404 ELSE 503, body |-> "error"]
  <1>1. Ends(a)
    BY DEF ServeError, Done, Written, Ends
  <1>2. a \in [status : Nat, body : Plain] /\ (Twin => a = Same)
    BY DEF Plain
  <1> HIDE DEF a
  <1> QED
    BY <1>1, <1>2, PlainStep

\* A page of a project is sent to those it may be shown to.
LEMMA PageStep ==
  ASSUME Inv, pc \in Handlers, NEW s \in Nat, NEW p \in Project, Done(s, p),
         changes = 0 /\ IsAccessControlEnabled(p) => p \in checked,
         Twin => Same = [status |-> s, body |-> p]
  PROVE  Inv'
  <1> DEFINE a == [status |-> s, body |-> p]
  <1>1. Ends(a)
    BY DEF Done, Written, Ends
  <1>2. a \in Answer /\ a.body = p /\ (Twin => a = Same)
    BY DEF Answer
  <1> HIDE DEF a
  <1> QED
    BY <1>1, <1>2, DoneStep

\* GetLookupPath.
LEMMA LookupStep ==
  ASSUME Inv, Lookup
  PROVE  Inv'
  <1> DEFINE p == Resolve(req.path)
  <1>1. pc = "lookup" /\ pc \in Handlers /\ TypeOK /\ (Twin => Stage)
    BY DEF Lookup, Handlers, Inv, Alike
  <1>2. Twin => /\ known /\ world.broken # "other" /\ req.session # "undecodable"
                /\ world.broken = "ErrDiskDisabled" => p = "ErrDiskDisabled"
                /\ world.broken # None => world.broken = "ErrDiskDisabled"
    BY <1>1, Fields DEF Stage, Handlers, Resolve
  <1>3. Twin /\ p # "ErrDiskDisabled" =>
           /\ world.broken = None
           /\ ~ Missing => p = "secret"
           /\ Missing /\ world.ns = "absent" => p = "ErrDomainDoesNotExist"
           /\ Missing /\ world.ns # "absent" => p = "ns"
    BY <1>1, <1>2, TwinResolved
  <1>4. p \in Project \cup Errors /\ (Failed(p) <=> p \in Errors)
    BY <1>1, Resolved
  <1>5. CASE p = "ErrDiskDisabled" /\ Done(500, "error")
    <2>1. Twin => world.broken = "ErrDiskDisabled"
      BY <1>1, <1>2, <1>5, TwinResolved, Fields
    <2>2. Twin => [status |-> 500, body |-> "error"] = Same
      BY <1>1, <1>2, <2>1, SameIs
    <2>3. Ends([status |-> 500, body |-> "error"])
      BY <1>5 DEF Done, Written, Ends
    <2>4. [status |-> 500, body |-> "error"] \in [status : Nat, body : Plain]
      BY DEF Plain
    <2> QED
      BY <1>1, <2>2, <2>3, <2>4, PlainStep
  <1>6. CASE p # "ErrDiskDisabled" /\ ~ Failed(p) /\ Go("httpsOnly")
    <2>1. Twin => Stage'
      BY <1>2, <1>3, <1>4, <1>6 DEF Go, Stage, Handlers, Errors, Missing
    <2> QED
      BY <1>1, <1>6, <2>1, GoStep DEF Handlers
  <1>7. CASE p # "ErrDiskDisabled" /\ Failed(p) /\ CheckToken("authFailed")
    <2>1. Twin => Missing /\ world.ns = "absent"
      BY <1>3, <1>4, <1>7 DEF Errors
    <2>2. Twin => Stage'
      BY <1>2, <1>3, <1>7, <2>1 DEF CheckToken, Stage, Handlers, Missing
    <2> QED
      BY <1>1, <1>7, <2>2, CheckTokenStep
  <1>8. CASE ~ config.auth /\ Go("authFailed")
    <2>1. ~ Twin
      BY <1>8 DEF Twin
    <2> QED
      BY <1>1, <1>8, <2>1, GoStep DEF Handlers
  <1> QED
    BY <1>5, <1>6, <1>7, <1>8 DEF Lookup

\* The redirect to HTTPS of a project.
LEMMA HTTPSOnlyStep ==
  ASSUME Inv, HTTPSOnly
  PROVE  Inv'
  <1>1. pc = "httpsOnly" /\ pc \in Handlers
    BY DEF HTTPSOnly, Handlers
  <1>2. CASE ~ req.https /\ Done(301, "https")
    <2>1. ~ Twin
      BY <1>2 DEF Twin
    <2>2. Ends([status |-> 301, body |-> "https"])
      BY <1>2 DEF Done, Written, Ends
    <2>3. [status |-> 301, body |-> "https"] \in [status : Nat, body : Plain]
      BY DEF Plain
    <2> QED
      BY <1>1, <2>1, <2>2, <2>3, PlainStep
  <1>3. CASE Go("authorize")
    <2>1. Twin => Stage'
      BY <1>1, <1>3 DEF Go, Inv, Alike, Stage, Handlers, Missing
    <2> QED
      BY <1>1, <1>3, <2>1, GoStep DEF Handlers
  <1> QED
    BY <1>2, <1>3 DEF HTTPSOnly

\* AuthorizationMiddleware: without a check only to a project without access control.
LEMMA AuthorizeStep ==
  ASSUME Inv, Authorize
  PROVE  Inv'
  <1> DEFINE p == Resolve(req.path)
  <1>1. pc = "authorize" /\ pc \in Handlers /\ TypeOK
    BY DEF Authorize, Handlers, Inv
  <1>2. Twin => /\ world.broken = None /\ None # "other" /\ known /\ req.session # "undecodable"
                /\ (~ Missing => p = "secret") /\ (Missing => world.ns # "absent" /\ p = "ns")
    BY <1>1, TwinAfterLookup, Fields DEF Stage, Handlers
  <1>3. CASE ~ IsAccessControlEnabled(p) /\ Go("serve")
    <2>1. Twin => Missing /\ world.ns = "public"
      BY <1>1, <1>2, <1>3, Fields DEF IsAccessControlEnabled
    <2>2. Twin => Stage'
      BY <1>2, <1>3, <2>1 DEF Go, Stage, Handlers, Missing
    <2> QED
      BY <1>1, <1>3, <2>2, GoStep DEF Handlers
  <1>4. CASE IsAccessControlEnabled(p) /\ CheckToken("serve")
    <2>1. Twin => ~ Missing \/ world.ns = "private"
      BY <1>2, <1>4 DEF IsAccessControlEnabled
    <2>2. Twin => Stage'
      BY <1>2, <1>4, <2>1 DEF CheckToken, Stage, Handlers, Missing
    <2> QED
      BY <1>1, <1>4, <2>2, CheckTokenStep
  <1>5. CASE ~ config.auth /\ Done(500, "error")
    <2>1. ~ Twin
      BY <1>5 DEF Twin
    <2>2. Ends([status |-> 500, body |-> "error"])
      BY <1>5 DEF Done, Written, Ends
    <2>3. [status |-> 500, body |-> "error"] \in [status : Nat, body : Plain]
      BY DEF Plain
    <2> QED
      BY <1>1, <2>1, <2>2, <2>3, PlainStep
  <1> QED
    BY <1>3, <1>4, <1>5 DEF Authorize

\* checkAuthentication: who comes out at "after" was found to have access.
LEMMA TokenStep ==
  ASSUME Inv, Token
  PROVE  Inv'
  <1> DEFINE p == Resolve(req.path)
  <1>1. /\ pc = "token" /\ pc \in Handlers /\ TypeOK
        /\ after \in {"serve", "notFound", "authFailed"}
    BY DEF Token, Handlers, Inv, Room
  <1>2. Twin => /\ world.broken = None /\ None # "other" /\ known /\ req.session # "undecodable"
                /\ (~ Missing => p = "secret") /\ (Missing /\ world.ns # "absent" => p = "ns")
    BY <1>1, TwinAfterLookup, Fields DEF Handlers
  <1>3. Twin => /\ after = "serve" => ~ Missing \/ world.ns = "private"
                /\ after = "notFound" => Missing /\ world.ns = "public"
    BY <1>1, ZenonT(30) DEF Inv, Alike, Stage
  <1>4. CASE req.session = "none" /\ Done(302, "login")
    <2>1. Twin => [status |-> 302, body |-> "login"] = Same
      BY <1>1, <1>2, <1>4, SameIs
    <2>2. Ends([status |-> 302, body |-> "login"])
      BY <1>4 DEF Done, Written, Ends
    <2>3. [status |-> 302, body |-> "login"] \in [status : Nat, body : Plain]
      BY DEF Plain
    <2> QED
      BY <1>1, <2>1, <2>2, <2>3, PlainStep
  <1>5. CASE req.session = "revoked" /\ ~ req.flaky /\ Done(302, "same")
    <2>1. Twin => [status |-> 302, body |-> "same"] = Same
      BY <1>1, <1>2, <1>5, SameIs
    <2>2. Ends([status |-> 302, body |-> "same"])
      BY <1>5 DEF Done, Written, Ends
    <2>3. [status |-> 302, body |-> "same"] \in [status : Nat, body : Plain]
      BY DEF Plain
    <2> QED
      BY <1>1, <2>1, <2>2, <2>3, PlainStep
  <1>6. CASE /\ req.session = "valid" /\ MayAccess(p)
             /\ pc' = after /\ after' = None /\ checked' = checked \cup {p}
             /\ UNCHANGED <<req, config, world, known, lookup, answers, changes, first>>
    <2>1. Resolve(req.path)' = p /\ pc' \in Handlers /\ pc' \notin {"token", "authFailedPage", "receive", "route", "acme"}
      BY <1>1, <1>6 DEF Resolve, Handlers
    <2>2. Shown'
      BY <1>6, <2>1 DEF Shown
    <2>3. Twin => after # "serve"
      BY <1>2, <1>3, <1>6 DEF MayAccess, IsAccessControlEnabled, Twin
    <2>4. Twin => Stage'
      BY <1>1, <1>2, <1>3, <1>6, <2>3, ZenonT(30) DEF Stage, Handlers, Missing, Unanswered
    <2>5. known \in BOOLEAN /\ lookup \in BOOLEAN \cup {None}
      BY <1>1 DEF TypeOK
    <2> QED
      BY <1>1, <1>6, <2>1, <2>2, <2>4, <2>5, MoveStep
  <1>7. CASE Unanswered /\ Go("authFailed")
    <2>1. Twin => Stage'
      BY <1>2, <1>7 DEF Go, Stage, Handlers, Unanswered
    <2> QED
      BY <1>1, <1>7, <2>1, GoStep DEF Handlers
  <1> QED
    BY <1>4, <1>5, <1>6, <1>7 DEF Token, Unanswered

\* Where the two requests are served from.
LEMMA TwinServed ==
  ASSUME Inv, Twin, pc \in {"serve", "notServed", "notFound"}
  PROVE  /\ Missing /\ world.ns = "public" /\ Resolve(req.path) = "ns" /\ req.path = "/missing/x"
         /\ world.broken = None /\ None # "other" /\ known /\ req.session # "undecodable"
  <1>1. pc \in Handlers \ {"receive", "route", "acme", "authenticate", "auxiliary", "lookup"} /\ TypeOK
    BY DEF Handlers, Inv
  <1>2. Stage
    BY <1>1, TwinAfterLookup
  <1>3. Missing /\ world.ns = "public"
    BY <1>2 DEF Stage
  <1> QED
    BY <1>1, <1>3, TwinAfterLookup, Fields DEF Missing

\* Domain.ServeFileHTTP.
LEMMA ServeStep ==
  ASSUME Inv, Serve
  PROVE  Inv'
  <1> DEFINE p == Resolve(req.path)
  <1>1. /\ pc = "serve" /\ pc \in Handlers /\ TypeOK
        /\ changes = 0 /\ IsAccessControlEnabled(p) => p \in checked
    BY DEF Serve, Handlers, Inv, Shown
  <1>2. p \in Project \cup Errors /\ (Failed(p) <=> p \in Errors)
    BY <1>1, Resolved
  <1>3. CASE req.kind = "preflight" /\ Done(204, "cors")
    <2>1. ~ Twin
      BY <1>3 DEF Twin
    <2>2. Ends([status |-> 204, body |-> "cors"])
      BY <1>3 DEF Done, Written, Ends
    <2>3. [status |-> 204, body |-> "cors"] \in [status : Nat, body : Plain]
      BY DEF Plain
    <2> QED
      BY <1>1, <2>1, <2>2, <2>3, PlainStep
  <1>4. CASE Failed(p) /\ ServeError(p)
    <2>1. ~ Twin
      BY <1>1, <1>4, TwinServed DEF Failed
    <2> QED
      BY <1>1, <1>4, <2>1, ErrorStep
  <1>5. CASE ~ Failed(p) /\ HasFile(p, req.path) /\ Done(200, p)
    <2>1. ~ Twin
      BY <1>1, <1>5, TwinServed DEF HasFile
    <2> QED
      BY <1>1, <1>2, <1>5, <2>1, PageStep
  <1>6. CASE Go("notServed")
    <2>1. Twin => Stage'
      BY <1>1, <1>6, TwinServed DEF Go, Stage, Handlers, Missing
    <2> QED
      BY <1>1, <1>6, <2>1, GoStep DEF Handlers
  <1> QED
    BY <1>3, <1>4, <1>5, <1>6 DEF Serve

\* A file of the namespace project that is missing needs a login too.
LEMMA NotServedStep ==
  ASSUME Inv, NotServed
  PROVE  Inv'
  <1> DEFINE p == Resolve(req.path)
  <1>1. /\ pc = "notServed" /\ pc \in Handlers
        /\ changes = 0 /\ IsAccessControlEnabled(p) => p \in checked
    BY DEF NotServed, Handlers, Inv, Shown
  <1>2. CASE CheckToken("notFound")
    <2>1. Twin => Stage'
      BY <1>1, <1>2, TwinServed DEF CheckToken, Stage, Handlers, Missing
    <2> QED
      BY <1>1, <1>2, <2>1, CheckTokenStep
  <1>3. CASE ~ (p = "ns" /\ config.auth) /\ Go("notFound")
    <2>1. ~ Twin
      BY <1>1, <1>3, TwinServed DEF Twin
    <2> QED
      BY <1>1, <1>3, <2>1, GoStep DEF Handlers
  <1> QED
    BY <1>2, <1>3 DEF NotServed, IsNamespaceProject

\* Domain.ServeNotFoundHTTP.
LEMMA NotFoundStep ==
  ASSUME Inv, NotFound
  PROVE  Inv'
  <1> DEFINE p == Resolve(req.path)
  <1>1. /\ pc = "notFound" /\ pc \in Handlers /\ TypeOK
        /\ changes = 0 /\ IsAccessControlEnabled(p) => p \in checked
    BY DEF NotFound, Handlers, Inv, Shown
  <1>2. p \in Project \cup Errors /\ (Failed(p) <=> p \in Errors)
    BY <1>1, Resolved
  <1>3. CASE Failed(p) /\ ServeError(p)
    <2>1. ~ Twin
      BY <1>1, <1>3, TwinServed DEF Failed
    <2> QED
      BY <1>1, <1>3, <2>1, ErrorStep
  <1>4. CASE ~ Failed(p) /\ Done(404, p)
    <2>1. Twin => Unanswered
      BY <1>1 DEF Inv, Alike, Stage
    <2>2. Twin => Same = [status |-> 404, body |-> p]
      BY <1>1, <2>1, TwinServed, SameIs
    <2> QED
      BY <1>1, <1>2, <1>4, <2>2, PageStep
  <1> QED
    BY <1>3, <1>4 DEF NotFound

\* ServeNotFoundAuthFailed, ...
LEMMA AuthFailedStep ==
  ASSUME Inv, AuthFailed
  PROVE  Inv'
  <1> DEFINE p == Resolve(req.path)
  <1>1. pc = "authFailed" /\ pc \in Handlers /\ TypeOK
    BY DEF AuthFailed, Handlers, Inv
  <1>2. Twin => /\ world.broken = None /\ None # "other" /\ known /\ Unanswered
                /\ (~ Missing => p = "secret") /\ (Missing /\ world.ns # "absent" => p = "ns")
    <2>1. Twin => Stage
      BY DEF Inv, Alike
    <2> QED
      BY <1>1, <2>1, TwinAfterLookup, Fields DEF Stage, Handlers
  <1>3. CASE Failed(p) /\ Done(404, "error")
    <2>1. Twin => world.ns = "absent"
      BY <1>2, <1>3 DEF Failed
    <2>2. Twin => [status |-> 404, body |-> "error"] = Same
      BY <1>1, <1>2, <2>1, SameIs
    <2>3. Ends([status |-> 404, body |-> "error"])
      BY <1>3 DEF Done, Written, Ends
    <2>4. [status |-> 404, body |-> "error"] \in [status : Nat, body : Plain]
      BY DEF Plain
    <2> QED
      BY <1>1, <2>2, <2>3, <2>4, PlainStep
  <1>4. CASE /\ pc' = "authFailedPage" /\ lookup' = IsAccessControlEnabled(p)
             /\ UNCHANGED <<req, config, world, known, after, answers, checked, changes, first>>
    <2>1. Resolve(req.path)' = p /\ IsAccessControlEnabled(p)' = IsAccessControlEnabled(p)
      BY <1>4 DEF Resolve, IsAccessControlEnabled
    <2>2. Shown'
      BY <1>4, <2>1 DEF Shown
    <2>3. Twin => Stage'
      BY <1>2, <1>4 DEF Stage, Handlers, Unanswered
    <2>4. lookup' \in BOOLEAN /\ lookup' # None
      BY <1>1, <1>4, Resolved, PipelineAssumption
    <2>5. /\ known \in BOOLEAN /\ after \in {None, "serve", "notFound", "authFailed"}
          /\ "authFailedPage" \in Handlers
      BY <1>1 DEF TypeOK, Handlers
    <2> QED
      BY <1>1, <1>4, <2>2, <2>3, <2>4, <2>5, MoveStep
  <1> QED
    BY <1>3, <1>4 DEF AuthFailed

\* ... which asks the domain again, ...
LEMMA AuthFailedPageStep ==
  ASSUME Inv, AuthFailedPage
  PROVE  Inv'
  <1> DEFINE p == Resolve(req.path)
  <1>1. /\ pc = "authFailedPage" /\ pc \in Handlers /\ TypeOK
        /\ changes = 0 => lookup = IsAccessControlEnabled(p)
    BY DEF AuthFailedPage, Handlers, Inv, Shown
  <1>2. Twin => /\ world.broken = None /\ None # "other" /\ known /\ Unanswered
                /\ (~ Missing => p = "secret")
                /\ (Missing /\ world.ns = "absent" => p = "ErrDomainDoesNotExist")
    <2>1. Twin => Stage
      BY DEF Inv, Alike
    <2> QED
      BY <1>1, <2>1, TwinAfterLookup, Fields DEF Stage, Handlers
  <1>3. CASE p = "ns" /\ ~ lookup /\ Go("notFound")
    <2>1. changes = 0 => ~ IsAccessControlEnabled(p)
      BY <1>1, <1>3
    <2>2. Twin => Missing /\ world.ns = "public"
      BY <1>1, <1>2, <1>3, <2>1, Fields DEF IsAccessControlEnabled, Twin
    <2>3. Twin => Stage'
      BY <1>2, <1>3, <2>2 DEF Go, Stage, Handlers, Missing, Unanswered
    <2> QED
      BY <1>1, <1>3, <2>1, <2>3, GoStep DEF Handlers
  <1>4. CASE Go("namespaceNotFound")
    <2>1. Twin => Stage'
      BY <1>2, <1>4 DEF Go, Stage, Handlers, Unanswered
    <2> QED
      BY <1>1, <1>4, <2>1, GoStep DEF Handlers
  <1> QED
    BY <1>3, <1>4 DEF AuthFailedPage, IsNamespaceProject

\* ... and the page of the namespace project, if everyone may see it.
LEMMA NamespaceNotFoundStep ==
  ASSUME Inv, NamespaceNotFound
  PROVE  Inv'
  <1> DEFINE p == Resolve("/")
  <1>1. pc = "namespaceNotFound" /\ pc \in Handlers /\ TypeOK
    BY DEF NamespaceNotFound, Handlers, Inv
  <1>2. Twin => /\ world.broken = None /\ Unanswered
                /\ p = IF world.ns = "absent" THEN "ErrDomainDoesNotExist" ELSE "ns"
    <2>1. Twin => Stage
      BY DEF Inv, Alike
    <2> QED
      BY <1>1, <2>1, TwinAfterLookup DEF Stage, Handlers
  <1>3. p \in Project \cup Errors /\ (Failed(p) <=> p \in Errors)
    BY <1>1, Resolved
  <1>4. CASE Failed(p) /\ ServeError(p)
    <2>1. Twin => p = "ErrDomainDoesNotExist" /\ world.ns # "public"
      BY <1>2, <1>4 DEF Failed
    <2>2. Twin => Same = [status |-> 404, body |-> "error"]
      BY <1>1, <1>2, <2>1, SameIs
    <2> QED
      BY <1>1, <1>4, <2>1, <2>2, ErrorStep
  <1>5. CASE IsAccessControlEnabled(p) /\ Done(404, "error")
    <2>1. Twin => world.ns # "public"
      BY <1>2, <1>5 DEF IsAccessControlEnabled
    <2>2. Twin => [status |-> 404, body |-> "error"] = Same
      BY <1>1, <1>2, <2>1, SameIs
    <2>3. Ends([status |-> 404, body |-> "error"])
      BY <1>5 DEF Done, Written, Ends
    <2>4. [status |-> 404, body |-> "error"] \in [status : Nat, body : Plain]
      BY DEF Plain
    <2> QED
      BY <1>1, <2>2, <2>3, <2>4, PlainStep
  <1>6. CASE ~ Failed(p) /\ ~ IsAccessControlEnabled(p) /\ Done(404, p)
    <2>1. Twin => world.ns = "public" /\ p = "ns"
      BY <1>1, <1>2, <1>6, Fields DEF IsAccessControlEnabled, Failed
    <2>2. Twin => Same = [status |-> 404, body |-> p]
      BY <1>1, <1>2, <2>1, SameIs
    <2> QED
      BY <1>1, <1>3, <1>6, <2>2, PageStep
  <1> QED
    BY <1>4, <1>5, <1>6 DEF NamespaceNotFound

-----------------------------------------------------------------------------
(* The other steps                                                         *)

\* After a change nothing is claimed but that one answer is written.
LEMMA ChangeStep ==
  ASSUME Inv, Change
  PROVE  Inv'
  <1>1. /\ world' \in World /\ changes' = changes + 1 /\ changes < MaxChanges /\ changes \in 0..MaxChanges
        /\ UNCHANGED <<req, config, known, pc, after, lookup, answers, checked, first>>
    BY DEF Change, Inv, TypeOK
  <1>2. changes' \in 0..MaxChanges /\ changes' # 0
    BY <1>1, PipelineAssumption
  <1>3. TypeOK'
    BY <1>1, <1>2 DEF Inv, TypeOK
  <1>4. Room'
    BY <1>1 DEF Inv, Room, AnsweredOnce, ByAcme, Challenge
  <1>5. Shown' /\ CheckedBeforeServed' /\ Alike' /\ Second'
    BY <1>1, <1>2 DEF Shown, CheckedBeforeServed, Alike, Twin, Inv, Second, Missing
  <1> QED
    BY <1>3, <1>4, <1>5 DEF Inv

\* The second request begins as the first did.
LEMMA AskForMissingStep ==
  ASSUME Inv, AskForMissing
  PROVE  Inv'
  <1>1. /\ req.path = "/secret/x" /\ req.kind = "page" /\ answers # <<>>
        /\ first' = answers[1] /\ req' = [req EXCEPT !.path = "/missing/x"]
        /\ pc' = "receive" /\ after' = None /\ lookup' = None /\ answers' = <<>>
        /\ checked' = {} /\ known' = FALSE
        /\ UNCHANGED <<config, world, changes>>
    BY DEF AskForMissing
  <1>2. /\ req' \in AnyRequest /\ req'.kind = req.kind /\ req'.https = req.https
        /\ req'.session = req.session /\ req'.flaky = req.flaky
    BY <1>1 DEF Inv, TypeOK, AnyRequest, Path
  <1>3. TypeOK'
    BY <1>1, <1>2, ZenonT(30) DEF Inv, TypeOK
  <1>4. Room'
    BY <1>1 DEF Room, Handlers, AnsweredOnce
  <1>5. Shown' /\ CheckedBeforeServed' /\ Second'
    BY <1>1, <1>2 DEF Shown, CheckedBeforeServed, Second, Missing, Inv, TypeOK, AnyRequest
  <1>6. Alike'
    <2>1. Twin' => Twin
      BY <1>1, <1>2 DEF Twin
    <2>2. Same' = Same
      BY <1>1, <1>2 DEF Same, Unanswered
    <2>3. Stage'
      BY <1>1 DEF Stage
    <2> QED
      BY <1>1, <2>1, <2>2, <2>3 DEF Inv, Alike
  <1> QED
    BY <1>3, <1>4, <1>5, <1>6 DEF Inv

\* A request comes in.
LEMMA InitInv == Init => Inv
  <1> SUFFICES ASSUME Init PROVE Inv
    OBVIOUS
  <1>1. TypeOK
    <2>1. req \in AnyRequest /\ 0 \in 0..MaxChanges
      BY PipelineAssumption DEF Init
    <2> QED
      BY <2>1, ZenonT(30) DEF Init, TypeOK
  <1>2. Room
    BY DEF Init, Room, Handlers, AnsweredOnce
  <1>3. Shown /\ CheckedBeforeServed
    BY DEF Init, Shown, CheckedBeforeServed
  <1>4. Alike /\ Second
    BY DEF Init, Alike, Stage, Second
  <1> QED
    BY <1>1, <1>2, <1>3, <1>4 DEF Inv

\* Every step keeps the invariant.
LEMMA NextInv == Inv /\ [Next]_vars => Inv'
  <1> SUFFICES ASSUME Inv, [Next]_vars PROVE Inv'
    OBVIOUS
  <1>1. CASE Handle
    BY <1>1, ReceiveStep, RouteStep, AcmeStep, AuthenticateStep, AuxiliaryStep, ArtifactStep,
       LookupStep, HTTPSOnlyStep, AuthorizeStep, TokenStep, ServeStep, NotServedStep, NotFoundStep,
       AuthFailedStep, AuthFailedPageStep, NamespaceNotFoundStep DEF Handle
  <1>2. CASE UNCHANGED vars
    <2>1. UNCHANGED <<req, config, world, known, pc, after, lookup, answers, checked, changes, first>>
      BY <1>2 DEF vars
    <2>2. TypeOK' /\ Room'
      BY <2>1 DEF Inv, TypeOK, Room, AnsweredOnce, ByAcme, Challenge
    <2>3. Shown' /\ CheckedBeforeServed'
      BY <2>1 DEF Inv, Challenge, Shown, Resolve, IsAccessControlEnabled, CheckedBeforeServed, HasFile
    <2>4. Alike' /\ Second'
      <3>1. Twin' = Twin /\ Same' = Same
        BY <2>1 DEF Twin, Same, Unanswered
      <3>2. Stage' = Stage
        BY <2>1 DEF Stage, Missing, Unanswered
      <3> QED
        BY <2>1, <3>1, <3>2 DEF Inv, Alike, Second, Missing
    <2> QED
      BY <2>2, <2>3, <2>4 DEF Inv
  <1> QED
    BY <1>1, <1>2, ChangeStep, AskForMissingStep DEF Next

\* The inductive invariant holds always.
THEOREM InvHolds == Spec => []Inv
  BY InitInv, NextInv, PTL DEF Spec

\* A handler of app.go's pipeline that has answered ends it, for every request,
\* every configuration and whatever GitLab's answer changes to in between; only
\* a challenge that ServeAcmeChallenges has had the domain answer is answered once
\* more.
THEOREM AnswersOnce == Spec => []AnsweredOnce
  <1>1. Inv => AnsweredOnce
    BY DEF Inv, Room
  <1> QED
    BY <1>1, InvHolds, PTL

\* While GitLab's answer stays the same, no handler sends files or the 404 page
\* of a project with access control before checkAuthentication found that the
\* user has access to it, but ServeAcmeChallenges, which serves the file of a
\* challenge to everyone.
THEOREM ServesOnlyAfterCheck == Spec => []CheckedBeforeServed
  <1>1. Inv => CheckedBeforeServed
    BY DEF Inv
  <1> QED
    BY <1>1, InvHolds, PTL

\* checkAuthAndServeNotFound and ServeNotFoundAuthFailed answer a user without
\* access alike, whether the project exists or not, over HTTPS and unless the
\* user may see a private namespace project.
THEOREM ForbiddenLooksMissing == Spec => []MissingLikeForbidden
  <1>1. Inv => MissingLikeForbidden
    <2> SUFFICES ASSUME Inv, pc = "done", answers # <<>>, first # None, changes = 0, config.auth, req.https,
                        world.secret = "private", "secret" \notin world.member,
                        ~ (world.ns = "private" /\ "ns" \in world.member)
                 PROVE  first = answers[1]
      BY DEF MissingLikeForbidden
    <2>1. Twin
      BY DEF Inv, Second, Missing, Twin
    <2> QED
      BY <2>1 DEF Inv, Alike
  <1> QED
    BY <1>1, InvHolds, PTL
=============================================================================
