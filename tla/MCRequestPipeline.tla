-------------------------- MODULE MCRequestPipeline --------------------------
(* An instance of RequestPipeline: every kind of request, with the details  *)
(* varied where they matter.                                                *)
EXTENDS RequestPipeline

Req(kinds, paths, files, sessions) ==
  {r \in [kind : kinds, path : paths, file : files, https : BOOLEAN, session : sessions, flaky : BOOLEAN] :
     r.flaky => r.session \in {"valid", "revoked"}}

MCRequest ==
  Req({"page"}, {"/", "/secret/x"}, BOOLEAN, {"none", "valid", "revoked", "undecodable"})
  \cup Req({"acme"}, {"/"}, BOOLEAN, {"none", "valid"})
  \cup Req({"callback", "artifact"}, {"/"}, {TRUE}, {"none", "revoked"})
  \cup Req({"method", "uri", "status", "limited", "preflight"}, {"/"}, {TRUE}, {"none"})

MCConfig ==
  [auth : BOOLEAN, acme : {"on"}, cors : {TRUE}, redirectHTTP : {FALSE}]
  \cup {[auth |-> TRUE, acme |-> a, cors |-> FALSE, redirectHTTP |-> TRUE] : a \in {"off", "unparsable"}}

MCWorld ==
  [ns : {"absent", "public", "private"}, secret : {"absent", "private"}, httpsOnly : BOOLEAN,
   broken : {None}, member : {{}, {"ns"}, {"ns", "secret"}}]
  \cup [ns : {"public"}, secret : {"private"}, httpsOnly : {FALSE},
        broken : {"ErrDiskDisabled", "other"}, member : {{}}]
=============================================================================
