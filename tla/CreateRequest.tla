--------------------------- MODULE CreateRequest ---------------------------
(***************************************************************************)
(* What POST /clusters makes of a request that has been authenticated: a   *)
(* JSON body asks for Postgres, a multipart body for Supabase with the     *)
(* archive it carries.  A request is its Content-Type and its parts, in    *)
(* the order sent; a JSON body is one part.                                *)
(***************************************************************************)
EXTENDS Naturals, Sequences

CONSTANTS BodyLimit,  \* max_tar_bytes, the DefaultBodyLimit of the route
          MaxTtl      \* the largest ttl_secs TimeDelta::try_seconds accepts

NoTar == << >>

(* A metadata part that does not parse has the kind "malformed".           *)
Named(request, name) == {i \in DOMAIN request.parts : request.parts[i].name = name}

Latest(request, name) ==
  request.parts[CHOOSE i \in Named(request, name) : \A j \in Named(request, name) : j <= i]

(* Every metadata part is parsed, the last one counts; parts of another    *)
(* name are passed over.                                                   *)
MultipartAccepted(request) ==
  /\ request.multipart
  /\ \A i \in Named(request, "metadata") : request.parts[i].kind # "malformed"
  /\ Named(request, "metadata") # {} /\ Named(request, "project_tar") # {}
  /\ Latest(request, "metadata").kind = "supabase"

(* Slip: the kind is not looked at.                                        *)
BugJsonAccepted(request) == ~request.multipart /\ request.parts[1].kind # "malformed"

JsonAccepted(request) == ~request.multipart /\ request.parts[1].kind = "postgres"

Metadata(request) == IF request.multipart THEN Latest(request, "metadata") ELSE request.parts[1]

Accepted(request) ==
  /\ request.bytes <= BodyLimit
  /\ MultipartAccepted(request) \/ JsonAccepted(request)
  /\ Metadata(request).ttl <= MaxTtl

(* The service and the archive handed to the spawn task.                   *)
Parse(request) ==
  [kind |-> Metadata(request).kind,
   tar  |-> IF request.multipart THEN Latest(request, "project_tar").tar ELSE NoTar]
=============================================================================
