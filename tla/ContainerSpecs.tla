--------------------------- MODULE ContainerSpecs ---------------------------
(***************************************************************************)
(* What each backend asks Docker for: the containers of a cluster in the   *)
(* order they are created, and of each ContainerSpec the fields that       *)
(* decide how the cluster comes up and goes away.                          *)
(***************************************************************************)
EXTENDS Naturals, Sequences

(* A Postgres service is requested with or without pgvector.               *)
ServiceKinds == {"postgres", "pgvector", "supabase"}

(* health_check: a HEALTHCHECK is set, so readiness waits for it; publish: *)
(* the port is bound on the host; network: the container joins the         *)
(* cluster's own network; config: it mounts generated configuration;       *)
(* dials: the other containers that its environment points it at.          *)
PostgresSpec  == [health_check |-> TRUE,  publish |-> TRUE,  network |-> FALSE,
                  config |-> FALSE, dials |-> {}]
DbSpec        == [health_check |-> TRUE,  publish |-> TRUE,  network |-> TRUE,
                  config |-> TRUE,  dials |-> {}]
RestSpec      == [health_check |-> TRUE,  publish |-> FALSE, network |-> TRUE,
                  config |-> FALSE, dials |-> {"db"}]
AuthSpec      == [health_check |-> TRUE,  publish |-> FALSE, network |-> TRUE,
                  config |-> FALSE, dials |-> {"db"}]
KongSpec      == [health_check |-> TRUE,  publish |-> TRUE,  network |-> TRUE,
                  config |-> TRUE,  dials |-> {}]
FunctionsSpec == [health_check |-> FALSE, publish |-> FALSE, network |-> TRUE,
                  config |-> FALSE, dials |-> {"kong", "db"}]

(* The container of a Postgres cluster, and the five of a Supabase one,    *)
(* named by their suffix.                                                  *)
Specs == [postgres |-> PostgresSpec, db |-> DbSpec, rest |-> RestSpec, auth |-> AuthSpec,
          kong |-> KongSpec, functions |-> FunctionsSpec]

Services(kind) == IF kind = "supabase"
                  THEN <<"db", "rest", "auth", "kong", "functions">>
                  ELSE <<"postgres">>

Names == {"postgres", "db", "rest", "auth", "kong", "functions"}

SpecOf(name) == Specs[name]
=============================================================================
