--------------------------- MODULE MCIntegrations ---------------------------
(***************************************************************************)
(* The server's two integrations, image registries and Grafana.  They      *)
(* share no state, so a behaviour is about one of them, chosen at its      *)
(* start; two handlers, and two places to ask, do for either.              *)
(***************************************************************************)
EXTENDS RegistryCache, TLC

CONSTANTS Subjects,     (* "registries", "grafana", one a behaviour          *)
          Accounts,     (* of the row of a Grafana source                    *)
          Tokens,       (* those without name and password                   *)
          MaxCookies,   (* bound: cookies Grafana sets in a behaviour        *)
          MaxVisits     (* bound: requests that use Grafana in a behaviour   *)

VARIABLES subject,
          source, created, session, live, issued, visitor, visits, changed, refused

Grafana == INSTANCE GrafanaSession
             WITH handler <- visitor, calls <- visits, MaxCalls <- MaxVisits

ASSUME GrafanaWellFormed == Grafana!WellFormed

grafanaVars == <<source, created, session, live, issued, visitor, visits, changed,
                 refused>>

EitherInit == subject \in Subjects /\ Init /\ Grafana!Init

EitherNext ==
  /\ UNCHANGED subject
  /\ \/ subject = "registries" /\ Next /\ UNCHANGED grafanaVars
     \/ subject = "grafana" /\ Grafana!Next /\ UNCHANGED vars

EitherSpec == EitherInit /\ [][EitherNext]_<<subject, vars, grafanaVars>>

Symmetry == Permutations(Handlers) \cup Permutations(Endpoints)
            \cup Permutations(Namespaces) \cup Permutations(Accounts \ Tokens)

-----------------------------------------------------------------------------
(* The session kept for a Grafana source is one of the account its row     *)
(* names, unless a handler that overlapped the change stored it            *)
(* (updateObservabilitySource, refreshGrafanaSessionCacheFromResponse).    *)
SessionIsRows == Grafana!SessionIsRows

(* A session that a first attempt or the proxy has seen to be refused is   *)
(* not used again; one that only retries have seen stays in the cache      *)
(* (withGrafanaSessionRetry, ModifyResponse).                              *)
RefusedIsGone == Grafana!RefusedIsGone
=============================================================================
