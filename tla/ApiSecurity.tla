----------------------------- MODULE ApiSecurity -----------------------------
(***************************************************************************)
(* Who may do what through the API: the settings and credentials that a    *)
(* replica's process loads once, when it starts, and the verdict of its    *)
(* middleware on a request.  The credential file is mounted and may be     *)
(* replaced while processes run.                                           *)
(***************************************************************************)
EXTENDS Naturals, Sequences

CONSTANTS
  Replicas,             \* the processes that serve the API
  Deployments,          \* settings an operator may start a process with
  CredentialFiles,      \* contents the credential file may have
  FirstFile,            \* and the one mounted at first
  Unreadable,           \* a file that is missing, too large, writable or no JSON
  UsableTokens,         \* tokens of 32 to 4096 characters
  MaxRotations,         \* how often the file is replaced
  None

ASSUME SecurityAssumption ==
  /\ MaxRotations \in Nat
  /\ None \notin {"401", "403"}
  /\ FirstFile \in CredentialFiles
  /\ \A s \in Deployments :
       {s.production, s.auth, s.mounted, s.execution, s.hardened} \subseteq BOOLEAN

VARIABLES
  files,                \* every version of the credential file, the mounted one last
  process               \* settings and file version a running process works with

securityVars == <<files, process>>

Permissions == {"read", "investigate", "ingest", "publish", "remediate"}

\* A document is a set of credentials; the validator refuses duplicates.
Loadable(file) ==
  /\ file \notin {Unreadable, {}}
  /\ \A c \in file : c.permissions # {} /\ c.permissions \subseteq Permissions
  /\ \A c, d \in file : c # d => c.principal # d.principal /\ c.token # d.token

\* Mutant: nothing ties execution to authentication.
ValidWithoutExecution(s) ==
  /\ s.auth => s.mounted
  /\ s.production => s.auth /\ s.hardened

\* hardened: trusted hosts are listed and the database password is not the
\* development one.  The rule for the model provider's address concerns no request.
ValidSettings(s) ==
  /\ s.auth => s.mounted
  /\ s.execution => s.auth
  /\ s.production => s.auth /\ s.hardened

SecurityInit ==
  /\ files = <<FirstFile>>
  /\ process = [r \in Replicas |-> None]

\* create_app: a process whose settings or credentials are refused does not start.
StartProcess(r) ==
  /\ process[r] = None
  /\ \E s \in Deployments :
       /\ ValidSettings(s)
       /\ s.auth => Loadable(files[Len(files)])
       /\ process' = [process EXCEPT ![r] = [settings |-> s, loaded |-> Len(files)]]
  /\ UNCHANGED files

StopProcess(r) ==
  /\ process[r] # None
  /\ process' = [process EXCEPT ![r] = None]
  /\ UNCHANGED files

ReplaceFile ==
  /\ Len(files) <= MaxRotations
  /\ \E f \in CredentialFiles \ {files[Len(files)]} : files' = Append(files, f)
  /\ UNCHANGED process

---------------------------------------------------------------------------
(* The middleware *)

Principal(name, permissions, authenticated) ==
  [name |-> name, permissions |-> permissions, authenticated |-> authenticated]

Development == Principal("development", Permissions, FALSE)

\* The credential whose digest the token has; unique in a loadable file.
Authenticate(credentials, token) ==
  LET matched == {c \in credentials : c.token = token /\ token \in UsableTokens}
  IN  {Principal(c.principal, c.permissions, TRUE) : c \in matched}

\* Mutant: the proposal's route alone needs the remediation permission.
RequiredForProposalOnly(method, path) ==
  CASE method \in {"GET", "HEAD"} -> "read"
    [] path = "alerts/prometheus" -> "ingest"
    [] path = "evaluations" -> "publish"
    [] path = "remediation" -> "remediate"
    [] OTHER -> "investigate"

RequiredPermission(method, path) ==
  CASE method \in {"GET", "HEAD"} -> "read"
    [] path = "alerts/prometheus" -> "ingest"
    [] path = "evaluations" -> "publish"
    [] path \in {"remediation", "approve-remediation", "reject-remediation"} ->
         "remediate"
    [] OTHER -> "investigate"

\* Mutant: credentials are those of the first start, whatever is mounted now.
SendersOfFirstFile(p, token) ==
  IF p.settings.auth THEN Authenticate(files[1], token) ELSE {Development}

\* What the middleware of process p knows the sender of a request as.
SendersOf(p, token) ==
  IF p.settings.auth THEN Authenticate(files[p.loaded], token) ELSE {Development}

\* 401 to a stranger, 403 to a principal without the route's permission.
Refusal(p, request) ==
  LET senders == SendersOf(p, request.token)
  IN  CASE senders = {} -> "401"
        [] \E q \in senders :
             RequiredPermission(request.method, request.path) \notin q.permissions ->
             "403"
        [] OTHER -> None
=============================================================================
