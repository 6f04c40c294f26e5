------------------------------ MODULE Accounts ------------------------------
(***************************************************************************)
(* Users, their invites, workspaces and API keys, and the environment      *)
(* variables they keep in Vault (api/src/routes: auth.rs, api_keys.rs,     *)
(* mod.rs, env.rs, project_env.rs; api/src/envelope.rs, common/src/vault.rs)*)
(*                                                                         *)
(* A handler is one step per database statement, transaction or Vault call *)
(* whose result it uses later: what it read may be stale when it acts.     *)
(***************************************************************************)
EXTENDS Naturals, FiniteSets

CONSTANTS
  Emails,       \* people
  Names,        \* the names a sign-in may bring along: the identity provider's, or none
  Signups,      \* bound: calls of /auth/provision and /auth/cli/provision, each made once
  Codes,        \* bound: invite codes ever generated
  MaxKeys,      \* bound: API keys ever created
  Services,     \* services, and ...
  Projects,     \* ... projects: what variables belong to
  Owner,        \* the person in whose workspace they are
  Variables,    \* names of environment variables
  Writers,      \* bound: calls that change variables, in progress together
  None          \* sentinel

Paths == Services \cup Projects
Keys == 1 .. MaxKeys
Scopes == {"read", "write", "admin"}

ASSUME AccountsAssumption ==
  /\ Services \cap Projects = {} /\ Owner \in Emails
  /\ None \notin Emails \cup Names \cup Signups \cup Codes \cup Paths \cup Variables
  /\ MaxKeys \in Nat /\ IsFiniteSet(Signups)

VARIABLES
  user,      \* users: the id of a person's row, which is that of the call that inserted it
  owned,     \* workspaces of which a person is owner, by slug: a name and a user id
  code,      \* invite_codes: "absent", "unused" or "used"
  key,       \* api_keys, by id; valid: neither deleted nor expired
  signup,    \* calls of do_provision in progress
  admitted,  \* history: the people a code let in
  together,  \* history: the most signups that held a code at once
  vault,     \* what Vault stores under each path: the variables that are set
  writer,    \* calls that change variables, in progress
  overlap,   \* history: the paths that two calls changed at once
  serial     \* history: what the other paths would hold had each change been atomic

signupVars == <<user, owned, code, signup, admitted, together>>
envVars == <<vault, writer, serial, overlap>>
vars == <<signupVars, key, envVars>>

NoKey == [user |-> None, scope |-> "read", valid |-> FALSE]
NoSignup == [at |-> "idle", email |-> None, name |-> None, code |-> None, cli |-> FALSE]
Served == [NoSignup EXCEPT !.at = "served"]
NoWriter == [at |-> "idle", user |-> None, scope |-> "read", path |-> None,
             set |-> FALSE, names |-> {}, read |-> {}]

Init ==
  /\ user = [e \in Emails |-> None] /\ owned = [e \in Emails |-> {}]
  /\ code = [c \in Codes |-> "absent"]
  /\ key = [k \in Keys |-> NoKey]
  /\ signup = [p \in Signups |-> NoSignup]
  /\ admitted = [c \in Codes |-> {}] /\ together = [c \in Codes |-> 0]
  /\ vault = [s \in Paths |-> {}] /\ serial = vault
  /\ writer = [w \in Writers |-> NoWriter] /\ overlap = {}

Users == {e \in Emails : user[e] # None}

-----------------------------------------------------------------------------
(* Invites and sign-up *)

\* create_invites inserts its codes one statement at a time.
create_invites(c) ==
  /\ code[c] = "absent"
  /\ code' = [code EXCEPT ![c] = "unused"]
  /\ UNCHANGED <<user, owned, signup, admitted, together, key, envVars>>

\* Signing in finds the user, which ends the web's call and brings the CLI's to
\* its key; query_opt fails for the owner of two workspaces.  Someone new must
\* show an invite, and the web's call carries none.
ProvisionLookup(p, e, n, c, cli) ==
  /\ signup[p].at = "idle"
  /\ cli \/ c = None
  /\ signup' = [signup EXCEPT ![p] =
       IF e \in Users /\ cli /\ Cardinality(owned[e]) = 1
       THEN [at |-> "key", email |-> e, name |-> None, code |-> None, cli |-> TRUE]
       ELSE IF e \in Users \/ c = None THEN Served
       ELSE [at |-> "invite", email |-> e, name |-> n, code |-> c, cli |-> cli]]
  /\ UNCHANGED <<user, owned, code, admitted, together, key, envVars>>

Holding(c) == {p \in Signups : signup[p].at = "create" /\ signup[p].code = c}
CountHolding ==
  together' = [c \in Codes |-> LET n == Cardinality(Holding(c)') IN
                               IF n > together[c] THEN n ELSE together[c]]

\* Mutant: a code is looked up without used_by IS NULL.
InviteKnown(p) ==
  /\ signup[p].at = "invite"
  /\ signup' = [signup EXCEPT ![p] =
       IF code[signup[p].code] # "absent" THEN [@ EXCEPT !.at = "create"] ELSE Served]
  /\ CountHolding
  /\ UNCHANGED <<user, owned, code, admitted, key, envVars>>

\* The code is looked up in a statement of its own, ...
InviteCheck(p) ==
  /\ signup[p].at = "invite"
  /\ signup' = [signup EXCEPT ![p] =
       IF code[signup[p].code] = "unused" THEN [@ EXCEPT !.at = "create"] ELSE Served]
  /\ CountHolding
  /\ UNCHANGED <<user, owned, code, admitted, key, envVars>>

\* Mutant: the slug of the workspace is made from the proposed id.
SlugOfProposal(p, e) == <<signup[p].name, p>>

\* The slug is made from the name and from the id that the upsert returned: the
\* row's, not the one this call proposed.
WorkspaceSlug(p, e) == <<signup[p].name, IF user[e] = None THEN p ELSE user[e]>>

\* ... and consumed by the transaction that upserts user, workspace and
\* membership, whoever consumed it meanwhile.  The transaction may fail.
ProvisionCommit(p, ok) ==
  LET e == signup[p].email  c == signup[p].code IN
  /\ signup[p].at = "create"
  /\ IF ok
     THEN /\ user' = [user EXCEPT ![e] = IF @ = None THEN p ELSE @]
          /\ owned' = [owned EXCEPT ![e] = @ \cup {WorkspaceSlug(p, e)}]
          /\ code' = [code EXCEPT ![c] = "used"]
          /\ admitted' = [admitted EXCEPT ![c] = @ \cup ({e} \ Users)]
     ELSE UNCHANGED <<user, owned, code, admitted>>
  /\ signup' = [signup EXCEPT ![p] = IF ok /\ @.cli
                                     THEN [@ EXCEPT !.at = "key", !.code = None, !.name = None]
                                     ELSE Served]
  /\ UNCHANGED <<together, key, envVars>>

-----------------------------------------------------------------------------
(* API keys *)

Unissued == {k \in Keys : key[k].user = None}
Issue(e, scope) ==
  LET k == CHOOSE n \in Unissued : \A m \in Unissued : n <= m IN
  /\ Unissued # {}
  /\ key' = [key EXCEPT ![k] = [user |-> e, scope |-> scope, valid |-> TRUE]]

\* The CLI's call ends with an admin key, outside the transaction: one that is
\* not inserted leaves a user who has to sign in again.
CliKey(p, ok) ==
  /\ signup[p].at = "key"
  /\ IF ok THEN Issue(signup[p].email, "admin") ELSE UNCHANGED key
  /\ signup' = [signup EXCEPT ![p] = Served]
  /\ UNCHANGED <<user, owned, code, admitted, together, envVars>>

\* Both need the admin scope, which a user's admin key has and, for every user
\* there is, the web.
create_api_key(e, scope) ==
  /\ e \in Users
  /\ Issue(e, scope)
  /\ UNCHANGED <<signupVars, envVars>>

delete_api_key(e, k) ==
  /\ e \in Users /\ key[k].user = e
  /\ key' = [key EXCEPT ![k].valid = FALSE]
  /\ UNCHANGED <<signupVars, envVars>>

\* expires_at passes.
KeyExpires(k) ==
  /\ key[k].valid
  /\ key' = [key EXCEPT ![k].valid = FALSE]
  /\ UNCHANGED <<signupVars, envVars>>

-----------------------------------------------------------------------------
(* Environment variables *)

\* auth_middleware resolves who calls and what the call may do, once: a key that is
\* deleted afterwards still serves it.
Authenticate(w, e, scope) ==
  /\ writer[w].at = "idle"
  /\ writer' = [writer EXCEPT ![w] = [NoWriter EXCEPT !.at = "handler", !.user = e, !.scope = scope]]
  /\ UNCHANGED <<signupVars, key, vault, serial, overlap>>
auth_middleware(w) ==
  \/ \E k \in Keys : key[k].valid /\ Authenticate(w, key[k].user, key[k].scope)
  \/ \E e \in Users : Authenticate(w, e, "admin")

\* admin > write > read.
require_scope(scope, required) == scope = "admin" \/ scope = required

\* Services and projects are in the workspace of Owner, who alone is a member.
resolve(e) == e = Owner

\* A call that changes variables is refused, or reads what Vault holds and keeps
\* it, with the change it was asked for, until it writes.
kv_get(w, s, set, names, required) ==
  LET r == writer[w] IN
  /\ r.at = "handler"
  /\ IF require_scope(r.scope, required) /\ resolve(r.user)
     THEN /\ writer' = [writer EXCEPT ![w] = [r EXCEPT !.at = "store", !.path = s, !.set = set,
                                                       !.names = names, !.read = vault[s]]]
          /\ IF \E o \in Writers : writer[o].at = "store" /\ writer[o].path = s
             THEN overlap' = overlap \cup {s} /\ serial' = [serial EXCEPT ![s] = {}]
             ELSE UNCHANGED <<overlap, serial>>
     ELSE /\ writer' = [writer EXCEPT ![w] = NoWriter]
          /\ UNCHANGED <<overlap, serial>>
  /\ UNCHANGED <<signupVars, key, vault>>

\* Variables of a service need the write scope, those of a project admin.
set_env_vars(w, s, v)           == kv_get(w, s, TRUE, {v}, "write")
unset_env_vars(w, s, v)         == kv_get(w, s, FALSE, {v}, "write")
set_project_env_vars(w, s, v)   == kv_get(w, s, TRUE, {v}, "admin")
unset_project_env_vars(w, s, v) == kv_get(w, s, FALSE, {v}, "admin")

\* What the change makes of the variables there are.
Changed(old, r) == IF r.set THEN old \cup r.names ELSE old \ r.names

\* Mutant: set stores the request's variables instead of the merged ones.
StoreBody(old, r) == IF r.set THEN r.names ELSE old \ r.names

\* The new map: what was read, with the request's changes.
Merged(old, r) == IF r.set THEN old \cup r.names ELSE old \ r.names

\* The map at the path is replaced: kv_put names no version to compare with.
\* An error is reported to the caller whether or not Vault applied the write.
kv_put(w, applied) ==
  LET r == writer[w]  s == r.path IN
  /\ r.at = "store"
  /\ vault' = IF applied THEN [vault EXCEPT ![s] = Merged(r.read, r)] ELSE vault
  /\ serial' = IF applied /\ s \notin overlap THEN [serial EXCEPT ![s] = Changed(@, r)] ELSE serial
  /\ writer' = [writer EXCEPT ![w] = NoWriter]
  /\ UNCHANGED <<signupVars, key, overlap>>

-----------------------------------------------------------------------------

SignUp ==
  \/ \E c \in Codes : create_invites(c)
  \/ \E p \in Signups :
       \/ \E e \in Emails, n \in Names, c \in Codes \cup {None}, cli \in BOOLEAN :
            ProvisionLookup(p, e, n, c, cli)
       \/ InviteCheck(p)
       \/ \E ok \in BOOLEAN : ProvisionCommit(p, ok) \/ CliKey(p, ok)

ApiKeys ==
  \E e \in Emails : \/ \E scope \in Scopes : create_api_key(e, scope)
                    \/ \E k \in Keys : delete_api_key(e, k) \/ KeyExpires(k)

Environment ==
  \E w \in Writers :
    \/ auth_middleware(w)
    \/ \E v \in Variables :
         \/ \E s \in Services : set_env_vars(w, s, v) \/ unset_env_vars(w, s, v)
         \/ \E s \in Projects : set_project_env_vars(w, s, v) \/ unset_project_env_vars(w, s, v)
    \/ \E applied \in BOOLEAN : kv_put(w, applied)

Next == SignUp \/ ApiKeys \/ Environment

Spec == Init /\ [][Next]_vars

-----------------------------------------------------------------------------
(* Properties *)

SignupRecords == [at : {"idle", "invite", "create", "key", "served"},
                  email : Emails \cup {None}, name : Names \cup {None},
                  code : Codes \cup {None}, cli : BOOLEAN]
KeyRecords == [user : Emails \cup {None}, scope : Scopes, valid : BOOLEAN]
WriterRecords == [at : {"idle", "handler", "store"}, user : Emails \cup {None},
                  scope : Scopes, path : Paths \cup {None}, set : BOOLEAN,
                  names : SUBSET Variables, read : SUBSET Variables]

TypeOK ==
  /\ user \in [Emails -> Signups \cup {None}]
  /\ owned \in [Emails -> SUBSET (Names \X Signups)]
  /\ code \in [Codes -> {"absent", "unused", "used"}]
  /\ key \in [Keys -> KeyRecords]
  /\ signup \in [Signups -> SignupRecords]
  /\ admitted \in [Codes -> SUBSET Emails] /\ together \in [Codes -> Nat]
  /\ vault \in [Paths -> SUBSET Variables] /\ serial \in [Paths -> SUBSET Variables]
  /\ writer \in [Writers -> WriterRecords]
  /\ overlap \subseteq Paths

\* However the first sign-ins of a person interleave and fail, the person has an
\* account exactly when he owns a workspace, and a second one only by having
\* signed in under another name meanwhile: the upserts agree on the user's id.
WorkspacePerName ==
  \A e \in Emails : IF e \in Users THEN owned[e] # {} /\ owned[e] \subseteq Names \X {user[e]}
                                   ELSE owned[e] = {}

\* An invite is checked in one statement and consumed in another, so it can let in
\* more than one person, but only people whose sign-ups held it at the same time.
AdmittedTogether == \A c \in Codes : Cardinality(admitted[c]) <= together[c]

\* The changes of variables are read-merge-write without a version, so two at once
\* may lose one; a path that no two calls changed at once holds what its changes,
\* one after the other, say - whatever happens to the other paths.
SerialPerPath == \A s \in Paths \ overlap : vault[s] = serial[s]

\* do_provision's query_opt takes a person to own at most one workspace; two first
\* sign-ins at once whose names differ leave two, and the person cannot sign in.
OneWorkspace == \A e \in Emails : Cardinality(owned[e]) <= 1
=============================================================================
