--------------------------- MODULE AccountsProofs ---------------------------
(***************************************************************************)
(* Accounts for every number of people, names, calls, invites, keys and    *)
(* variables: first sign-ins agree on the account, an invite lets in no    *)
(* more people than held it together, and the variables of a path nobody   *)
(* changed twice at once are those its changes say.                        *)
(***************************************************************************)
EXTENDS Accounts, FiniteSetTheorems, TLAPS

\* A call that waits for its invite or its transaction knows who signs in, under
\* which name and with which code.
SignupInv ==
  \A p \in Signups :
    /\ signup[p].at \in {"invite", "create"}
         => signup[p].email \in Emails /\ signup[p].name \in Names /\ signup[p].code \in Codes
    /\ signup[p].at = "key" => signup[p].email \in Emails

\* A code that was not consumed let nobody in; of one that was, the people it let in
\* and the calls that still hold it held it together.
InviteInv ==
  \A c \in Codes : /\ code[c] # "used" => admitted[c] = {}
                   /\ IsFiniteSet(admitted[c])
                   /\ Cardinality(admitted[c]) + Cardinality(Holding(c)) <= together[c]

\* On a path without overlap at most one call is between its read and its write,
\* and what it read is what Vault holds.
WriterInv ==
  \A w \in Writers : writer[w].at = "store" =>
    /\ writer[w].path \in Paths
    /\ writer[w].path \notin overlap =>
         /\ writer[w].read = vault[writer[w].path]
         /\ \A o \in Writers : writer[o].at = "store" /\ writer[o].path = writer[w].path => o = w

IInv == /\ TypeOK /\ SignupInv /\ WorkspacePerName /\ InviteInv
        /\ WriterInv /\ SerialPerPath
-----------------------------------------------------------------------------
(* Types *)

\* The records a call, a key and a variable change are made of.
LEMMA SignupUpdates ==
  ASSUME NEW r \in SignupRecords
  PROVE  /\ Served \in SignupRecords /\ NoSignup \in SignupRecords
         /\ [r EXCEPT !.at = "create"] \in SignupRecords
         /\ [r EXCEPT !.at = "key", !.code = None, !.name = None] \in SignupRecords
BY DEF SignupRecords, Served, NoSignup

LEMMA WriterUpdates ==
  ASSUME NEW r \in WriterRecords
  PROVE  /\ NoWriter \in WriterRecords
         /\ \A e \in Emails \cup {None}, scope \in Scopes :
              [NoWriter EXCEPT !.at = "handler", !.user = e, !.scope = scope] \in WriterRecords
         /\ \A s \in Paths, set \in BOOLEAN, names \in SUBSET Variables, read \in SUBSET Variables :
              [r EXCEPT !.at = "store", !.path = s, !.set = set, !.names = names, !.read = read]
                \in WriterRecords
         /\ r.names \subseteq Variables /\ r.read \subseteq Variables
BY DEF WriterRecords, NoWriter, Scopes

\* An issued key is a key, whichever id it gets.
LEMMA IssueType ==
  ASSUME TypeOK, NEW e \in Emails, NEW scope \in Scopes, Issue(e, scope)
  PROVE  key' \in [Keys -> KeyRecords]
<1>1. [user |-> e, scope |-> scope, valid |-> TRUE] \in KeyRecords
  BY DEF KeyRecords
<1> QED BY <1>1 DEF TypeOK, Issue

\* Only the six variables of sign-up change in a step of do_provision, only the
\* keys in one of the key handlers, and only the variables in one of theirs.
LEMMA SignUpType ==
  ASSUME AccountsAssumption, TypeOK, SignupInv, SignUp
  PROVE  TypeOK'
<1> USE DEF TypeOK, signupVars, envVars
<1>1. ASSUME NEW c \in Codes, create_invites(c) PROVE TypeOK'
  BY <1>1 DEF create_invites
<1>2. ASSUME NEW p \in Signups, NEW e \in Emails, NEW n \in Names, NEW c \in Codes \cup {None},
             NEW cli \in BOOLEAN, ProvisionLookup(p, e, n, c, cli)
      PROVE  TypeOK'
  <2>1. /\ [at |-> "key", email |-> e, name |-> None, code |-> None, cli |-> TRUE] \in SignupRecords
        /\ [at |-> "invite", email |-> e, name |-> n, code |-> c, cli |-> cli] \in SignupRecords
        /\ Served \in SignupRecords
    BY DEF SignupRecords, Served, NoSignup
  <2>2. signup' \in [Signups -> SignupRecords]
    BY <1>2, <2>1 DEF ProvisionLookup
  <2> QED BY <1>2, <2>2 DEF ProvisionLookup
<1>3. ASSUME NEW p \in Signups, InviteCheck(p) PROVE TypeOK'
  <2>1. signup' \in [Signups -> SignupRecords]
    BY <1>3, SignupUpdates DEF InviteCheck
  <2>2. together' \in [Codes -> Nat]
    <3>1. \A c \in Codes : Cardinality(Holding(c)') \in Nat
      <4>1. ASSUME NEW c \in Codes PROVE Cardinality(Holding(c)') \in Nat
        <5>1. Holding(c)' \in SUBSET Signups
          BY DEF Holding
        <5>2. IsFiniteSet(Holding(c)')
          BY <5>1, FS_Subset DEF AccountsAssumption
        <5> QED BY <5>2, FS_CardinalityType
      <4> QED BY <4>1
    <3> QED BY <1>3, <3>1 DEF InviteCheck, CountHolding
  <2> QED BY <1>3, <2>1, <2>2 DEF InviteCheck
<1>4. ASSUME NEW p \in Signups, NEW ok \in BOOLEAN, ProvisionCommit(p, ok) PROVE TypeOK'
  <2>1. signup' \in [Signups -> SignupRecords]
    BY <1>4, SignupUpdates DEF ProvisionCommit
  <2>2. signup[p].email \in Emails /\ signup[p].name \in Names /\ signup[p].code \in Codes
    BY <1>4 DEF ProvisionCommit, SignupInv
  <2>3. WorkspaceSlug(p, signup[p].email) \in Names \X Signups
    BY <2>2 DEF WorkspaceSlug
  <2>4. user' \in [Emails -> Signups \cup {None}] /\ owned' \in [Emails -> SUBSET (Names \X Signups)]
    BY <1>4, <2>2, <2>3 DEF ProvisionCommit
  <2>5. code' \in [Codes -> {"absent", "unused", "used"}] /\ admitted' \in [Codes -> SUBSET Emails]
    BY <1>4, <2>2 DEF ProvisionCommit
  <2> QED BY <1>4, <2>1, <2>4, <2>5 DEF ProvisionCommit
<1>5. ASSUME NEW p \in Signups, NEW ok \in BOOLEAN, CliKey(p, ok) PROVE TypeOK'
  <2>1. signup' \in [Signups -> SignupRecords]
    BY <1>5, SignupUpdates DEF CliKey
  <2>2. key' \in [Keys -> KeyRecords]
    BY <1>5, IssueType DEF CliKey, SignupInv, Scopes
  <2> QED BY <1>5, <2>1, <2>2 DEF CliKey
<1> QED BY <1>1, <1>2, <1>3, <1>4, <1>5 DEF SignUp

LEMMA ApiKeysType ==
  ASSUME TypeOK, ApiKeys
  PROVE  TypeOK' /\ UNCHANGED <<signupVars, envVars>>
<1>1. key' \in [Keys -> KeyRecords] /\ UNCHANGED <<signupVars, envVars>>
  <2>1. ASSUME NEW e \in Emails, NEW scope \in Scopes, create_api_key(e, scope)
        PROVE  key' \in [Keys -> KeyRecords] /\ UNCHANGED <<signupVars, envVars>>
    BY <2>1, IssueType DEF create_api_key
  <2>2. ASSUME NEW e \in Emails, NEW k \in Keys, delete_api_key(e, k) \/ KeyExpires(k)
        PROVE  key' \in [Keys -> KeyRecords] /\ UNCHANGED <<signupVars, envVars>>
    <3>1. [key[k] EXCEPT !.valid = FALSE] \in KeyRecords
      BY ZenonT(40) DEF TypeOK, KeyRecords
    <3> QED BY <2>2, <3>1 DEF delete_api_key, KeyExpires, TypeOK
  <2> QED BY <2>1, <2>2 DEF ApiKeys
<1> QED BY <1>1 DEF TypeOK, signupVars, envVars

\* What the three kinds of steps of a change of variables do.
LEMMA EnvironmentSteps ==
  ASSUME TypeOK, Environment
  PROVE  /\ UNCHANGED <<signupVars, key>>
         /\ \E w \in Writers :
              \/ \E e \in Emails \cup {None}, scope \in Scopes : Authenticate(w, e, scope)
              \/ \E s \in Paths, set \in BOOLEAN, v \in Variables, required \in Scopes :
                   kv_get(w, s, set, {v}, required)
              \/ \E applied \in BOOLEAN : kv_put(w, applied)
<1>1. ASSUME NEW w \in Writers, auth_middleware(w)
      PROVE  \E e \in Emails \cup {None}, scope \in Scopes : Authenticate(w, e, scope)
  BY <1>1 DEF auth_middleware, TypeOK, KeyRecords, Users, Scopes
<1>2. ASSUME NEW w \in Writers, NEW v \in Variables,
             \/ \E s \in Services : set_env_vars(w, s, v) \/ unset_env_vars(w, s, v)
             \/ \E s \in Projects : set_project_env_vars(w, s, v) \/ unset_project_env_vars(w, s, v)
      PROVE  \E s \in Paths, set \in BOOLEAN, required \in Scopes : kv_get(w, s, set, {v}, required)
  BY <1>2 DEF set_env_vars, unset_env_vars, set_project_env_vars, unset_project_env_vars, Paths, Scopes
<1>3. \E w \in Writers :
        \/ \E e \in Emails \cup {None}, scope \in Scopes : Authenticate(w, e, scope)
        \/ \E s \in Paths, set \in BOOLEAN, v \in Variables, required \in Scopes :
             kv_get(w, s, set, {v}, required)
        \/ \E applied \in BOOLEAN : kv_put(w, applied)
  BY <1>1, <1>2 DEF Environment
<1> QED BY <1>3 DEF Authenticate, kv_get, kv_put

-----------------------------------------------------------------------------
(* Sign-up *)

LEMMA SignupStep ==
  ASSUME AccountsAssumption, TypeOK, SignupInv, SignUp
  PROVE  SignupInv'
<1> USE DEF TypeOK
<1>1. ASSUME NEW c \in Codes, create_invites(c) PROVE SignupInv'
  BY <1>1 DEF create_invites, SignupInv
<1>2. ASSUME NEW p \in Signups, NEW e \in Emails, NEW n \in Names, NEW c \in Codes \cup {None},
             NEW cli \in BOOLEAN, ProvisionLookup(p, e, n, c, cli)
      PROVE  SignupInv'
  BY <1>2 DEF ProvisionLookup, SignupInv, Served, NoSignup
<1>3. ASSUME NEW p \in Signups, InviteCheck(p) PROVE SignupInv'
  <2>1. [signup[p] EXCEPT !.at = "create"].email = signup[p].email
        /\ [signup[p] EXCEPT !.at = "create"].name = signup[p].name
        /\ [signup[p] EXCEPT !.at = "create"].code = signup[p].code
        /\ [signup[p] EXCEPT !.at = "create"].at = "create"
    BY DEF SignupRecords
  <2> QED BY <1>3, <2>1 DEF InviteCheck, SignupInv, Served, NoSignup
<1>4. ASSUME NEW p \in Signups, NEW ok \in BOOLEAN, ProvisionCommit(p, ok) PROVE SignupInv'
  <2>1. [signup[p] EXCEPT !.at = "key", !.code = None, !.name = None].at = "key"
        /\ [signup[p] EXCEPT !.at = "key", !.code = None, !.name = None].email = signup[p].email
    BY DEF SignupRecords
  <2> QED BY <1>4, <2>1 DEF ProvisionCommit, SignupInv, Served, NoSignup
<1>5. ASSUME NEW p \in Signups, NEW ok \in BOOLEAN, CliKey(p, ok) PROVE SignupInv'
  BY <1>5 DEF CliKey, SignupInv, Served, NoSignup
<1> QED BY <1>1, <1>2, <1>3, <1>4, <1>5 DEF SignUp

LEMMA WorkspaceStep ==
  ASSUME AccountsAssumption, TypeOK, SignupInv, WorkspacePerName, SignUp
  PROVE  WorkspacePerName'
<1>1. CASE UNCHANGED <<user, owned>>
  BY <1>1 DEF WorkspacePerName, Users
<1>2. ASSUME NEW p \in Signups, ProvisionCommit(p, TRUE) PROVE WorkspacePerName'
  <2> DEFINE e == signup[p].email
  <2>1. e \in Emails /\ signup[p].name \in Names /\ p # None
    BY <1>2 DEF ProvisionCommit, SignupInv, AccountsAssumption
  <2>2. /\ user' = [user EXCEPT ![e] = IF @ = None THEN p ELSE @]
        /\ owned' = [owned EXCEPT ![e] = @ \cup {WorkspaceSlug(p, e)}]
    BY <1>2 DEF ProvisionCommit
  <2>3. user'[e] # None /\ WorkspaceSlug(p, e) = <<signup[p].name, user'[e]>>
    BY <2>1, <2>2 DEF WorkspaceSlug, TypeOK
  <2>4. owned[e] \subseteq Names \X {user'[e]}
    BY <2>1, <2>2 DEF WorkspacePerName, Users, TypeOK
  <2>5. owned'[e] # {} /\ owned'[e] \subseteq Names \X {user'[e]}
    BY <2>1, <2>2, <2>3, <2>4 DEF TypeOK
  <2>6. \A o \in Emails : o # e => user'[o] = user[o] /\ owned'[o] = owned[o]
    BY <2>2 DEF TypeOK
  <2> QED BY <2>1, <2>3, <2>5, <2>6 DEF WorkspacePerName, Users
<1> QED
  BY ZenonT(40), <1>1, <1>2
  DEF SignUp, create_invites, ProvisionLookup, InviteCheck, ProvisionCommit, CliKey

\* The calls that hold a code are finitely many.
LEMMA HoldingFinite ==
  ASSUME AccountsAssumption, NEW c
  PROVE  /\ IsFiniteSet(Holding(c)) /\ Cardinality(Holding(c)) \in Nat
         /\ IsFiniteSet(Holding(c)') /\ Cardinality(Holding(c)') \in Nat
<1>1. Holding(c) \in SUBSET Signups /\ Holding(c)' \in SUBSET Signups
  BY DEF Holding
<1>2. IsFiniteSet(Holding(c)) /\ IsFiniteSet(Holding(c)')
  BY <1>1, FS_Subset DEF AccountsAssumption
<1> QED BY <1>2, FS_CardinalityType

\* A step that lets nobody in and adds no holder of a code keeps the count.
LEMMA InviteKept ==
  ASSUME AccountsAssumption, TypeOK, InviteInv, NEW c \in Codes,
         code'[c] = code[c] \/ (code[c] = "absent" /\ code'[c] = "unused"),
         admitted'[c] = admitted[c], together'[c] >= together[c], together'[c] \in Nat,
         Holding(c)' \subseteq Holding(c)
  PROVE  /\ code'[c] # "used" => admitted'[c] = {}
         /\ IsFiniteSet(admitted'[c])
         /\ Cardinality(admitted'[c]) + Cardinality(Holding(c)') <= together'[c]
<1>1. Cardinality(Holding(c)') <= Cardinality(Holding(c))
  BY HoldingFinite, FS_Subset
<1>2. Cardinality(admitted[c]) \in Nat
  BY FS_CardinalityType DEF InviteInv
<1>3. Cardinality(admitted[c]) + Cardinality(Holding(c)) <= together[c]
  BY DEF InviteInv
<1>4. together[c] \in Nat
  BY DEF TypeOK
<1>5. Cardinality(admitted'[c]) + Cardinality(Holding(c)') <= together'[c]
  BY <1>1, <1>2, <1>3, <1>4, HoldingFinite
<1> QED BY <1>5 DEF InviteInv

LEMMA InviteStep ==
  ASSUME AccountsAssumption, TypeOK, SignupInv, InviteInv, SignUp
  PROVE  InviteInv'
<1> DEFINE Good(c) == /\ code'[c] # "used" => admitted'[c] = {}
                      /\ IsFiniteSet(admitted'[c])
                      /\ Cardinality(admitted'[c]) + Cardinality(Holding(c)') <= together'[c]
<1>0. SUFFICES ASSUME NEW c \in Codes PROVE Good(c)
  BY DEF InviteInv
<1>t. TypeOK'
  BY SignUpType
<1>1. ASSUME NEW d \in Codes, create_invites(d) PROVE Good(c)
  <2>1. Holding(c)' = Holding(c) /\ admitted' = admitted /\ together' = together
    BY <1>1 DEF create_invites, Holding
  <2>2. code'[c] = code[c] \/ (code[c] = "absent" /\ code'[c] = "unused")
    BY <1>1 DEF create_invites, TypeOK
  <2>3. together[c] \in Nat
    BY DEF TypeOK
  <2> QED BY <2>1, <2>2, <2>3, InviteKept
<1>2. ASSUME NEW p \in Signups, signup'[p].at # "create",
             \A o \in Signups : o # p => signup'[o] = signup[o],
             UNCHANGED <<code, admitted, together>>
      PROVE  Good(c)
  <2>1. Holding(c)' \subseteq Holding(c)
    BY <1>2 DEF Holding
  <2>2. together[c] \in Nat
    BY DEF TypeOK
  <2> QED BY <1>2, <2>1, <2>2, InviteKept
<1>3. ASSUME NEW p \in Signups, InviteCheck(p) PROVE Good(c)
  <2>1. /\ code' = code /\ admitted' = admitted
        /\ \A o \in Signups : o # p => signup'[o] = signup[o]
        /\ together'[c] = IF Cardinality(Holding(c)') > together[c]
                          THEN Cardinality(Holding(c)') ELSE together[c]
    BY <1>3 DEF InviteCheck, CountHolding, TypeOK
  <2>2. together[c] \in Nat /\ Cardinality(Holding(c)') \in Nat
    BY HoldingFinite DEF TypeOK
  <2>3. CASE Holding(c)' \subseteq Holding(c)
    BY <2>1, <2>2, <2>3, InviteKept
  <2>4. CASE ~(Holding(c)' \subseteq Holding(c))
    <3>1. signup'[p].at = "create" /\ signup'[p].code = c
      BY <2>1, <2>4 DEF Holding
    <3>2. signup'[p] = [signup[p] EXCEPT !.at = "create"] /\ code[signup[p].code] = "unused"
      BY <1>3, <3>1 DEF InviteCheck, Served, NoSignup, TypeOK
    <3>3. code[c] = "unused"
      BY <3>1, <3>2 DEF TypeOK, SignupRecords
    <3>4. admitted[c] = {} /\ Cardinality({}) = 0
      BY <3>3, FS_EmptySet DEF InviteInv
    <3>5. admitted'[c] = {}
      BY <2>1, <3>4
    <3>6. IsFiniteSet(admitted'[c]) /\ Cardinality(admitted'[c]) = 0
      BY <3>5, FS_EmptySet
    <3>7. Cardinality(Holding(c)') <= together'[c]
      BY <2>1, <2>2
    <3> QED BY <2>2, <3>5, <3>6, <3>7
  <2> QED BY <2>3, <2>4
<1>4. ASSUME NEW p \in Signups, ProvisionCommit(p, TRUE) PROVE Good(c)
  <2>1. /\ signup[p].at = "create" /\ signup'[p].at # "create"
        /\ \A o \in Signups : o # p => signup'[o] = signup[o]
        /\ signup[p].code \in Codes /\ together' = together
    BY <1>4 DEF ProvisionCommit, TypeOK, SignupRecords, SignupInv, Served, NoSignup
  <2>2. together[c] \in Nat
    BY DEF TypeOK
  <2>3. CASE signup[p].code # c
    <3>1. code'[c] = code[c] /\ admitted'[c] = admitted[c]
      BY <1>4, <2>1, <2>3 DEF ProvisionCommit, TypeOK
    <3>2. Holding(c)' \subseteq Holding(c)
      BY <2>1 DEF Holding
    <3> QED BY <2>1, <2>2, <3>1, <3>2, InviteKept
  <2>4. CASE signup[p].code = c
    <3>1. /\ code'[c] = "used"
          /\ \/ admitted'[c] = admitted[c]
             \/ admitted'[c] = admitted[c] \cup {signup[p].email}
      <4>1. {signup[p].email} \ Users = {} \/ {signup[p].email} \ Users = {signup[p].email}
        OBVIOUS
      <4>2. code'[c] = "used" /\ admitted'[c] = admitted[c] \cup ({signup[p].email} \ Users)
        BY <1>4, <2>1, <2>4 DEF ProvisionCommit, TypeOK
      <4> QED BY <4>1, <4>2
    <3>2. IsFiniteSet(admitted[c]) /\ Cardinality(admitted[c]) \in Nat
      BY FS_CardinalityType DEF InviteInv
    <3>3. /\ IsFiniteSet(admitted'[c]) /\ Cardinality(admitted'[c]) \in Nat
          /\ Cardinality(admitted'[c]) <= Cardinality(admitted[c]) + 1
      <4>1. CASE admitted'[c] = admitted[c]
        BY <3>2, <4>1
      <4>2. CASE admitted'[c] = admitted[c] \cup {signup[p].email}
        <5>1. /\ IsFiniteSet(admitted[c] \cup {signup[p].email})
              /\ Cardinality(admitted[c] \cup {signup[p].email})
                   = IF signup[p].email \in admitted[c] THEN Cardinality(admitted[c])
                                                       ELSE Cardinality(admitted[c]) + 1
          BY <3>2, FS_AddElement
        <5> QED BY <3>2, <4>2, <5>1
      <4> QED BY <3>1, <4>1, <4>2
    <3>4. p \in Holding(c) /\ Holding(c)' = Holding(c) \ {p}
      BY <2>1, <2>4 DEF Holding
    <3>5. Cardinality(Holding(c)') = Cardinality(Holding(c)) - 1
      BY <3>4, HoldingFinite, FS_RemoveElement
    <3>6. Cardinality(admitted[c]) + Cardinality(Holding(c)) <= together[c]
      BY DEF InviteInv
    <3>7. Cardinality(admitted'[c]) + Cardinality(Holding(c)') <= together'[c]
      BY <2>1, <2>2, <3>2, <3>3, <3>5, <3>6, HoldingFinite
    <3> QED BY <3>1, <3>3, <3>7
  <2> QED BY <2>3, <2>4
<1>5. ASSUME NEW p \in Signups, NEW e \in Emails, NEW n \in Names, NEW d \in Codes \cup {None},
             NEW cli \in BOOLEAN, ProvisionLookup(p, e, n, d, cli)
      PROVE  Good(c)
  <2>1. signup'[p].at # "create"
    BY <1>5 DEF ProvisionLookup, TypeOK, Served, NoSignup
  <2> QED BY <1>2, <1>5, <2>1 DEF ProvisionLookup, TypeOK
<1>6. ASSUME NEW p \in Signups, ProvisionCommit(p, FALSE) \/ \E ok \in BOOLEAN : CliKey(p, ok)
      PROVE  Good(c)
  <2>1. signup'[p].at # "create"
    BY <1>6 DEF ProvisionCommit, CliKey, TypeOK, Served, NoSignup
  <2> QED BY <1>2, <1>6, <2>1 DEF ProvisionCommit, CliKey, TypeOK
<1> HIDE DEF Good
<1>7. ASSUME NEW p \in Signups, NEW ok \in BOOLEAN, ProvisionCommit(p, ok) PROVE Good(c)
  <2>1. CASE ok = TRUE
    BY <1>4, <1>7, <2>1
  <2>2. CASE ok = FALSE
    BY <1>6, <1>7, <2>2
  <2> QED BY <2>1, <2>2
<1>8. ASSUME NEW p \in Signups, NEW ok \in BOOLEAN, CliKey(p, ok) PROVE Good(c)
  BY <1>6, <1>8
<1> QED BY <1>1, <1>3, <1>5, <1>7, <1>8 DEF SignUp

-----------------------------------------------------------------------------
(* Environment variables *)

LEMMA EnvironmentStep ==
  ASSUME AccountsAssumption, TypeOK, WriterInv, SerialPerPath, Environment
  PROVE  TypeOK' /\ WriterInv' /\ SerialPerPath'
<1> DEFINE EnvTypes == /\ vault' \in [Paths -> SUBSET Variables] /\ serial' \in [Paths -> SUBSET Variables]
                       /\ writer' \in [Writers -> WriterRecords] /\ overlap' \subseteq Paths
           Goal == EnvTypes /\ WriterInv' /\ SerialPerPath'
<1>0. UNCHANGED <<signupVars, key>>
  BY EnvironmentSteps
<1>1. SUFFICES Goal
  BY <1>0 DEF TypeOK, signupVars
<1>2. ASSUME NEW w \in Writers, NEW e \in Emails \cup {None}, NEW scope \in Scopes, Authenticate(w, e, scope)
      PROVE  Goal
  <2> DEFINE r == [NoWriter EXCEPT !.at = "handler", !.user = e, !.scope = scope]
  <2>1. r \in WriterRecords /\ r.at = "handler"
    BY WriterUpdates DEF NoWriter, TypeOK
  <2>2. writer' = [writer EXCEPT ![w] = r] /\ UNCHANGED <<vault, serial, overlap>>
    BY <1>2 DEF Authenticate
  <2> HIDE DEF r
  <2>3. EnvTypes
    BY <2>1, <2>2 DEF TypeOK
  <2>4. WriterInv'
    BY <2>1, <2>2 DEF WriterInv, TypeOK
  <2> QED BY <2>2, <2>3, <2>4 DEF SerialPerPath
<1>3. ASSUME NEW w \in Writers, NEW s \in Paths, NEW set \in BOOLEAN, NEW v \in Variables,
             NEW required \in Scopes, kv_get(w, s, set, {v}, required)
      PROVE  Goal
  <2>1. CASE writer' = [writer EXCEPT ![w] = NoWriter] /\ UNCHANGED <<vault, serial, overlap>>
    <3>1. NoWriter \in WriterRecords /\ NoWriter.at = "idle"
      BY WriterUpdates DEF NoWriter, TypeOK
    <3>2. WriterInv'
      BY <2>1, <3>1 DEF WriterInv, TypeOK
    <3> QED BY <2>1, <3>1, <3>2 DEF TypeOK, SerialPerPath
  <2>2. CASE require_scope(writer[w].scope, required) /\ resolve(writer[w].user)
    <3> DEFINE r == [writer[w] EXCEPT !.at = "store", !.path = s, !.set = set,
                                      !.names = {v}, !.read = vault[s]]
    <3>1. r \in WriterRecords /\ r.at = "store" /\ r.path = s /\ r.read = vault[s]
      <4>1. vault[s] \in SUBSET Variables /\ {v} \in SUBSET Variables /\ writer[w] \in WriterRecords
        BY DEF TypeOK
      <4>2. r \in WriterRecords
        BY <4>1, WriterUpdates
      <4> QED BY <4>1, <4>2 DEF WriterRecords
    <3>2. writer' = [writer EXCEPT ![w] = r] /\ vault' = vault
      BY <1>3, <2>2 DEF kv_get
    <3> HIDE DEF r
    <3>3. CASE \E o \in Writers : writer[o].at = "store" /\ writer[o].path = s
      <4>1. overlap' = overlap \cup {s} /\ serial' = [serial EXCEPT ![s] = {}]
        BY <1>3, <2>2, <3>3 DEF kv_get
      <4>2. WriterInv'
        BY <3>1, <3>2, <4>1 DEF WriterInv, TypeOK
      <4> QED BY <3>1, <3>2, <4>1, <4>2 DEF TypeOK, SerialPerPath
    <3>4. CASE ~ \E o \in Writers : writer[o].at = "store" /\ writer[o].path = s
      <4>1. UNCHANGED <<overlap, serial>>
        BY <1>3, <2>2, <3>4 DEF kv_get
      <4>2. WriterInv'
        BY <3>1, <3>2, <3>4, <4>1 DEF WriterInv, TypeOK
      <4> QED BY <3>1, <3>2, <4>1, <4>2 DEF TypeOK, SerialPerPath
    <3> QED BY <3>3, <3>4
  <2> QED BY <1>3, <2>1, <2>2 DEF kv_get
<1>4. ASSUME NEW w \in Writers, NEW applied \in BOOLEAN, kv_put(w, applied)
      PROVE  Goal
  <2> DEFINE r == writer[w]
             s == r.path
  <2>1. /\ r.at = "store" /\ s \in Paths /\ overlap' = overlap
        /\ writer' = [writer EXCEPT ![w] = NoWriter]
    BY <1>4 DEF kv_put, WriterInv
  <2>2. NoWriter \in WriterRecords /\ NoWriter.at = "idle" /\ r.names \subseteq Variables
        /\ r.read \subseteq Variables
    BY WriterUpdates DEF NoWriter, TypeOK
  <2>3. \A o \in Writers : o # w => writer'[o] = writer[o]
    BY <2>1 DEF TypeOK
  <2>4. writer'[w].at = "idle"
    BY <2>1, <2>2 DEF TypeOK
  <2>5. CASE ~applied
    <3>1. vault' = vault /\ serial' = serial
      BY <1>4, <2>5 DEF kv_put
    <3>2. WriterInv'
      BY <2>1, <2>3, <2>4, <3>1 DEF WriterInv
    <3> QED BY <2>1, <2>2, <3>1, <3>2 DEF TypeOK, SerialPerPath
  <2>6. CASE applied
    <3>1. /\ vault' = [vault EXCEPT ![s] = Merged(r.read, r)]
          /\ serial' = IF s \notin overlap THEN [serial EXCEPT ![s] = Changed(@, r)] ELSE serial
      BY <1>4, <2>6 DEF kv_put
    <3>2. Merged(r.read, r) \subseteq Variables
      BY <2>2 DEF Merged
    <3>3. vault' \in [Paths -> SUBSET Variables]
      BY <2>1, <3>1, <3>2 DEF TypeOK
    <3>4. serial' \in [Paths -> SUBSET Variables]
      <4>1. serial[s] \subseteq Variables
        BY <2>1 DEF TypeOK
      <4>2. Changed(serial[s], r) \subseteq Variables
        BY <2>2, <4>1 DEF Changed
      <4> QED BY <2>1, <3>1, <4>2 DEF TypeOK
    <3>5. WriterInv'
      <4>1. SUFFICES ASSUME NEW o \in Writers, writer'[o].at = "store"
                     PROVE  /\ writer'[o].path \in Paths
                            /\ writer'[o].path \notin overlap' =>
                                 /\ writer'[o].read = vault'[writer'[o].path]
                                 /\ \A u \in Writers : writer'[u].at = "store" /\ writer'[u].path = writer'[o].path
                                                      => u = o
        BY DEF WriterInv
      <4>2. o # w /\ writer'[o] = writer[o]
        BY <2>3, <2>4, <4>1
      <4>3. writer[o].path \in Paths
        BY <4>1, <4>2 DEF WriterInv
      <4>4. ASSUME writer[o].path \notin overlap
            PROVE  /\ writer[o].read = vault'[writer[o].path]
                   /\ \A u \in Writers : writer'[u].at = "store" /\ writer'[u].path = writer[o].path => u = o
        <5>1. writer[o].path # s
          BY <2>1, <4>1, <4>2, <4>4 DEF WriterInv
        <5>2. vault'[writer[o].path] = vault[writer[o].path]
          BY <3>1, <4>3, <5>1 DEF TypeOK
        <5> QED BY <2>3, <2>4, <4>1, <4>2, <4>4, <5>2 DEF WriterInv
      <4> QED BY <2>1, <4>2, <4>3, <4>4
    <3>6. SerialPerPath'
      <4>1. SUFFICES ASSUME NEW q \in Paths, q \notin overlap PROVE vault'[q] = serial'[q]
        BY <2>1 DEF SerialPerPath
      <4>2. vault[q] = serial[q]
        BY <4>1 DEF SerialPerPath
      <4>3. CASE q # s
        BY <3>1, <4>2, <4>3 DEF TypeOK
      <4>4. CASE q = s
        <5>1. r.read = vault[s]
          BY <2>1, <4>1, <4>4 DEF WriterInv
        <5>2. vault'[s] = Merged(vault[s], r) /\ serial'[s] = Changed(serial[s], r)
          BY <2>1, <3>1, <4>1, <4>4, <5>1 DEF TypeOK
        <5> QED BY <4>2, <4>4, <5>2 DEF Merged, Changed
      <4> QED BY <4>3, <4>4
    <3> QED BY <2>1, <2>2, <3>3, <3>4, <3>5, <3>6 DEF TypeOK
  <2> QED BY <2>5, <2>6
<1> HIDE DEF Goal
<1> QED BY <1>2, <1>3, <1>4, EnvironmentSteps

-----------------------------------------------------------------------------
(* The theorems *)

LEMMA InitLemma ==
  ASSUME AccountsAssumption, Init
  PROVE  IInv
<1> USE DEF Init
<1>1. NoSignup \in SignupRecords /\ NoKey \in KeyRecords /\ NoWriter \in WriterRecords
  BY DEF NoSignup, SignupRecords, NoKey, KeyRecords, NoWriter, WriterRecords, Scopes
<1>2. TypeOK
  BY <1>1 DEF TypeOK
<1>3. SignupInv /\ WorkspacePerName
  BY DEF SignupInv, WorkspacePerName, Users, NoSignup
<1>4. InviteInv
  <2>1. \A c \in Codes : Holding(c) = {} /\ admitted[c] = {} /\ together[c] = 0
    BY DEF Holding, NoSignup
  <2>2. ASSUME NEW c \in Codes
        PROVE  /\ IsFiniteSet(admitted[c]) /\ Cardinality(admitted[c]) = 0
               /\ Cardinality(Holding(c)) = 0
    BY <2>1, FS_EmptySet
  <2> QED BY <2>1, <2>2 DEF InviteInv
<1>5. WriterInv /\ SerialPerPath
  BY DEF WriterInv, SerialPerPath, NoWriter
<1> QED BY <1>2, <1>3, <1>4, <1>5 DEF IInv

LEMMA Inductive ==
  ASSUME AccountsAssumption, IInv, [Next]_vars
  PROVE  IInv'
<1>1. CASE SignUp
  <2>1. UNCHANGED envVars
    BY <1>1 DEF SignUp, create_invites, ProvisionLookup, InviteCheck, ProvisionCommit, CliKey
  <2>2. WriterInv' /\ SerialPerPath'
    BY <2>1 DEF IInv, envVars, WriterInv, SerialPerPath
  <2> QED BY <1>1, <2>2, SignUpType, SignupStep, WorkspaceStep, InviteStep DEF IInv
<1>2. ASSUME UNCHANGED signupVars PROVE SignupInv' /\ WorkspacePerName' /\ InviteInv'
  BY <1>2 DEF IInv, signupVars, SignupInv, WorkspacePerName, Users, InviteInv, Holding
<1>3. CASE ApiKeys
  <2>1. TypeOK' /\ UNCHANGED <<signupVars, envVars>>
    BY <1>3, ApiKeysType DEF IInv
  <2>2. WriterInv' /\ SerialPerPath'
    BY <2>1 DEF IInv, envVars, WriterInv, SerialPerPath
  <2> QED BY <1>2, <2>1, <2>2 DEF IInv
<1>4. CASE Environment
  <2>1. TypeOK' /\ WriterInv' /\ SerialPerPath' /\ UNCHANGED signupVars
    BY <1>4, EnvironmentStep, EnvironmentSteps DEF IInv
  <2> QED BY <1>2, <2>1 DEF IInv
<1>5. CASE UNCHANGED vars
  <2>1. UNCHANGED <<signupVars, key, envVars>>
    BY <1>5 DEF vars
  <2>2. TypeOK' /\ WriterInv' /\ SerialPerPath'
    BY <2>1 DEF IInv, signupVars, envVars, TypeOK, WriterInv, SerialPerPath
  <2> QED BY <1>2, <2>1, <2>2 DEF IInv
<1> QED BY <1>1, <1>3, <1>4, <1>5 DEF Next

\* What sign-up, the keys and the variables keep stays within its types.
THEOREM AccountsTypeOK == Spec => []TypeOK
<1>1. Init => IInv
  BY InitLemma, AccountsAssumption
<1>2. IInv /\ [Next]_vars => IInv'
  BY Inductive, AccountsAssumption
<1>3. IInv => TypeOK
  BY DEF IInv
<1> QED BY <1>1, <1>2, <1>3, PTL DEF Spec

\* First sign-ins of one person, however many at once, all end on one user row, and
\* every workspace they make carries its id.
THEOREM SignInsAgree == Spec => []WorkspacePerName
<1>1. Init => IInv
  BY InitLemma, AccountsAssumption
<1>2. IInv /\ [Next]_vars => IInv'
  BY Inductive, AccountsAssumption
<1>3. IInv => WorkspacePerName
  BY DEF IInv
<1> QED BY <1>1, <1>2, <1>3, PTL DEF Spec

\* An invite lets in at most as many people as held it at the same time: reuse
\* needs calls that overlap between do_provision's check and its transaction.
THEOREM InviteBound == Spec => []AdmittedTogether
<1>1. Init => IInv
  BY InitLemma, AccountsAssumption
<1>2. IInv /\ [Next]_vars => IInv'
  BY Inductive, AccountsAssumption
<1>3. IInv => AdmittedTogether
  <2>1. ASSUME IInv, NEW c \in Codes PROVE Cardinality(admitted[c]) <= together[c]
    <3>1. Cardinality(admitted[c]) \in Nat
      BY <2>1, FS_CardinalityType DEF IInv, InviteInv
    <3>2. Cardinality(Holding(c)) \in Nat
      BY HoldingFinite, AccountsAssumption
    <3> QED BY <2>1, <3>1, <3>2 DEF IInv, InviteInv, TypeOK
  <2> QED BY <2>1 DEF AdmittedTogether
<1> QED BY <1>1, <1>2, <1>3, PTL DEF Spec

\* A path whose changes never overlapped holds what they say one after the other:
\* read-merge-write without a version loses updates by overlap and by nothing else.
THEOREM SerialChanges == Spec => []SerialPerPath
<1>1. Init => IInv
  BY InitLemma, AccountsAssumption
<1>2. IInv /\ [Next]_vars => IInv'
  BY Inductive, AccountsAssumption
<1>3. IInv => SerialPerPath
  BY DEF IInv
<1> QED BY <1>1, <1>2, <1>3, PTL DEF Spec
=============================================================================
