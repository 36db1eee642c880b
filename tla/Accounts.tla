-------------------------------- MODULE Accounts --------------------------------
(***************************************************************************)
(* Users, organizations, Google sign-in and e-mailed one-use links: api/auth, *)
(* api/oauth, api/admin and api/organizations over their DAOs.                *)
(*                                                                          *)
(* A user is named by the e-mail address, which is unique.  Neither users nor *)
(* organizations are ever deleted.  A larger id is a newer link.              *)
(***************************************************************************)
EXTENDS Requests, TLC

CONSTANTS
    Email,      \* e-mail addresses: the ids of users
    Subject     \* Google accounts

ASSUME IdAssumption == MaxId \in Nat

-------------------------------------------------------------------------------
(* Tables *)

Role == {"ADMIN", "CLIENT"}
TokenType == {"email_verification", "password_reset"}

\* password: None for users made by Google sign-in, 0 for one chosen when the user
\* was created, otherwise the link it was set through.
User ==
    [org : 1..MaxId, role : Role, active : BOOLEAN, verified : BOOLEAN,
     password : (0..MaxId) \cup {None}]
Organization == [active : BOOLEAN]
VerificationToken == [user : Email, type : TokenType, used : BOOLEAN, expired : BOOLEAN]
OAuthAccount == [subject : Subject, user : Email]

NewUser(org, role, verified, password) ==
    [org |-> org, role |-> role, active |-> TRUE, verified |-> verified,
     password |-> password]

Exists(u) == u \in DOMAIN db.users
Active(u) == Exists(u) /\ db.users[u].active                  \* get_current_user
Admin(u) == Active(u) /\ db.users[u].role = "ADMIN"           \* require_role("ADMIN")

-------------------------------------------------------------------------------
(* Registration and administration *)

\* A new organization's first user is its admin; nobody else is in it yet.
RegisterFounder(w, u) ==
    /\ ~Exists(u)
    /\ HoldNew(w, [orgs |-> Each({seq}, Insert([active |-> TRUE])),
                   users |-> Each({u}, Insert(NewUser(seq, "ADMIN", FALSE, 0)))])

RegisterMember_AnyOrg(w, u, o) ==    \* mutant: the organization is not looked up
    /\ ~Exists(u)
    /\ Hold(w, [users |-> Each({u}, Insert(NewUser(o, "CLIENT", FALSE, 0)))])
\* Joining does not look at the organization's is_active.
RegisterMember(w, u, o) ==
    /\ ~Exists(u) /\ o \in DOMAIN db.orgs
    /\ Hold(w, [users |-> Each({u}, Insert(NewUser(o, "CLIENT", FALSE, 0)))])

CreateOrganization(w, a) ==
    /\ Admin(a)
    /\ HoldNew(w, [orgs |-> Each({seq}, Insert([active |-> TRUE]))])

CreateUser(w, a, u, o, role) ==
    /\ Admin(a) /\ ~Exists(u) /\ o \in DOMAIN db.orgs
    /\ Hold(w, [users |-> Each({u}, Insert(NewUser(o, role, TRUE, 0)))])

ChangeRole(w, a, u, role) ==
    /\ Admin(a) /\ Exists(u) /\ role # db.users[u].role
    /\ Hold(w, [users |-> Each({u}, Update([role |-> role]))])

SetActive(w, a, u, active) ==
    /\ Admin(a) /\ Exists(u) /\ active # db.users[u].active
    /\ Hold(w, [users |-> Each({u}, Update([active |-> active]))])

DeactivateUser(w, a, u) ==
    /\ Admin(a) /\ Exists(u) /\ u # a
    /\ Hold(w, [users |-> Each({u}, Update([active |-> FALSE]))])

SetOrganizationActive(w, a, o, active) ==
    /\ Admin(a) /\ o \in DOMAIN db.orgs /\ active # db.orgs[o].active
    /\ Hold(w, [orgs |-> Each({o}, Update([active |-> active]))])

\* The users found active are deactivated with their organization ...
SuspendOrganization(w, a, o) ==
    /\ Admin(a) /\ o \in DOMAIN db.orgs
    /\ LET users == {u \in DOMAIN db.users : db.users[u].org = o /\ db.users[u].active}
       IN  Hold(w, [orgs |-> Each({o}, Update([active |-> FALSE])),
                    users |-> Each(users, Update([active |-> FALSE]))])

\* ... and not activated with it.
ActivateOrganization(w, a, o) ==
    /\ Admin(a) /\ o \in DOMAIN db.orgs
    /\ Hold(w, [orgs |-> Each({o}, Update([active |-> TRUE]))])

-------------------------------------------------------------------------------
(* E-mailed links *)

Unused(u, type) ==
    {t \in DOMAIN db.tokens : LET k == db.tokens[t] IN
        k.user = u /\ k.type = type /\ ~k.used}

NewToken_KeepsOld(u, type) ==        \* mutant: earlier links are not invalidated
    Each({seq}, Insert([user |-> u, type |-> type, used |-> FALSE, expired |-> FALSE]))
\* create_verification_token invalidates the earlier unused links of that kind.
NewToken(u, type) ==
    Both(Each(Unused(u, type), Update([used |-> TRUE])),
         Each({seq}, Insert([user |-> u, type |-> type, used |-> FALSE, expired |-> FALSE])))

SendVerificationEmail(w, u) ==
    /\ Active(u) /\ ~db.users[u].verified
    /\ HoldNew(w, [tokens |-> NewToken(u, "email_verification")])

ForgotPassword(w, u) ==
    /\ Active(u)
    /\ HoldNew(w, [tokens |-> NewToken(u, "password_reset")])

Consumable_Used(t, type) ==          \* mutant: used_at is not looked at
    t \in DOMAIN db.tokens /\ db.tokens[t].type = type /\ ~db.tokens[t].expired
\* validate_and_consume_token
Consumable(t, type) ==
    /\ t \in DOMAIN db.tokens /\ db.tokens[t].type = type
    /\ ~db.tokens[t].expired /\ ~db.tokens[t].used

Consumed(t) == Each({t}, Update([used |-> TRUE]))

VerifyEmail(w, t) ==
    /\ Consumable(t, "email_verification")
    /\ Hold(w, [tokens |-> Consumed(t),
                users |-> Each({db.tokens[t].user}, Update([verified |-> TRUE]))])

ResetPassword(w, t) ==
    /\ Consumable(t, "password_reset")
    /\ Hold(w, [tokens |-> Consumed(t),
                users |-> Each({db.tokens[t].user}, Update([password |-> t]))])

\* Time passes: an hour for reset links, a day for the others.
ExpireToken(t) ==
    /\ t \in DOMAIN db.tokens /\ ~db.tokens[t].expired
    /\ db' = [db EXCEPT !.tokens[t].expired = TRUE]
    /\ UNCHANGED <<seq, req>>

-------------------------------------------------------------------------------
(* Google sign-in *)

Linked(u) == {i \in DOMAIN db.google : db.google[i].user = u}
Known(g) == \E i \in DOMAIN db.google : db.google[i].subject = g

NewAccount(g, u) == Each({seq}, Insert([subject |-> g, user |-> u]))

\* A Google account that is not linked yet is linked to the user of its address ...
GoogleSignIn(w, g, u) ==
    /\ ~Known(g) /\ Exists(u)
    /\ HoldNew(w, [google |-> NewAccount(g, u)])

\* ... or to a new user, without a password, of a new organization.
GoogleRegister(w, g, u) ==
    /\ ~Known(g) /\ ~Exists(u)
    /\ HoldNew(w, [orgs |-> Each({seq}, Insert([active |-> TRUE])),
                   users |-> Each({u}, Insert(NewUser(seq, "ADMIN", FALSE, None))),
                   google |-> NewAccount(g, u)])

LinkGoogle(w, g, u) ==
    /\ Exists(u) /\ Linked(u) = {} /\ ~Known(g)
    /\ HoldNew(w, [google |-> NewAccount(g, u)])

CanUnlink_Any(u) == TRUE             \* mutant: the only login method may be unlinked
CanUnlink(u) == db.users[u].password # None \/ Cardinality(Linked(u)) > 1

\* get_by_user_and_provider raises for a user with two Google accounts.
UnlinkGoogle(w, u) ==
    /\ Active(u) /\ Cardinality(Linked(u)) = 1 /\ CanUnlink(u)
    /\ Hold(w, [google |-> Each(Linked(u), Delete)])

\* (provider, provider_user_id) is unique.
CommitUnique(w) ==
    /\ Commit(w)
    /\ \A i, j \in DOMAIN db'.google :
           db'.google[i].subject = db'.google[j].subject => i = j

-------------------------------------------------------------------------------
Init == Start({"users", "orgs", "tokens", "google"})

Administer(w) ==
    \E a \in Email :
        \/ CreateOrganization(w, a)
        \/ \E u \in Email : DeactivateUser(w, a, u)
        \/ \E u \in Email, o \in 1..MaxId, role \in Role : CreateUser(w, a, u, o, role)
        \/ \E u \in Email, role \in Role : ChangeRole(w, a, u, role)
        \/ \E u \in Email, active \in BOOLEAN : SetActive(w, a, u, active)
        \/ \E o \in 1..MaxId, active \in BOOLEAN : SetOrganizationActive(w, a, o, active)
        \/ \E o \in 1..MaxId : SuspendOrganization(w, a, o) \/ ActivateOrganization(w, a, o)

Register(w) ==
    \E u \in Email :
        \/ RegisterFounder(w, u)
        \/ \E o \in 1..MaxId : RegisterMember(w, u, o)

UseGoogle(w) ==
    \E u \in Email :
        \/ \E g \in Subject : GoogleSignIn(w, g, u) \/ GoogleRegister(w, g, u) \/ LinkGoogle(w, g, u)
        \/ UnlinkGoogle(w, u)

UseLinks(w) ==
    \/ \E u \in Email : SendVerificationEmail(w, u) \/ ForgotPassword(w, u)
    \/ \E t \in 1..MaxId : VerifyEmail(w, t) \/ ResetPassword(w, t)

Finish(w) == CommitUnique(w) \/ Rollback(w)

Next ==
    \/ \E w \in Worker :
        Register(w) \/ Administer(w) \/ UseGoogle(w) \/ UseLinks(w) \/ Finish(w)
    \/ \E t \in 1..MaxId : ExpireToken(t)

Spec == Init /\ [][Next]_dbvars

-------------------------------------------------------------------------------
(* Properties *)

IsTable(rows, ids, row) == DOMAIN rows \subseteq ids /\ \A i \in DOMAIN rows : rows[i] \in row

\* Rows have their column types, and refer to rows that exist.
TypeOK ==
    /\ IsTable(db.users, Email, User) /\ IsTable(db.orgs, 1..MaxId, Organization)
    /\ IsTable(db.tokens, 1..MaxId, VerificationToken) /\ IsTable(db.google, 1..MaxId, OAuthAccount)
    /\ \A u \in DOMAIN db.users : db.users[u].org \in DOMAIN db.orgs
    /\ \A t \in DOMAIN db.tokens : Exists(db.tokens[t].user)
    /\ \A g \in DOMAIN db.google : Exists(db.google[g].user)
    /\ seq \in 1..MaxId + 1

\* Whatever requests overlap, every user can sign in some way: with a password, or
\* through a linked Google account (OAuthService.unlink_account).
HasLoginMethod == \A u \in DOMAIN db.users : db.users[u].password # None \/ Linked(u) # {}

\* A password that changes is set through the newest link sent to that user, which
\* was unused until then (create_verification_token, validate_and_consume_token).
SetThroughNewestLink ==
    \A u \in DOMAIN db.users :
        LET t == db'.users[u].password IN
        t # db.users[u].password =>
            /\ ~db.tokens[t].used /\ db'.tokens[t].used
            /\ \A k \in DOMAIN db.tokens :
                   db.tokens[k].user = u /\ db.tokens[k].type = "password_reset" => k <= t
===============================================================================
