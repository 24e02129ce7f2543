------------------------------- MODULE Access -------------------------------
(***************************************************************************)
(* Who may do what: the API's logins and bearer tokens (sigil-api auth.rs) *)
(* and the enrollment tokens of agents (sigil-edr tokens.rs), over edits   *)
(* of the configuration and restarts of the node.                          *)
(*                                                                         *)
(* AuthState is built when the node starts: an edit of the configuration   *)
(* changes nothing before the next start.  A bearer token carries the      *)
(* roles its user had at the login and is verified against the signing key *)
(* alone.  Enrollment tokens are saved objects, so the routes for saved    *)
(* objects reach them too.  Passwords are right or wrong; a key is the     *)
(* secret of the configuration, or the number of the life of the node that *)
(* drew a random one.                                                      *)
(***************************************************************************)
EXTENDS Integers, FiniteSets

CONSTANTS
    User,           \* user names
    AuthConfigs,    \* the auth and edr blocks the configuration may hold
    NoSecret,       \* the empty jwt_secret
    SeedToken,      \* enrollment tokens a configuration or a user may name
    MintToken,      \* ids that Ulid::new may draw
    Ttl, Leeway,    \* token_ttl_secs, and the leeway of the JWT library
    MaxNow, MaxLife, MaxJwts, MaxEnroll     \* bounds: clock, starts, logins, agents

ASSUME AccessAssumption ==
    /\ SeedToken \cap MintToken = {}
    /\ Ttl \in Nat /\ Leeway \in Nat /\ MaxNow \in Nat /\ MaxLife \in Nat
    /\ MaxJwts \in Nat /\ MaxEnroll \in Nat

VARIABLES
    written,    \* the configuration file
    auth,       \* AuthState: the block the node started with, and its key
    life,       \* starts of the node
    now,        \* the clock
    jwts,       \* bearer tokens handed out
    tokens,     \* the edr-token objects of the store
    agents,     \* enrolled agents
    drawn,      \* ids that were drawn
    \* History, read by no guard:
    held        \* held[<<u, r>>]: when the running node last granted u the role r, or -1

accessVars == <<written, auth, life, now, jwts, tokens, agents, drawn, held>>

\* Role: ordered by privilege.  Role::parse drops a word it does not know.
Role == {"viewer", "analyst", "admin"}
Privilege(r) == CASE r = "viewer" -> 1 [] r = "analyst" -> 2 [] r = "admin" -> 3
ParsedRoles(words) == words \cap Role

\* Mutant: privilege compared the wrong way round.
HasLess(roles, role) == \E r \in roles : Privilege(r) <= Privilege(role)

\* AuthUser::has
Has(roles, role) == \E r \in roles : Privilege(r) >= Privilege(role)

\* AuthState::from_config: without a secret, a random one for this life.
FromConfig(c, n) == [block |-> c, key |-> IF c.secret = NoSecret THEN [life |-> n] ELSE [secret |-> c.secret]]

\* What the running block grants, noted at the present time: a role comes with
\* each of those named for it here.
GrantedBy == [viewer |-> Role, analyst |-> {"analyst", "admin"}, admin |-> {"admin"}]
Noted(h, c, t) ==
    [p \in User \X Role |->
        IF p[1] \in DOMAIN c.users /\ c.users[p[1]] \cap GrantedBy[p[2]] # {} THEN t ELSE h[p]]

\* TokenStore::seed: the configured tokens that are not there are stored.
Seeded(c, s) == s \cup c.tokens

AccessInit ==
    /\ written \in AuthConfigs
    /\ life = 1 /\ now = 0 /\ jwts = {} /\ agents = {}
    /\ auth = FromConfig(written, 1)
    /\ tokens = Seeded(written, {})
    /\ held = Noted([p \in User \X Role |-> -1], written, 0)
    /\ drawn = {}

---------------------------------------------------------------------------
(* Logins and requests; a handler that only reads changes nothing          *)

\* login_handler: authenticate, then issue.  The password is the right one.
Login(u) ==
    /\ u \in DOMAIN auth.block.users /\ Cardinality(jwts) < MaxJwts
    /\ jwts' = jwts \cup {[sub |-> u, roles |-> ParsedRoles(auth.block.users[u]), exp |-> now + Ttl,
                           key |-> auth.key]}
    /\ UNCHANGED <<written, auth, life, now, tokens, agents, drawn, held>>

\* Mutants: the expiry is not checked; the key is not.
VerifyForever(j) == j.key = auth.key
VerifyUnsigned(j) == now <= j.exp + Leeway

\* AuthState::verify: the signature and the expiry, with the library's leeway;
\* nothing else is looked up.
Verify(j) == j.key = auth.key /\ now <= j.exp + Leeway

\* require_auth and require: the principals that a request asking for role may
\* run as.  Without auth everyone is `system`, an admin.
Principal(role) ==
    IF ~auth.block.enabled THEN {[sub |-> "system", roles |-> {"admin"}, exp |-> now, key |-> auth.key]}
    ELSE {j \in jwts : Verify(j) /\ Has(j.roles, role)}

\* Someone may ask for it.
Allowed(role) == Principal(role) # {}

\* edr_token_create: TokenStore::issue draws a token nobody has.
TokenCreate(t) ==
    /\ t \notin drawn
    /\ Allowed("admin")
    /\ tokens' = tokens \cup {t}
    /\ drawn' = drawn \cup {t}
    /\ UNCHANGED <<written, auth, life, now, jwts, agents, held>>

\* saved_create with the kind of the enrollment tokens: an analyst suffices,
\* and TokenStore::valid takes whatever object has that kind and id.
SavedCreate(t) ==
    /\ t \notin drawn
    /\ Allowed("analyst")
    /\ tokens' = tokens \cup {t}
    /\ drawn' = drawn \cup {t}
    /\ UNCHANGED <<written, auth, life, now, jwts, agents, held>>

\* saved_update puts the object under the id of the path, whether there was
\* one or not: an id of the user's choice, or one that was deleted.
SavedUpdate(t) ==
    /\ Allowed("analyst")
    /\ tokens' = tokens \cup {t}
    /\ UNCHANGED <<written, auth, life, now, jwts, agents, drawn, held>>

\* saved_delete, the same; nothing else revokes a token.
SavedDelete(t) ==
    /\ t \in tokens
    /\ Allowed("analyst")
    /\ tokens' = tokens \ {t}
    /\ UNCHANGED <<written, auth, life, now, jwts, agents, drawn, held>>

\* config_put writes the file, for the next start.
PutConfig(c) ==
    /\ c # written
    /\ Allowed("admin")
    /\ written' = c
    /\ UNCHANGED <<auth, life, now, jwts, tokens, agents, drawn, held>>

---------------------------------------------------------------------------
(* Agents                                                                  *)

\* AgentGateway::enroll: a token that the store has; the same token serves
\* again, and a host that enrolls twice is two agents.
Enroll(t) ==
    /\ t \in tokens /\ Cardinality(agents) < MaxEnroll
    /\ agents' = agents \cup {[id |-> Cardinality(agents) + 1, token |-> t]}
    /\ UNCHANGED <<written, auth, life, now, jwts, tokens, drawn, held>>

---------------------------------------------------------------------------
(* Time and the life of the node                                           *)

Tick ==
    /\ now < MaxNow
    /\ now' = now + 1
    /\ held' = Noted(held, auth.block, now + 1)
    /\ UNCHANGED <<written, auth, life, jwts, tokens, agents, drawn>>

\* The node starts again: EdrState::new seeds, from_config reads the file.
AccessRestart ==
    /\ life < MaxLife
    /\ life' = life + 1
    /\ auth' = FromConfig(written, life + 1)
    /\ tokens' = Seeded(written, tokens)
    /\ held' = Noted(held, written, now)
    /\ UNCHANGED <<written, now, jwts, agents, drawn>>

AccessNext ==
    \/ \E u \in User : Login(u)
    \/ \E t \in MintToken : TokenCreate(t) \/ SavedCreate(t)
    \/ \E t \in SeedToken \cup drawn : SavedUpdate(t)
    \/ \E t \in tokens : SavedDelete(t)
    \/ \E c \in AuthConfigs : PutConfig(c)
    \/ \E t \in tokens : Enroll(t)
    \/ Tick \/ AccessRestart

AccessSpec == AccessInit /\ [][AccessNext]_accessVars

---------------------------------------------------------------------------
(* Properties                                                              *)

\* Whoever a node that authenticates lets in holds a token of its running key,
\* and was granted the role by a configuration the node ran with at most a
\* token's lifetime and the leeway ago: however configurations, secrets, logins
\* and restarts follow each other, a role that was taken away runs out.
RolesRunOut ==
    auth.block.enabled =>
        \A r \in Role : \A j \in Principal(r) :
            /\ j.key = auth.key
            /\ held[<<j.sub, r>>] >= 0 /\ now <= held[<<j.sub, r>>] + Ttl + Leeway
=============================================================================
