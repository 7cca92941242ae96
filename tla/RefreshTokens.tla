--------------------------- MODULE RefreshTokens ---------------------------
(***************************************************************************)
(* Sessions (api/auth.rs): a login starts a family of refresh tokens, and  *)
(* each refresh revokes a token and adds its successor to the family, in   *)
(* statements of their own.  A token is the number of its jti; a family    *)
(* has the number of its first token.                                      *)
(***************************************************************************)
EXTENDS Naturals, FiniteSets

CONSTANTS
    Users,
    Refreshes,  \* calls of refresh under way at once
    MaxTokens   \* bound: tokens minted

NoUser == "nobody"

ASSUME TokenAssumption == MaxTokens \in Nat /\ NoUser \notin Users

Tokens == 1..MaxTokens

VARIABLES
    users,      \* rows of the table users
    minted,     \* tokens so far
    owner,      \* user_id of a token
    family,     \* family_id of a token
    parent,     \* the token that was given for it; 0 for a login
    row,        \* the row of a token: "none", "live", "revoked" or "gone"
    refresh,    \* what each call of refresh is about to do
    claims      \* the token it was given

tokenVars == <<minted, owner, family, parent, row>>
refreshVars == <<refresh, claims>>
sessionVars == <<users, tokenVars, refreshVars>>

SessionInit ==
    /\ users = {}
    /\ minted = 0
    /\ owner = [t \in Tokens |-> NoUser]
    /\ family = [t \in Tokens |-> 0]
    /\ parent = [t \in Tokens |-> 0]
    /\ row = [t \in Tokens |-> "none"]
    /\ refresh = [r \in Refreshes |-> "idle"]
    /\ claims = [r \in Refreshes |-> 0]

\* create_refresh_token and the INSERT of its row.
Mint(u, first, from) ==
    /\ minted < MaxTokens
    /\ minted' = minted + 1
    /\ owner' = [owner EXCEPT ![minted + 1] = u]
    /\ family' = [family EXCEPT ![minted + 1] = first]
    /\ parent' = [parent EXCEPT ![minted + 1] = from]
    /\ row' = [row EXCEPT ![minted + 1] = "live"]

\* UPDATE .. WHERE family_id = f
RevokeAll(f) ==
    row' = [t \in Tokens |->
               IF family[t] = f /\ row[t] = "live" THEN "revoked" ELSE row[t]]

RevokeOne(t) ==
    row' = [row EXCEPT ![t] = IF @ = "live" THEN "revoked" ELSE @]

-----------------------------------------------------------------------------
\* register: the user's row, and then that of the first token, which may fail.
\* The id is a new one, also for an address that was deleted.
Register(u) ==
    /\ u \notin users
    /\ \A t \in Tokens : owner[t] # u
    /\ users' = users \cup {u}
    /\ Mint(u, minted + 1, 0) \/ UNCHANGED tokenVars
    /\ UNCHANGED refreshVars

Login(u) ==
    /\ u \in users
    /\ Mint(u, minted + 1, 0)
    /\ UNCHANGED <<users, refreshVars>>

Proceeds(r, what) ==
    /\ refresh' = [refresh EXCEPT ![r] = what]
    /\ UNCHANGED claims

Answers(r) ==
    /\ refresh' = [refresh EXCEPT ![r] = "idle"]
    /\ claims' = [claims EXCEPT ![r] = 0]

\* Mutant: the token's row is only looked up.
LookUpAnyToken(r, t) ==
    /\ refresh[r] = "idle"
    /\ t <= minted
    /\ claims' = [claims EXCEPT ![r] = t]
    /\ refresh' = [refresh EXCEPT ![r] = IF row[t] = "gone" THEN "punish" ELSE "revoke"]
    /\ UNCHANGED <<users, tokenVars>>

\* refresh, with any token there ever was; the row lock of SELECT .. FOR UPDATE
\* is gone with the statement.
LookUpToken(r, t) ==
    /\ refresh[r] = "idle"
    /\ t <= minted
    /\ claims' = [claims EXCEPT ![r] = t]
    /\ refresh' = [refresh EXCEPT ![r] = IF row[t] = "live" THEN "revoke" ELSE "punish"]
    /\ UNCHANGED <<users, tokenVars>>

\* A token that is revoked or unknown ends its whole family, if that UPDATE
\* succeeds.
RevokeFamily(r) ==
    /\ refresh[r] = "punish"
    /\ Answers(r)
    /\ RevokeAll(family[claims[r]]) \/ UNCHANGED row
    /\ UNCHANGED <<users, minted, owner, family, parent>>

\* Mutant: the error of the UPDATE is ignored here, too.
RevokeIfPossible(r) ==
    /\ refresh[r] = "revoke"
    /\ Proceeds(r, "insert")
    /\ RevokeOne(claims[r]) \/ UNCHANGED row
    /\ UNCHANGED <<users, minted, owner, family, parent>>

\* The token is revoked before its successor exists; an error ends the request.
RevokeToken(r) ==
    /\ refresh[r] = "revoke"
    /\ \/ RevokeOne(claims[r]) /\ Proceeds(r, "insert")
       \/ UNCHANGED row /\ Answers(r)
    /\ UNCHANGED <<users, minted, owner, family, parent>>

\* The INSERT fails for a user that is gone, and may fail for others.
InsertSuccessor(r) ==
    /\ refresh[r] = "insert"
    /\ Answers(r)
    /\ LET t == claims[r]
       IN  \/ owner[t] \in users /\ Mint(owner[t], family[t], t)
           \/ UNCHANGED tokenVars
    /\ UNCHANGED users

\* logout with a token, or with the family the request names, that of a token t: it is
\* not compared with the request's token.
Logout(t) ==
    /\ t <= minted
    /\ RevokeOne(t) \/ RevokeAll(family[t])
    /\ UNCHANGED <<users, minted, owner, family, parent, refreshVars>>

\* admin.rs delete_user; the rows of the user's tokens go with it.
DeleteUser(u) ==
    /\ u \in users
    /\ users' = users \ {u}
    /\ row' = [t \in Tokens |-> IF owner[t] = u THEN "gone" ELSE row[t]]
    /\ UNCHANGED <<minted, owner, family, parent, refreshVars>>

SessionNext ==
    \/ \E u \in Users : Register(u) \/ Login(u) \/ DeleteUser(u)
    \/ \E r \in Refreshes, t \in Tokens : LookUpToken(r, t)
    \/ \E r \in Refreshes : RevokeFamily(r) \/ RevokeToken(r) \/ InsertSuccessor(r)
    \/ \E t \in Tokens : Logout(t)

SessionSpec == SessionInit /\ [][SessionNext]_sessionVars

-----------------------------------------------------------------------------
SessionTypeOK ==
    /\ users \in SUBSET Users
    /\ minted \in 0..MaxTokens
    /\ owner \in [Tokens -> Users \cup {NoUser}]
    /\ family \in [Tokens -> 0..MaxTokens]
    /\ parent \in [Tokens -> 0..MaxTokens]
    /\ row \in [Tokens -> {"none", "live", "revoked", "gone"}]
    /\ refresh \in [Refreshes -> {"idle", "revoke", "insert", "punish"}]
    /\ claims \in [Refreshes -> 0..MaxTokens]

\* Tokens that are not minted have no row, no family and no successor; those
\* that are belong to the family they were made for.
MintedInv ==
    /\ \A t \in Tokens : t > minted =>
          row[t] = "none" /\ family[t] = 0 /\ owner[t] = NoUser
    /\ \A t \in Tokens : t <= minted => family[t] \in 1..t /\ parent[t] < t
    /\ \A r \in Refreshes : claims[r] <= minted
    /\ \A r \in Refreshes : refresh[r] = "idle" <=> claims[r] = 0

\* A token that has a successor, or is about to get one, is not live: whatever
\* two refreshes with one token do, only the newest tokens of a family can be
\* used.
OnlyNewestLive ==
    /\ \A t \in Tokens : t <= minted /\ parent[t] # 0 => row[parent[t]] # "live"
    /\ \A r \in Refreshes : refresh[r] = "insert" => row[claims[r]] # "live"

\* Nobody is logged in as a user that was deleted, also through a refresh that was
\* under way when the user's rows went.
LiveHasUser == \A t \in Tokens : row[t] = "live" => owner[t] \in users

SessionInv == SessionTypeOK /\ MintedInv /\ OnlyNewestLive /\ LiveHasUser

\* No token of the family is live.  A refresh leaves its family like this between its
\* UPDATE and its INSERT, a logout with the family and a token used twice for good.
Dead(f) == \A t \in Tokens : family[t] = f => row[t] # "live"

\* The refreshes that have found a token of the family live and have not answered.
UnderWay(f) == {r \in Refreshes : refresh[r] \in {"revoke", "insert"} /\ family[claims[r]] = f}

\* A family without a live token gets one only from a refresh that was under way when
\* the last one went, one token for each such refresh, and no refresh joins them.  So
\* a logout with the family, or the answer to a token used twice, ends the session
\* once the refreshes it has met are over, and not before: it does not stop them,
\* and the successor one of them inserts is live.
OnlyRefreshesUnderWayRevive ==
    [][\A f \in 1..minted :
          Dead(f) => /\ UnderWay(f)' \subseteq UnderWay(f)
                     /\ Dead(f)' \/ UnderWay(f)' # UnderWay(f)]_sessionVars
=============================================================================
