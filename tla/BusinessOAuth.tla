---------------------------- MODULE BusinessOAuth ----------------------------
(***************************************************************************)
(* Tokens of the read-only business access (business_mcp_auth.py): a login   *)
(* passes from a pending ticket over the identity provider and the consent   *)
(* to a code, the code is exchanged for the first refresh token of a family, *)
(* each refresh token for the next; a replay or a revocation ends the whole  *)
(* family.  Every record expires, is consumed once, and each call of the     *)
(* store is one transaction (mcp_control.py).                                *)
(*                                                                         *)
(* A refresh is two transactions: the token is consumed, then the family and *)
(* the grant are checked and the next tokens issued.  One member, one grant; *)
(* the client library's PKCE check and the clients' metadata are left out.   *)
(***************************************************************************)
EXTENDS Naturals, FiniteSets

CONSTANTS
    Logins,             \* logins of the member, each the family of its tokens
    TokenMax,           \* bound: refresh tokens of a family
    Exchanges,          \* concurrent token requests
    AccessTtl, RefreshTtl, CodeTtl, LoginTtl, ReauthTtl,
    GrantMax,           \* bound: versions of the grant
    OAuthClockEnd       \* bound: the clock stops here

ASSUME OAuthAssumption ==
    /\ {AccessTtl, RefreshTtl, CodeTtl, LoginTtl, ReauthTtl} \subseteq Nat \ {0}
    /\ AccessTtl <= RefreshTtl
    /\ {TokenMax, GrantMax} \subseteq Nat \ {0} /\ OAuthClockEnd \in Nat

VARIABLES
    login,      \* [Logins -> [stage, until, version, since]]: the login's current record
    token,      \* [Logins -> [TokenNumbers -> [issued, used, access, refresh]]]: with expiries
    revoked,    \* [Logins -> expiry of the revoked_family record, 0 without one]
    grant,      \* [version, active]
    exchange,   \* [Exchanges -> where a token request is]
    withdrawn,  \* history, the families ever revoked
    oauthClock

oauthVars == <<login, token, revoked, grant, exchange, withdrawn, oauthClock>>

TokenNumbers == 1 .. TokenMax
OAuthTimes == 0 .. OAuthClockEnd
NoToken == [issued |-> FALSE, used |-> FALSE, access |-> 0, refresh |-> 0]
NoExchange == [at |-> "idle"]

OAuthInit ==
    /\ login = [l \in Logins |-> [stage |-> "absent", until |-> 0, version |-> 0, since |-> 0]]
    /\ token = [l \in Logins |-> [n \in TokenNumbers |-> NoToken]]
    /\ revoked = [l \in Logins |-> 0]
    /\ grant = [version |-> 1, active |-> TRUE]
    /\ exchange = [e \in Exchanges |-> NoExchange]
    /\ withdrawn = {} /\ oauthClock = 0

(* ControlStore.get: what has expired is not there.                          *)
Live(until) == until > oauthClock
(* current_grant: the same version, authenticated not too long ago.          *)
CurrentGrant(l) ==
    /\ grant.active /\ grant.version = login[l].version
    /\ oauthClock - login[l].since <= ReauthTtl

-----------------------------------------------------------------------------
(* Login: each record is consumed when the next one is made                 *)

Authorize(l) ==
    /\ login[l].stage = "absent"
    /\ login' = [login EXCEPT ![l].stage = "pending", ![l].until = oauthClock + LoginTtl]
    /\ UNCHANGED <<token, revoked, grant, exchange, withdrawn, oauthClock>>

StartLogin(l) ==
    /\ login[l].stage = "pending" /\ Live(login[l].until)
    /\ login' = [login EXCEPT ![l].stage = "state", ![l].until = oauthClock + LoginTtl]
    /\ UNCHANGED <<token, revoked, grant, exchange, withdrawn, oauthClock>>

(* The state is consumed before the identity provider is asked.              *)
AskIdentity(l) ==
    /\ login[l].stage = "state" /\ Live(login[l].until)
    /\ login' = [login EXCEPT ![l].stage = "asking", ![l].until = 0]
    /\ UNCHANGED <<token, revoked, grant, exchange, withdrawn, oauthClock>>

(* The identity is confirmed and has a grant, or the login is over.          *)
IdentityAnswered(l) ==
    /\ login[l].stage = "asking"
    /\ \/ /\ grant.active
          /\ login' = [login EXCEPT ![l] = [stage |-> "consent", until |-> oauthClock + CodeTtl,
                                            version |-> grant.version, since |-> oauthClock]]
       \/ login' = [login EXCEPT ![l].stage = "over"]
    /\ UNCHANGED <<token, revoked, grant, exchange, withdrawn, oauthClock>>

Consent(l) ==
    /\ login[l].stage = "consent" /\ Live(login[l].until)
    /\ \/ /\ CurrentGrant(l)
          /\ login' = [login EXCEPT ![l].stage = "code", ![l].until = oauthClock + CodeTtl]
       \/ login' = [login EXCEPT ![l].stage = "over"]
    /\ UNCHANGED <<token, revoked, grant, exchange, withdrawn, oauthClock>>

-----------------------------------------------------------------------------
(* Tokens                                                                   *)

(* _issue: the next refresh token of the family, and an access token.        *)
Issue(l) ==
    \E n \in TokenNumbers :
        /\ ~token[l][n].issued /\ \A m \in 1 .. n - 1 : token[l][m].issued
        /\ token' = [token EXCEPT ![l][n] = [issued |-> TRUE, used |-> FALSE,
                access |-> oauthClock + AccessTtl, refresh |-> oauthClock + RefreshTtl]]

EndExchange(e) == exchange' = [exchange EXCEPT ![e] = NoExchange]
Refused == UNCHANGED <<login, token>>

(* The library loads the code and checks PKCE before it is exchanged.        *)
CodeIsThere(l) == login[l].stage = "code" /\ Live(login[l].until)
LoadCode(e, l) ==
    /\ exchange[e] = NoExchange /\ CodeIsThere(l)
    /\ exchange' = [exchange EXCEPT ![e] = [at |-> "code", family |-> l]]
    /\ UNCHANGED <<login, token, revoked, grant, withdrawn, oauthClock>>

(* Consumed and exchanged in one transaction, which an inactive grant rolls  *)
(* back.                                                                    *)
ExchangeCode(e) ==
    LET l == exchange[e].family IN
    /\ exchange[e].at = "code"
    /\ IF CodeIsThere(l) /\ CurrentGrant(l)
       THEN login' = [login EXCEPT ![l].stage = "exchanged"] /\ Issue(l)
       ELSE Refused
    /\ EndExchange(e)
    /\ UNCHANGED <<revoked, grant, withdrawn, oauthClock>>

RevokeFamily(l) ==
    /\ revoked' = [revoked EXCEPT ![l] = oauthClock + RefreshTtl]
    /\ withdrawn' = withdrawn \cup {l}

Stored(t) == t.issued /\ Live(t.refresh)
Replayed(l) == RevokeFamily(l)

(* A token that was used already is a replay, as soon as it is loaded.       *)
LoadRefresh(e, l, n) ==
    /\ exchange[e] = NoExchange /\ Stored(token[l][n])
    /\ IF token[l][n].used THEN Replayed(l) /\ UNCHANGED exchange
       ELSE /\ ~Live(revoked[l])
            /\ exchange' = [exchange EXCEPT ![e] = [at |-> "refresh", family |-> l, number |-> n]]
            /\ UNCHANGED <<revoked, withdrawn>>
    /\ UNCHANGED <<login, token, grant, oauthClock>>

(* Mutant: a token is consumed whether or not another exchange has done so.  *)
UsableAgain(t) == Stored(t)
StillUsable(t) == Stored(t) /\ ~t.used
(* The first transaction commits the use, or the revocation of a replay.     *)
ConsumeRefresh(e) ==
    LET l == exchange[e].family  t == token[l][exchange[e].number] IN
    /\ exchange[e].at = "refresh"
    /\ IF StillUsable(t)
       THEN /\ token' = [token EXCEPT ![l][exchange[e].number].used = TRUE]
            /\ exchange' = [exchange EXCEPT ![e].at = "consumed"]
            /\ UNCHANGED <<revoked, withdrawn>>
       ELSE /\ IF Stored(t) THEN Replayed(l) ELSE UNCHANGED <<revoked, withdrawn>>
            /\ EndExchange(e) /\ UNCHANGED token
    /\ UNCHANGED <<login, grant, oauthClock>>

(* Mutant: the second transaction does not look for a revocation.            *)
MayRenewAnyway(l) == CurrentGrant(l)
(* The second issues the next token, unless the family was revoked meanwhile *)
(* or the grant is not what it was.                                         *)
MayRenew(l) == ~Live(revoked[l]) /\ CurrentGrant(l)
RenewTokens(e) ==
    LET l == exchange[e].family IN
    /\ exchange[e].at = "consumed"
    /\ IF MayRenew(l) THEN Issue(l) ELSE UNCHANGED token
    /\ EndExchange(e)
    /\ UNCHANGED <<login, revoked, grant, withdrawn, oauthClock>>

(* The client revokes by an access or a refresh token that is still stored.  *)
RevokeToken(l) ==
    /\ \E n \in TokenNumbers : Stored(token[l][n])
    /\ RevokeFamily(l)
    /\ UNCHANGED <<login, token, grant, exchange, oauthClock>>

(* The connection breaks between two transactions.                           *)
ExchangeLost(e) ==
    /\ exchange[e] # NoExchange
    /\ EndExchange(e)
    /\ UNCHANGED <<login, token, revoked, grant, withdrawn, oauthClock>>

(* The grant is replaced (approve_identity), or its user is locked.          *)
ChangeGrant ==
    /\ \/ /\ grant.version < GrantMax
          /\ grant' = [grant EXCEPT !.version = @ + 1]
       \/ grant' = [grant EXCEPT !.active = ~@]
    /\ UNCHANGED <<login, token, revoked, exchange, withdrawn, oauthClock>>

(* The second transaction of a refresh follows the first within a tick.      *)
OAuthTick ==
    /\ oauthClock < OAuthClockEnd
    /\ \A e \in Exchanges : exchange[e].at # "consumed"
    /\ oauthClock' = oauthClock + 1
    /\ UNCHANGED <<login, token, revoked, grant, exchange, withdrawn>>

OAuthNext ==
    \/ \E l \in Logins :
          \/ Authorize(l) \/ StartLogin(l) \/ AskIdentity(l) \/ IdentityAnswered(l) \/ Consent(l)
          \/ RevokeToken(l)
    \/ \E e \in Exchanges :
          \/ \E l \in Logins : LoadCode(e, l) \/ \E n \in TokenNumbers : LoadRefresh(e, l, n)
          \/ ExchangeCode(e) \/ ConsumeRefresh(e) \/ RenewTokens(e) \/ ExchangeLost(e)
    \/ ChangeGrant \/ OAuthTick

OAuthSpec == OAuthInit /\ [][OAuthNext]_oauthVars

-----------------------------------------------------------------------------
OAuthTypeOK ==
    /\ \A l \in Logins :
          /\ login[l].stage \in
                {"absent", "pending", "state", "asking", "consent", "code", "exchanged", "over"}
          /\ revoked[l] \in 0 .. (OAuthClockEnd + RefreshTtl)
    /\ token \in [Logins -> [TokenNumbers -> [issued : BOOLEAN, used : BOOLEAN,
                    access : Nat, refresh : Nat]]]
    /\ grant \in [version : 1 .. GrantMax, active : BOOLEAN]
    /\ \A e \in Exchanges : exchange[e].at \in {"idle", "code", "refresh", "consumed"}
    /\ oauthClock \in OAuthTimes

(* load_access_token and load_refresh_token, but for the grant.              *)
Accepted(l, n) ==
    /\ ~Live(revoked[l])
    /\ \/ Live(token[l][n].access)
       \/ Stored(token[l][n]) /\ ~token[l][n].used

(* A consent is worth one chain of tokens, until it is revoked.  At any time  *)
(* at most one of its refresh tokens can still be used, and none while the    *)
(* code still can, also if a code or a token is exchanged by several requests *)
(* at once.  Once revoked, no token of it is accepted ever after: not one that *)
(* a refresh under way issues later, and not one that would outlive the       *)
(* record of the revocation, which expires too.  (exchange_authorization_code, *)
(* exchange_refresh_token, load_refresh_token, revoke_token)                 *)
OneChainUntilRevoked ==
    \A l \in Logins :
        LET usable == {n \in TokenNumbers : token[l][n].issued /\ ~token[l][n].used} IN
        /\ Cardinality(usable) <= 1
        /\ login[l].stage = "code" => \A n \in TokenNumbers : ~token[l][n].issued
        /\ l \in withdrawn => \A n \in TokenNumbers : ~Accepted(l, n)
=============================================================================
