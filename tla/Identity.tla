------------------------------ MODULE Identity ------------------------------
(***************************************************************************)
(* The identity boundary (identity.py, IdentityManager): durable           *)
(* principals with roles and a credential version, and the short-lived     *)
(* bearer sessions every privileged command presents.                      *)
(*                                                                         *)
(* Every command is one immediate transaction and verifies its session in  *)
(* it, hence one action; a command that raises is disabled.  Credentials   *)
(* are their version: a caller of authenticate or rotate_credential knows  *)
(* the current one.  A session expires at any moment (its TTL is the       *)
(* caller's choice); the row of an expired session can no longer verify,   *)
(* and the model gives its id to a later session.                          *)
(***************************************************************************)
EXTENDS Integers, FiniteSets

CONSTANTS
  Principals,
  Sessions,     \* bound: the session rows that have not expired
  RoleSets,     \* bound: the role sets a principal is offered
  MaxVersion    \* bound: the credential versions of a principal

Role ==
  {"owner", "worker", "evaluator", "release", "observer",
   "provider_attestor", "human_acceptor", "business_reviewer", "system"}

(* _roles: at least one role is required. *)
ASSUME IdentityAssumption ==
  /\ "none" \notin Principals
  /\ RoleSets \in [Principals -> SUBSET ((SUBSET Role) \ {{}})]
  /\ MaxVersion \in [Principals -> Nat \ {0}]

VARIABLES
  principals,  \* principals and principal_roles
  sessions     \* authenticated_sessions

identity == <<principals, sessions>>

(* No row: a real one has a credential_version of at least 1. *)
NoPrincipal == [enabled |-> FALSE, version |-> 0, roles |-> {}]
NoSession == [principal |-> "none", version |-> 0, revoked |-> FALSE]

IdentityTypeOK ==
  /\ \A p \in Principals :
       \/ principals[p] = NoPrincipal
       \/ /\ principals[p].enabled \in BOOLEAN
          /\ principals[p].version \in 1..MaxVersion[p]
          /\ principals[p].roles \in RoleSets[p]
  /\ \A s \in Sessions :
       \/ sessions[s] = NoSession
       \/ /\ sessions[s].principal \in Principals
          /\ sessions[s].version \in 1..MaxVersion[sessions[s].principal]
          /\ sessions[s].revoked \in BOOLEAN

IdentityInit ==
  /\ principals = [p \in Principals |-> NoPrincipal]
  /\ sessions = [s \in Sessions |-> NoSession]

Registered(p) == principals[p] # NoPrincipal

EnabledOwners ==
  {p \in Principals : principals[p].enabled /\ "owner" \in principals[p].roles}

-----------------------------------------------------------------------------

(***************************************************************************)
(* _verify_session without a role: the row is unrevoked and unexpired, and *)
(* of the current credential of an enabled principal.  Roles are read      *)
(* live, so Verified(s, r) can hold, cease to hold and hold again.         *)
(***************************************************************************)
Valid(s) ==
  LET row == sessions[s] IN
  /\ row # NoSession
  /\ ~ row.revoked
  /\ principals[row.principal].enabled
  /\ row.version = principals[row.principal].version
  /\ principals[row.principal].roles # {}

Verified(s, role) ==
  Valid(s) /\ role \in principals[sessions[s].principal].roles

(* What a command needs of a caller: some session of p verifies. *)
Presents(p) == \E s \in Sessions : sessions[s].principal = p /\ Valid(s)

OwnerPresents(p) == Presents(p) /\ "owner" \in principals[p].roles

SomeOwnerPresents == \E p \in Principals : OwnerPresents(p)

Issued(p, version) == [principal |-> p, version |-> version, revoked |-> FALSE]

(* UPDATE authenticated_sessions SET revoked_at WHERE principal_id = p *)
Revoked(p) ==
  [s \in Sessions |-> IF sessions[s].principal = p
                        THEN [sessions[s] EXCEPT !.revoked = TRUE]
                        ELSE sessions[s]]

(* Never refuses: the check that keeps an owner is left out. *)
AnyOwnerMayGo == TRUE

(* _assert_not_last_enabled_owner *)
NotLastEnabledOwner == Cardinality(EnabledOwners) > 1

-----------------------------------------------------------------------------

BootstrapOwner(p, s) ==
  /\ \A q \in Principals : ~ Registered(q)
  /\ sessions[s] = NoSession
  /\ {"owner"} \in RoleSets[p]
  /\ principals' = [principals EXCEPT ![p] =
                     [enabled |-> TRUE, version |-> 1, roles |-> {"owner"}]]
  /\ sessions' = [sessions EXCEPT ![s] = Issued(p, 1)]

Authenticate(p, s) ==
  /\ Registered(p) /\ principals[p].enabled
  /\ sessions[s] = NoSession
  /\ sessions' = [sessions EXCEPT ![s] = Issued(p, principals[p].version)]
  /\ UNCHANGED principals

CreatePrincipal(p, roles) ==
  /\ SomeOwnerPresents
  /\ ~ Registered(p)
  /\ principals' = [principals EXCEPT ![p] =
                     [enabled |-> TRUE, version |-> 1, roles |-> roles]]
  /\ UNCHANGED sessions

(* The sessions stay: their roles are read live. *)
SetRoles(p, roles) ==
  /\ SomeOwnerPresents
  /\ Registered(p)
  /\ (p \in EnabledOwners /\ "owner" \notin roles) => NotLastEnabledOwner
  /\ principals' = [principals EXCEPT ![p].roles = roles]
  /\ UNCHANGED sessions

(* Disables without closing what the principal has open. *)
DisableOpen(p) ==
  /\ SomeOwnerPresents
  /\ Registered(p)
  /\ p \in EnabledOwners => NotLastEnabledOwner
  /\ principals' = [principals EXCEPT ![p].enabled = FALSE]
  /\ UNCHANGED sessions

DisablePrincipal(p) ==
  /\ SomeOwnerPresents
  /\ Registered(p)
  /\ p \in EnabledOwners => NotLastEnabledOwner
  /\ principals' = [principals EXCEPT ![p].enabled = FALSE]
  /\ sessions' = Revoked(p)

EnablePrincipal(p) ==
  /\ SomeOwnerPresents
  /\ Registered(p)
  /\ principals' = [principals EXCEPT ![p].enabled = TRUE]
  /\ UNCHANGED sessions

(* All sessions are revoked, the caller's own too, and a new one issued. *)
RotateCredential(p, s) ==
  /\ Presents(p)
  /\ sessions[s] = NoSession
  /\ principals[p].version < MaxVersion[p]
  /\ principals' = [principals EXCEPT ![p].version = @ + 1]
  /\ sessions' = [Revoked(p) EXCEPT ![s] = Issued(p, principals[p].version + 1)]

RevokeSession(s) ==
  /\ Valid(s)
  /\ sessions' = [sessions EXCEPT ![s].revoked = TRUE]
  /\ UNCHANGED principals

(* expires_at passes. *)
Expire(s) ==
  /\ sessions[s] # NoSession
  /\ sessions' = [sessions EXCEPT ![s] = NoSession]
  /\ UNCHANGED principals

IdentityNext ==
  \/ \E p \in Principals, s \in Sessions :
       \/ BootstrapOwner(p, s)
       \/ Authenticate(p, s)
       \/ RotateCredential(p, s)
  \/ \E p \in Principals : \E roles \in RoleSets[p] :
       CreatePrincipal(p, roles) \/ SetRoles(p, roles)
  \/ \E p \in Principals : DisablePrincipal(p) \/ EnablePrincipal(p)
  \/ \E s \in Sessions : RevokeSession(s) \/ Expire(s)

-----------------------------------------------------------------------------

(***************************************************************************)
(* Whatever owners do to each other at the same time (two of them          *)
(* disabling or demoting one another), an initialised registry keeps an    *)
(* enabled owner: bootstrap is closed for ever, so without one the runtime *)
(* could never be administered again.  (set_roles, disable_principal,      *)
(* _assert_not_last_enabled_owner)                                         *)
(***************************************************************************)
OwnerRemains ==
  (\E p \in Principals : Registered(p)) => EnabledOwners # {}

(***************************************************************************)
(* A session that stopped verifying never verifies again: not when its     *)
(* principal is enabled again, not after a credential rotation.            *)
(* (enable_principal: "previously issued sessions remain revoked")         *)
(***************************************************************************)
DeadSessionsStayDead ==
  [][\A s \in Sessions : sessions[s] # NoSession /\ ~ Valid(s) => ~ Valid(s)']_identity

=============================================================================
