---------------------------- MODULE GrantsProofs ----------------------------
(***************************************************************************)
(* Proofs about the identity boundary and the capability grants on top of  *)
(* it, for any number of principals, sessions, approvals and grants, and   *)
(* any budgets.                                                            *)
(***************************************************************************)
EXTENDS Grants, FiniteSetTheorems, TLAPS

-----------------------------------------------------------------------------
(* The identity boundary.                                                  *)

PrincipalRow == [enabled : BOOLEAN, version : Nat, roles : SUBSET Role]

SessionRow ==
  [principal : Principals \cup {"none"}, version : Nat, revoked : BOOLEAN]

(***************************************************************************)
(* What the identity properties rest on: a session row that is not revoked *)
(* is of the current credential of an enabled principal.  Disabling and    *)
(* rotation revoke in the same transaction, so no other row is unrevoked.  *)
(***************************************************************************)
UnrevokedIsCurrent ==
  \A s \in Sessions :
    sessions[s] # NoSession /\ ~ sessions[s].revoked =>
      /\ sessions[s].principal \in Principals
      /\ principals[sessions[s].principal].enabled
      /\ sessions[s].version = principals[sessions[s].principal].version

IdentityInv ==
  /\ principals \in [Principals -> PrincipalRow]
  /\ sessions \in [Sessions -> SessionRow]
  /\ IdentityTypeOK
  /\ UnrevokedIsCurrent
  /\ OwnerRemains

LEMMA RegisteredRow ==
  ASSUME IdentityInv, NEW p \in Principals, Registered(p)
  PROVE  /\ principals[p].version \in Nat /\ principals[p].version >= 1
         /\ principals[p].version <= MaxVersion[p]
         /\ principals[p].roles \in RoleSets[p]
         /\ principals[p].roles # {}
         /\ principals[p].enabled \in BOOLEAN
BY IdentityAssumption DEF IdentityInv, IdentityTypeOK, Registered

(* A row that is enabled, or has a version, is registered. *)
LEMMA EnabledIsRegistered ==
  ASSUME NEW p \in Principals,
         principals[p].enabled \/ principals[p].version # 0
  PROVE  Registered(p)
BY DEF Registered, NoPrincipal

LEMMA NewPrincipalRow ==
  ASSUME NEW p \in Principals, NEW roles \in RoleSets[p]
  PROVE  LET r == [enabled |-> TRUE, version |-> 1, roles |-> roles]
         IN  /\ r \in PrincipalRow /\ r # NoPrincipal
             /\ r.enabled /\ r.version = 1 /\ r.roles = roles
             /\ 1 \in 1..MaxVersion[p] /\ roles # {}
<1>1. roles \in SUBSET Role /\ roles # {} /\ MaxVersion[p] \in Nat \ {0}
  BY IdentityAssumption
<1>2. [enabled |-> TRUE, version |-> 1, roles |-> roles] \in PrincipalRow
  BY <1>1 DEF PrincipalRow
<1> QED BY <1>1, <1>2 DEF NoPrincipal

(* Some owner presents itself: the registry has an enabled owner. *)
LEMMA PresentOwnerStands ==
  ASSUME IdentityInv, NEW p \in Principals, OwnerPresents(p)
  PROVE  p \in EnabledOwners /\ Registered(p)
<1>1. principals[p].enabled /\ "owner" \in principals[p].roles
  BY DEF OwnerPresents, Presents, Valid
<1> QED BY <1>1, EnabledIsRegistered DEF EnabledOwners

(* More than one enabled owner: one is left without p. *)
LEMMA AnotherOwner ==
  ASSUME NEW p, p \in EnabledOwners => NotLastEnabledOwner,
         EnabledOwners # {}
  PROVE  \E q \in EnabledOwners : q # p
<1> SUFFICES ASSUME EnabledOwners = {p} PROVE FALSE
  OBVIOUS
<1>1. Cardinality({p}) = 1
  BY FS_Singleton
<1>2. Cardinality(EnabledOwners) > 1
  BY DEF NotLastEnabledOwner
<1> QED BY <1>1, <1>2

(***************************************************************************)
(* A step that leaves sessions alone and keeps the version and the enabled *)
(* state of every principal that a live session can have.                  *)
(***************************************************************************)
LEMMA PrincipalReplaced ==
  ASSUME IdentityInv, NEW p \in Principals, NEW r \in PrincipalRow,
         principals' = [principals EXCEPT ![p] = r], r # NoPrincipal,
         r.version \in 1..MaxVersion[p], r.roles \in RoleSets[p]
  PROVE  /\ principals' \in [Principals -> PrincipalRow]
         /\ principals'[p] = r
         /\ \A q \in Principals \ {p} : principals'[q] = principals[q]
         /\ \A q \in Principals :
              \/ principals'[q] = NoPrincipal
              \/ /\ principals'[q].enabled \in BOOLEAN
                 /\ principals'[q].version \in 1..MaxVersion[q]
                 /\ principals'[q].roles \in RoleSets[q]
<1>1. /\ principals' \in [Principals -> PrincipalRow]
      /\ principals'[p] = r
      /\ \A q \in Principals \ {p} : principals'[q] = principals[q]
  BY DEF IdentityInv
<1>2. r.enabled \in BOOLEAN
  BY DEF PrincipalRow
<1> QED BY <1>1, <1>2 DEF IdentityInv, IdentityTypeOK

(* A session row is issued; nothing else changes in the table. *)
LEMMA IssuedRow ==
  ASSUME NEW p \in Principals, NEW v \in Nat \ {0}
  PROVE  /\ Issued(p, v) \in SessionRow /\ Issued(p, v) # NoSession
         /\ Issued(p, v).principal = p /\ Issued(p, v).version = v
         /\ Issued(p, v).revoked = FALSE
<1>1. "none" \notin Principals
  BY IdentityAssumption
<1>2. Issued(p, v) \in SessionRow
  BY DEF Issued, SessionRow
<1> QED BY <1>1, <1>2 DEF Issued, NoSession

(* Revoked(p) only sets the revoked column of p's rows. *)
LEMMA RevokedRows ==
  ASSUME IdentityInv, NEW p \in Principals
  PROVE  /\ Revoked(p) \in [Sessions -> SessionRow]
         /\ \A s \in Sessions :
              /\ Revoked(p)[s].principal = sessions[s].principal
              /\ Revoked(p)[s].version = sessions[s].version
              /\ sessions[s].principal = p => Revoked(p)[s].revoked = TRUE
              /\ sessions[s].principal # p => Revoked(p)[s] = sessions[s]
              /\ sessions[s] = NoSession => Revoked(p)[s] = NoSession
<1> DEFINE r(s) == [sessions[s] EXCEPT !.revoked = TRUE]
<1>1. \A s \in Sessions : sessions[s] \in SessionRow
  BY DEF IdentityInv
<1>2. \A s \in Sessions :
        /\ r(s) \in SessionRow /\ r(s).principal = sessions[s].principal
        /\ r(s).version = sessions[s].version /\ r(s).revoked = TRUE
  <2> SUFFICES ASSUME NEW s \in Sessions
               PROVE  /\ r(s) \in SessionRow
                      /\ r(s).principal = sessions[s].principal
                      /\ r(s).version = sessions[s].version
                      /\ r(s).revoked = TRUE
    OBVIOUS
  <2> DEFINE a == sessions[s]
  <2>1. a \in SessionRow
    BY <1>1
  <2> HIDE DEF a
  <2>2. LET b == [a EXCEPT !.revoked = TRUE]
        IN  /\ b \in SessionRow /\ b.principal = a.principal
            /\ b.version = a.version /\ b.revoked = TRUE
    BY <2>1 DEF SessionRow
  <2> QED BY <2>2 DEF a
<1>3. Revoked(p) = [s \in Sessions |-> IF sessions[s].principal = p
                                         THEN r(s) ELSE sessions[s]]
  BY DEF Revoked
<1> HIDE DEF r
<1>4. \A s \in Sessions : sessions[s] = NoSession => sessions[s].principal # p
  BY IdentityAssumption DEF NoSession
<1> QED BY <1>1, <1>2, <1>3, <1>4

SessionRowOK(s) ==
  \/ sessions[s] = NoSession
  \/ /\ sessions[s].principal \in Principals
     /\ sessions[s].version \in 1..MaxVersion[sessions[s].principal]
     /\ sessions[s].revoked \in BOOLEAN

PrincipalRowOK(p) ==
  \/ principals[p] = NoPrincipal
  \/ /\ principals[p].enabled \in BOOLEAN
     /\ principals[p].version \in 1..MaxVersion[p]
     /\ principals[p].roles \in RoleSets[p]

(* The sessions are as they were, and still of current credentials. *)
LEMMA SessionsStand ==
  ASSUME IdentityInv, UNCHANGED sessions, NEW p \in Principals,
         \A q \in Principals \ {p} : principals'[q] = principals[q],
         Registered(p) =>
           /\ principals[p].enabled => principals'[p].enabled
           /\ principals'[p].version = principals[p].version
  PROVE  /\ sessions' \in [Sessions -> SessionRow]
         /\ \A s \in Sessions : SessionRowOK(s)'
         /\ UnrevokedIsCurrent'
<1>1. sessions' \in [Sessions -> SessionRow]
  BY DEF IdentityInv
<1>2. \A s \in Sessions : SessionRowOK(s)'
  BY DEF IdentityInv, IdentityTypeOK, SessionRowOK
<1>3. UnrevokedIsCurrent'
  <2> SUFFICES ASSUME NEW s \in Sessions, sessions[s] # NoSession,
                      ~ sessions[s].revoked
               PROVE  /\ sessions[s].principal \in Principals
                      /\ principals'[sessions[s].principal].enabled
                      /\ sessions[s].version =
                           principals'[sessions[s].principal].version
    BY DEF UnrevokedIsCurrent
  <2> DEFINE q == sessions[s].principal
  <2>1. /\ q \in Principals /\ principals[q].enabled
        /\ sessions[s].version = principals[q].version
    BY DEF IdentityInv, UnrevokedIsCurrent
  <2>2. Registered(q)
    BY <2>1, EnabledIsRegistered
  <2> HIDE DEF q
  <2>3. /\ principals'[q].enabled
        /\ principals'[q].version = principals[q].version
    BY <2>1, <2>2
  <2> QED BY <2>1, <2>3 DEF q
<1> QED BY <1>1, <1>2, <1>3

LEMMA BootstrapKeeps ==
  ASSUME IdentityInv, NEW p \in Principals, NEW s \in Sessions,
         BootstrapOwner(p, s)
  PROVE  IdentityInv'
<1> DEFINE r == [enabled |-> TRUE, version |-> 1, roles |-> {"owner"}]
<1>1. /\ \A q \in Principals : ~ Registered(q)
      /\ {"owner"} \in RoleSets[p] /\ sessions[s] = NoSession
      /\ principals' = [principals EXCEPT ![p] = r]
      /\ sessions' = [sessions EXCEPT ![s] = Issued(p, 1)]
  BY DEF BootstrapOwner
<1>2. /\ r \in PrincipalRow /\ r # NoPrincipal /\ r.enabled
      /\ r.version = 1 /\ r.roles = {"owner"} /\ 1 \in 1..MaxVersion[p]
  BY <1>1, NewPrincipalRow
<1> HIDE DEF r
<1>3. /\ principals' \in [Principals -> PrincipalRow]
      /\ principals'[p] = r
      /\ \A q \in Principals : PrincipalRowOK(q)'
  BY <1>1, <1>2, PrincipalReplaced DEF PrincipalRowOK
<1>4. /\ Issued(p, 1) \in SessionRow
      /\ Issued(p, 1).principal = p /\ Issued(p, 1).version = 1
      /\ Issued(p, 1).revoked = FALSE
  <2>1. 1 \in Nat \ {0}
    OBVIOUS
  <2> QED BY <2>1, IssuedRow
<1>5. /\ sessions' \in [Sessions -> SessionRow]
      /\ sessions'[s] = Issued(p, 1)
      /\ \A t \in Sessions \ {s} : sessions'[t] = sessions[t]
  BY <1>1, <1>4 DEF IdentityInv
<1>6. \A t \in Sessions : SessionRowOK(t)'
  BY <1>2, <1>4, <1>5 DEF IdentityInv, IdentityTypeOK, SessionRowOK
<1>7. UnrevokedIsCurrent'
  <2>1. \A t \in Sessions : sessions[t] = NoSession \/ sessions[t].revoked
    BY <1>1, EnabledIsRegistered DEF IdentityInv, UnrevokedIsCurrent
  <2> QED BY <2>1, <1>2, <1>3, <1>4, <1>5 DEF UnrevokedIsCurrent
<1>8. OwnerRemains'
  BY <1>2, <1>3 DEF OwnerRemains, EnabledOwners
<1> QED BY <1>3, <1>5, <1>6, <1>7, <1>8
           DEF IdentityInv, IdentityTypeOK, SessionRowOK, PrincipalRowOK

LEMMA AuthenticateKeeps ==
  ASSUME IdentityInv, NEW p \in Principals, NEW s \in Sessions,
         Authenticate(p, s)
  PROVE  IdentityInv'
<1> DEFINE v == principals[p].version
<1>1. /\ Registered(p) /\ principals[p].enabled
      /\ sessions' = [sessions EXCEPT ![s] = Issued(p, v)]
      /\ UNCHANGED principals
  BY DEF Authenticate
<1>2. v \in Nat \ {0} /\ v <= MaxVersion[p]
  BY <1>1, RegisteredRow
<1>3. MaxVersion[p] \in Nat
  BY IdentityAssumption
<1> HIDE DEF v
<1>4. /\ Issued(p, v) \in SessionRow
      /\ Issued(p, v).principal = p /\ Issued(p, v).version = v
      /\ Issued(p, v).revoked = FALSE
  BY <1>2, IssuedRow
<1>5. /\ sessions' \in [Sessions -> SessionRow]
      /\ sessions'[s] = Issued(p, v)
      /\ \A t \in Sessions \ {s} : sessions'[t] = sessions[t]
  BY <1>1, <1>4 DEF IdentityInv
<1>6. \A t \in Sessions : SessionRowOK(t)'
  <2>1. SessionRowOK(s)'
    <3>1. v \in 1..MaxVersion[p]
      BY <1>2, <1>3
    <3> QED BY <3>1, <1>4, <1>5 DEF SessionRowOK
  <2>2. \A t \in Sessions \ {s} : SessionRowOK(t)'
    BY <1>5 DEF IdentityInv, IdentityTypeOK, SessionRowOK
  <2> QED BY <2>1, <2>2
<1>7. UnrevokedIsCurrent'
  BY <1>1, <1>4, <1>5 DEF IdentityInv, UnrevokedIsCurrent, v
<1>8. OwnerRemains'
  BY <1>1 DEF IdentityInv, OwnerRemains, EnabledOwners, Registered
<1>9. principals' \in [Principals -> PrincipalRow]
      /\ \A q \in Principals : PrincipalRowOK(q)'
  BY <1>1 DEF IdentityInv, IdentityTypeOK, PrincipalRowOK
<1> QED BY <1>5, <1>6, <1>7, <1>8, <1>9
           DEF IdentityInv, IdentityTypeOK, SessionRowOK, PrincipalRowOK

(* Updates of enabled or of the version of a registered principal. *)
LEMMA PrincipalUpdated ==
  ASSUME IdentityInv, NEW p \in Principals, Registered(p),
         NEW b \in BOOLEAN, NEW v \in 1..MaxVersion[p], NEW R \in RoleSets[p],
         \/ /\ principals' = [principals EXCEPT ![p].enabled = b]
            /\ R = principals[p].roles /\ v = principals[p].version
         \/ /\ principals' = [principals EXCEPT ![p].version = v]
            /\ b = principals[p].enabled /\ R = principals[p].roles
  PROVE  /\ principals' \in [Principals -> PrincipalRow]
         /\ principals'[p].enabled = b
         /\ principals'[p].version = v
         /\ principals'[p].roles = R
         /\ \A q \in Principals \ {p} : principals'[q] = principals[q]
         /\ \A q \in Principals : PrincipalRowOK(q)'
<1> DEFINE a == principals[p]
           row == [enabled |-> b, version |-> v, roles |-> R]
<1>1. /\ a \in PrincipalRow
      /\ a = [enabled |-> a.enabled, version |-> a.version, roles |-> a.roles]
  BY DEF IdentityInv, PrincipalRow
<1>2. row \in PrincipalRow /\ row.enabled = b /\ row.version = v
        /\ row.roles = R
  <2>1. R \in SUBSET Role /\ v \in Nat
    BY IdentityAssumption
  <2> QED BY <2>1 DEF PrincipalRow
<1>3. principals' = [principals EXCEPT ![p] = row]
  <2>1. \/ /\ principals' = [principals EXCEPT ![p] = [a EXCEPT !.enabled = b]]
           /\ R = a.roles /\ v = a.version
        \/ /\ principals' = [principals EXCEPT ![p] = [a EXCEPT !.version = v]]
           /\ b = a.enabled /\ R = a.roles
    OBVIOUS
  <2> HIDE DEF a
  <2>2. /\ R = a.roles /\ v = a.version => [a EXCEPT !.enabled = b] = row
        /\ b = a.enabled /\ R = a.roles => [a EXCEPT !.version = v] = row
    BY <1>1 DEF PrincipalRow
  <2> HIDE DEF row
  <2> QED BY <2>1, <2>2
<1>4. row # NoPrincipal
  <2>1. v # 0
    OBVIOUS
  <2> QED BY <2>1 DEF NoPrincipal
<1> HIDE DEF row
<1> QED BY <1>2, <1>3, <1>4, PrincipalReplaced DEF PrincipalRowOK

LEMMA CreatePrincipalKeeps ==
  ASSUME IdentityInv, NEW p \in Principals, NEW roles \in RoleSets[p],
         CreatePrincipal(p, roles)
  PROVE  IdentityInv'
<1> DEFINE r == [enabled |-> TRUE, version |-> 1, roles |-> roles]
<1>1. /\ SomeOwnerPresents /\ ~ Registered(p) /\ UNCHANGED sessions
      /\ principals' = [principals EXCEPT ![p] = r]
  BY DEF CreatePrincipal
<1>2. /\ r \in PrincipalRow /\ r # NoPrincipal
      /\ r.version = 1 /\ r.roles = roles /\ 1 \in 1..MaxVersion[p]
  BY NewPrincipalRow
<1> HIDE DEF r
<1>3. /\ principals' \in [Principals -> PrincipalRow]
      /\ \A q \in Principals \ {p} : principals'[q] = principals[q]
      /\ \A q \in Principals : PrincipalRowOK(q)'
  BY <1>1, <1>2, PrincipalReplaced DEF PrincipalRowOK
<1>4. /\ sessions' \in [Sessions -> SessionRow]
      /\ \A s \in Sessions : SessionRowOK(s)'
      /\ UnrevokedIsCurrent'
  BY <1>1, <1>3, SessionsStand
<1>5. OwnerRemains'
  <2>1. PICK q \in Principals : OwnerPresents(q)
    BY <1>1 DEF SomeOwnerPresents
  <2>2. q \in EnabledOwners /\ Registered(q)
    BY <2>1, PresentOwnerStands
  <2>3. q # p
    BY <1>1, <2>2
  <2> QED BY <1>3, <2>2, <2>3 DEF OwnerRemains, EnabledOwners
<1> QED BY <1>3, <1>4, <1>5
           DEF IdentityInv, IdentityTypeOK, SessionRowOK, PrincipalRowOK

(* An owner that is demoted or disabled leaves another one behind. *)
LEMMA SetRolesKeeps ==
  ASSUME IdentityInv, NEW p \in Principals, NEW roles \in RoleSets[p],
         SetRoles(p, roles)
  PROVE  IdentityInv'
<1>1. /\ SomeOwnerPresents /\ Registered(p) /\ UNCHANGED sessions
      /\ (p \in EnabledOwners /\ "owner" \notin roles) => NotLastEnabledOwner
      /\ principals' = [principals EXCEPT ![p].roles = roles]
  BY DEF SetRoles
<1>2. /\ principals[p].enabled \in BOOLEAN
      /\ principals[p].version \in 1..MaxVersion[p]
  BY <1>1 DEF IdentityInv, IdentityTypeOK, Registered
<1>3. /\ principals' \in [Principals -> PrincipalRow]
      /\ principals'[p].enabled = principals[p].enabled
      /\ principals'[p].version = principals[p].version
      /\ principals'[p].roles = roles
      /\ \A q \in Principals \ {p} : principals'[q] = principals[q]
      /\ \A q \in Principals : PrincipalRowOK(q)'
  <2> DEFINE a == principals[p]
             row == [a EXCEPT !.roles = roles]
  <2>1. a \in PrincipalRow /\ roles \in SUBSET Role
    BY IdentityAssumption DEF IdentityInv
  <2>2. /\ row \in PrincipalRow /\ row.enabled = a.enabled
        /\ row.version = a.version /\ row.roles = roles
    <3> HIDE DEF a
    <3> QED BY <2>1 DEF PrincipalRow
  <2>3. principals' = [principals EXCEPT ![p] = row]
    BY <1>1
  <2> HIDE DEF row
  <2>4. row.version # 0
    BY <1>2, <2>2
  <2>5. row # NoPrincipal
    BY <2>4 DEF NoPrincipal
  <2> QED BY <1>2, <2>2, <2>3, <2>5, PrincipalReplaced DEF PrincipalRowOK
<1>4. /\ sessions' \in [Sessions -> SessionRow]
      /\ \A s \in Sessions : SessionRowOK(s)'
      /\ UnrevokedIsCurrent'
  BY <1>1, <1>3, SessionsStand
<1>5. OwnerRemains'
  <2>1. EnabledOwners # {}
    BY <1>1, PresentOwnerStands DEF SomeOwnerPresents
  <2>2. CASE p \in EnabledOwners /\ "owner" \in roles
    BY <1>3, <2>2 DEF OwnerRemains, EnabledOwners
  <2>3. CASE p \notin EnabledOwners \/ "owner" \notin roles
    <3>1. PICK q \in EnabledOwners : q # p
      BY <1>1, <2>1, <2>3, AnotherOwner
    <3> QED BY <1>3, <3>1 DEF OwnerRemains, EnabledOwners
  <2> QED BY <2>2, <2>3
<1> QED BY <1>3, <1>4, <1>5
           DEF IdentityInv, IdentityTypeOK, SessionRowOK, PrincipalRowOK

LEMMA EnableKeeps ==
  ASSUME IdentityInv, NEW p \in Principals, EnablePrincipal(p)
  PROVE  IdentityInv'
<1>1. /\ SomeOwnerPresents /\ Registered(p) /\ UNCHANGED sessions
      /\ principals' = [principals EXCEPT ![p].enabled = TRUE]
  BY DEF EnablePrincipal
<1>2. /\ principals[p].roles \in RoleSets[p]
      /\ principals[p].version \in 1..MaxVersion[p]
  BY <1>1 DEF IdentityInv, IdentityTypeOK, Registered
<1>3. /\ principals' \in [Principals -> PrincipalRow]
      /\ principals'[p].enabled = TRUE
      /\ principals'[p].version = principals[p].version
      /\ principals'[p].roles = principals[p].roles
      /\ \A q \in Principals \ {p} : principals'[q] = principals[q]
      /\ \A q \in Principals : PrincipalRowOK(q)'
  BY <1>1, <1>2, PrincipalUpdated
<1>4. /\ sessions' \in [Sessions -> SessionRow]
      /\ \A s \in Sessions : SessionRowOK(s)'
      /\ UnrevokedIsCurrent'
  BY <1>1, <1>3, SessionsStand
<1>5. OwnerRemains'
  <2>1. PICK q \in EnabledOwners : TRUE
    BY <1>1, PresentOwnerStands DEF SomeOwnerPresents
  <2>2. q \in EnabledOwners'
    BY <1>3, <2>1 DEF EnabledOwners
  <2> QED BY <2>2 DEF OwnerRemains
<1> QED BY <1>3, <1>4, <1>5
           DEF IdentityInv, IdentityTypeOK, SessionRowOK, PrincipalRowOK

LEMMA DisableKeeps ==
  ASSUME IdentityInv, NEW p \in Principals, DisablePrincipal(p)
  PROVE  IdentityInv'
<1>1. /\ SomeOwnerPresents /\ Registered(p) /\ sessions' = Revoked(p)
      /\ p \in EnabledOwners => NotLastEnabledOwner
      /\ principals' = [principals EXCEPT ![p].enabled = FALSE]
  BY DEF DisablePrincipal
<1>2. /\ principals[p].roles \in RoleSets[p]
      /\ principals[p].version \in 1..MaxVersion[p]
  BY <1>1 DEF IdentityInv, IdentityTypeOK, Registered
<1>3. /\ principals' \in [Principals -> PrincipalRow]
      /\ \A q \in Principals \ {p} : principals'[q] = principals[q]
      /\ \A q \in Principals : PrincipalRowOK(q)'
  BY <1>1, <1>2, PrincipalUpdated
<1>4. /\ sessions' \in [Sessions -> SessionRow]
      /\ \A s \in Sessions :
           /\ sessions'[s].principal = sessions[s].principal
           /\ sessions'[s].version = sessions[s].version
           /\ sessions[s].principal = p => sessions'[s].revoked = TRUE
           /\ sessions[s].principal # p => sessions'[s] = sessions[s]
           /\ sessions[s] = NoSession => sessions'[s] = NoSession
  BY <1>1, RevokedRows
<1>5. \A s \in Sessions : SessionRowOK(s)'
  BY <1>4 DEF IdentityInv, IdentityTypeOK, SessionRowOK
<1>6. UnrevokedIsCurrent'
  BY <1>3, <1>4 DEF IdentityInv, UnrevokedIsCurrent
<1>7. OwnerRemains'
  <2>1. EnabledOwners # {}
    BY <1>1, PresentOwnerStands DEF SomeOwnerPresents
  <2>2. PICK q \in EnabledOwners : q # p
    BY <1>1, <2>1, AnotherOwner
  <2> QED BY <1>3, <2>2 DEF OwnerRemains, EnabledOwners
<1> QED BY <1>3, <1>4, <1>5, <1>6, <1>7
           DEF IdentityInv, IdentityTypeOK, SessionRowOK, PrincipalRowOK

LEMMA RotateKeeps ==
  ASSUME IdentityInv, NEW p \in Principals, NEW s \in Sessions,
         RotateCredential(p, s)
  PROVE  IdentityInv'
<1> DEFINE v == principals[p].version + 1
<1>1. /\ Presents(p) /\ sessions[s] = NoSession
      /\ principals[p].version < MaxVersion[p]
      /\ principals' = [principals EXCEPT ![p].version = v]
      /\ sessions' = [Revoked(p) EXCEPT ![s] = Issued(p, v)]
  BY DEF RotateCredential
<1>2. principals[p].enabled /\ Registered(p)
  BY <1>1, EnabledIsRegistered DEF Presents, Valid
<1>3. /\ principals[p].roles \in RoleSets[p]
      /\ principals[p].enabled \in BOOLEAN
      /\ principals[p].version \in Nat /\ MaxVersion[p] \in Nat
  BY <1>2, RegisteredRow, IdentityAssumption
<1>4. v \in 1..MaxVersion[p] /\ v \in Nat \ {0}
  BY <1>1, <1>3
<1> HIDE DEF v
<1>5. /\ principals' \in [Principals -> PrincipalRow]
      /\ principals'[p].enabled = principals[p].enabled
      /\ principals'[p].version = v
      /\ principals'[p].roles = principals[p].roles
      /\ \A q \in Principals \ {p} : principals'[q] = principals[q]
      /\ \A q \in Principals : PrincipalRowOK(q)'
  BY <1>1, <1>2, <1>3, <1>4, PrincipalUpdated
<1>6. /\ Issued(p, v) \in SessionRow
      /\ Issued(p, v).principal = p /\ Issued(p, v).version = v
      /\ Issued(p, v).revoked = FALSE
  BY <1>4, IssuedRow
<1>7. /\ sessions' \in [Sessions -> SessionRow]
      /\ sessions'[s] = Issued(p, v)
      /\ \A t \in Sessions \ {s} :
           /\ sessions'[t].principal = sessions[t].principal
           /\ sessions'[t].version = sessions[t].version
           /\ sessions[t].principal = p => sessions'[t].revoked = TRUE
           /\ sessions[t].principal # p => sessions'[t] = sessions[t]
           /\ sessions[t] = NoSession => sessions'[t] = NoSession
  BY <1>1, <1>6, RevokedRows
<1>8. \A t \in Sessions : SessionRowOK(t)'
  <2>1. SessionRowOK(s)'
    BY <1>4, <1>6, <1>7 DEF SessionRowOK
  <2>2. \A t \in Sessions \ {s} : SessionRowOK(t)'
    BY <1>7 DEF IdentityInv, IdentityTypeOK, SessionRowOK
  <2> QED BY <2>1, <2>2
<1>9. UnrevokedIsCurrent'
  <2> SUFFICES ASSUME NEW t \in Sessions, sessions'[t] # NoSession,
                      ~ sessions'[t].revoked
               PROVE  LET q == sessions'[t].principal
                      IN  /\ q \in Principals /\ principals'[q].enabled
                          /\ sessions'[t].version = principals'[q].version
    BY DEF UnrevokedIsCurrent
  <2>1. CASE t = s
    BY <2>1, <1>2, <1>5, <1>6, <1>7
  <2>2. CASE t # s
    <3>1. sessions'[t] = sessions[t] /\ sessions[t].principal # p
      BY <2>2, <1>7
    <3> QED BY <3>1, <1>5 DEF IdentityInv, UnrevokedIsCurrent
  <2> QED BY <2>1, <2>2
<1>10. OwnerRemains'
  <2>1. PICK q \in EnabledOwners : TRUE
    BY <1>2 DEF IdentityInv, OwnerRemains
  <2>2. q \in EnabledOwners'
    BY <1>5, <2>1 DEF EnabledOwners
  <2> QED BY <2>2 DEF OwnerRemains
<1> QED BY <1>5, <1>7, <1>8, <1>9, <1>10
           DEF IdentityInv, IdentityTypeOK, SessionRowOK, PrincipalRowOK

(* A row is revoked, or has expired: the others stand as they were. *)
LEMMA SessionEndsKeeps ==
  ASSUME IdentityInv, NEW s \in Sessions, RevokeSession(s) \/ Expire(s)
  PROVE  IdentityInv'
<1> DEFINE a == sessions[s]
           b == [a EXCEPT !.revoked = TRUE]
<1>0. UNCHANGED principals
  BY DEF RevokeSession, Expire
<1>1. a \in SessionRow /\ NoSession \in SessionRow
  BY DEF IdentityInv, SessionRow, NoSession
<1>2. b \in SessionRow /\ b.principal = a.principal /\ b.version = a.version
        /\ b.revoked = TRUE
  <2> HIDE DEF a
  <2> QED BY <1>1 DEF SessionRow
<1>3. \/ sessions' = [sessions EXCEPT ![s] = b]
      \/ sessions' = [sessions EXCEPT ![s] = NoSession]
  BY DEF RevokeSession, Expire
<1> HIDE DEF b
<1>4. /\ sessions' \in [Sessions -> SessionRow]
      /\ sessions'[s] \in {b, NoSession}
      /\ \A t \in Sessions \ {s} : sessions'[t] = sessions[t]
  BY <1>1, <1>2, <1>3 DEF IdentityInv
<1>5. a # NoSession
  BY DEF RevokeSession, Valid, Expire
<1>6. \A t \in Sessions : SessionRowOK(t)'
  <2>1. SessionRowOK(s)'
    BY <1>2, <1>4, <1>5 DEF SessionRowOK, IdentityInv, IdentityTypeOK
  <2>2. \A t \in Sessions \ {s} : SessionRowOK(t)'
    BY <1>4 DEF IdentityInv, IdentityTypeOK, SessionRowOK
  <2> QED BY <2>1, <2>2
<1>7. UnrevokedIsCurrent'
  BY <1>0, <1>2, <1>4 DEF IdentityInv, UnrevokedIsCurrent
<1>8. /\ principals' \in [Principals -> PrincipalRow]
      /\ \A q \in Principals : PrincipalRowOK(q)'
      /\ OwnerRemains'
  BY <1>0 DEF IdentityInv, IdentityTypeOK, PrincipalRowOK, OwnerRemains,
              EnabledOwners, Registered
<1> QED BY <1>4, <1>6, <1>7, <1>8
           DEF IdentityInv, IdentityTypeOK, SessionRowOK, PrincipalRowOK

LEMMA IdentityKeeps ==
  ASSUME IdentityInv, IdentityNext \/ UNCHANGED identity
  PROVE  IdentityInv'
<1>1. CASE IdentityNext
  BY <1>1, BootstrapKeeps, AuthenticateKeeps, RotateKeeps,
     CreatePrincipalKeeps, SetRolesKeeps, DisableKeeps, EnableKeeps,
     SessionEndsKeeps DEF IdentityNext
<1>2. CASE UNCHANGED identity
  BY <1>2 DEF identity, IdentityInv, IdentityTypeOK, UnrevokedIsCurrent,
              OwnerRemains, Registered, EnabledOwners
<1> QED BY <1>1, <1>2

LEMMA IdentityStarts == IdentityInit => IdentityInv
<1> SUFFICES ASSUME IdentityInit PROVE IdentityInv
  OBVIOUS
<1>1. NoPrincipal \in PrincipalRow /\ NoSession \in SessionRow
  BY DEF NoPrincipal, NoSession, PrincipalRow, SessionRow
<1> QED BY <1>1 DEF IdentityInit, IdentityInv, IdentityTypeOK,
                    UnrevokedIsCurrent, OwnerRemains, Registered

-----------------------------------------------------------------------------
(* Amounts as sets of units.                                               *)

(* An amount n of one row is n units. *)
LEMMA UnitsOfRow ==
  ASSUME NEW x, NEW n \in Nat
  PROVE  IsFiniteSet({x} \X (1..n)) /\ Cardinality({x} \X (1..n)) = n
<1>1. IsFiniteSet({x}) /\ Cardinality({x}) = 1
  BY FS_Singleton
<1>2. IsFiniteSet(1..n) /\ Cardinality(1..n) = n
  BY FS_Interval
<1>3. /\ IsFiniteSet({x} \X (1..n))
      /\ Cardinality({x} \X (1..n)) = Cardinality({x}) * Cardinality(1..n)
  BY <1>1, <1>2, FS_Product
<1> QED BY <1>1, <1>2, <1>3

(* The units of a new row add to the sum. *)
LEMMA UnitsAdd ==
  ASSUME NEW U, IsFiniteSet(U), NEW x, NEW n \in Nat,
         U \cap ({x} \X (1..n)) = {}
  PROVE  /\ IsFiniteSet(U \cup ({x} \X (1..n)))
         /\ Cardinality(U \cup ({x} \X (1..n))) = Cardinality(U) + n
<1> DEFINE V == {x} \X (1..n)
<1>1. IsFiniteSet(V) /\ Cardinality(V) = n
  BY UnitsOfRow
<1>2. Cardinality(U \cap V) = 0
  BY FS_EmptySet
<1>3. Cardinality(U) \in Nat
  BY FS_CardinalityType
<1> HIDE DEF V
<1>4. /\ IsFiniteSet(U \cup V)
      /\ Cardinality(U \cup V) =
           Cardinality(U) + Cardinality(V) - Cardinality(U \cap V)
  BY <1>1, FS_Union
<1>5. Cardinality(U \cup V) = Cardinality(U) + n
  BY <1>1, <1>2, <1>3, <1>4
<1> QED BY <1>4, <1>5 DEF V

(* Fewer units, a smaller sum. *)
LEMMA UnitsShrink ==
  ASSUME NEW U, NEW V, IsFiniteSet(U), V \subseteq U
  PROVE  IsFiniteSet(V) /\ Cardinality(V) <= Cardinality(U)
BY FS_Subset

-----------------------------------------------------------------------------
(* Approvals, grants and usage.                                            *)

UseRow == [key : Keys \cup {"effect"}, cost : Nat]

AuthorityType ==
  /\ run_state \in LoopState
  /\ tasks \in [Tasks -> TaskState]
  /\ claim \in [Tasks -> Principals \cup {NoOne}]
  /\ approvals \in [Approvals -> ApprovalRow \cup {NoApproval}]
  /\ grants \in [GrantIds -> GrantRow \cup {NoGrant}]
  /\ usage \in [GrantIds -> SUBSET UseRow]

(* used_count is the number of usage rows; uses and cost are in limits. *)
Counters ==
  \A g \in GrantIds :
    /\ IsFiniteSet(usage[g])
    /\ ~ Granted(g) => usage[g] = {}
    /\ Granted(g) => /\ grants[g].used_count = Cardinality(usage[g])
                     /\ grants[g].used_count <= grants[g].max_uses
                     /\ grants[g].cost_used <= grants[g].cost_limit

(***************************************************************************)
(* Behind every grant, live or not, stands a recorded approval of another  *)
(* principal that does not end before it.                                  *)
(***************************************************************************)
ApprovalBehind ==
  /\ \A a \in Approvals :
       Recorded(a) => approvals[a].requester # approvals[a].approver
  /\ \A g \in GrantIds : Granted(g) =>
       LET a == grants[g].approval IN
       /\ Recorded(a)
       /\ approvals[a].decision = "approved"
       /\ approvals[a].requester = grants[g].principal
       /\ grants[g].left <= approvals[a].left

GoalInv ==
  /\ IsFiniteSet(CostUnits(LiveProviderGrants))
  /\ IsFiniteSet(CallUnits(LiveProviderGrants))
  /\ GoalReservation

TaskInv ==
  /\ \A t \in Bound : /\ IsFiniteSet(SpentUnits(GrantsOf(t)))
                      /\ IsFiniteSet(UsesOf(GrantsOf(t)))
  /\ TaskNeverOverspends

Inv ==
  /\ IdentityInv
  /\ AuthorityType
  /\ Counters
  /\ ApprovalBehind
  /\ GoalInv
  /\ TaskInv

(* A row of the tables is never mistaken for no row. *)
LEMMA RowsAreRows ==
  /\ \A r \in ApprovalRow : r # NoApproval
  /\ \A r \in GrantRow : r # NoGrant
<1>1. ASSUME NEW r \in ApprovalRow, r = NoApproval PROVE FALSE
  <2>1. "left" \in DOMAIN r
    BY DEF ApprovalRow
  <2>2. "left" \notin DOMAIN NoApproval
    BY DEF NoApproval
  <2> QED BY <1>1, <2>1, <2>2
<1>2. ASSUME NEW r \in GrantRow, r = NoGrant PROVE FALSE
  <2>1. "left" \in DOMAIN r
    BY DEF GrantRow
  <2>2. "left" \notin DOMAIN NoGrant
    BY DEF NoGrant
  <2> QED BY <1>2, <2>1, <2>2
<1> QED BY <1>1, <1>2

LEMMA ApprovalFacts ==
  ASSUME AuthorityType, NEW a \in Approvals, Recorded(a)
  PROVE  /\ approvals[a] \in ApprovalRow
         /\ approvals[a].request \in Requests
         /\ approvals[a].left \in Nat
<1>1. approvals[a] \in ApprovalRow
  BY DEF AuthorityType, Recorded
<1> QED BY <1>1 DEF ApprovalRow

LEMMA GrantFacts ==
  ASSUME AuthorityType, NEW g \in GrantIds, Granted(g)
  PROVE  /\ grants[g] \in GrantRow
         /\ grants[g].approval \in Approvals
         /\ grants[g].principal \in Principals
         /\ grants[g].left \in Nat
         /\ grants[g].max_uses \in Nat /\ grants[g].used_count \in Nat
         /\ grants[g].cost_limit \in Nat /\ grants[g].cost_used \in Nat
         /\ grants[g].revoked \in BOOLEAN
<1>1. grants[g] \in GrantRow
  BY DEF AuthorityType, Granted
<1> QED BY <1>1 DEF GrantRow

(* Which grants there are, and for which requests, has not changed. *)
SameRequests ==
  /\ \A g \in GrantIds : /\ Granted(g)' <=> Granted(g)
                         /\ Granted(g) => RequestOf(g)' = RequestOf(g)

LEMMA SameProviders ==
  ASSUME SameRequests
  PROVE  /\ ProviderGrants' = ProviderGrants
         /\ \A t \in Tasks : GrantsOf(t)' = GrantsOf(t)
<1>1. ProviderGrants' = ProviderGrants
  BY DEF SameRequests, ProviderGrants
<1>2. \A g \in ProviderGrants : RequestOf(g)' = RequestOf(g)
  BY DEF SameRequests, ProviderGrants
<1> QED BY <1>1, <1>2 DEF GrantsOf

(* No more is reserved than was: the goal's budget still holds. *)
LEMMA GoalShrinks ==
  ASSUME GoalInv, LiveProviderGrants' \subseteq LiveProviderGrants,
         \A g \in LiveProviderGrants :
           /\ grants'[g].cost_limit = grants[g].cost_limit
           /\ grants'[g].max_uses = grants[g].max_uses
  PROVE  GoalInv'
<1>1. CostUnits(LiveProviderGrants)' \subseteq CostUnits(LiveProviderGrants)
  BY DEF CostUnits
<1>2. CallUnits(LiveProviderGrants)' \subseteq CallUnits(LiveProviderGrants)
  BY DEF CallUnits
<1>3. /\ Cardinality(CostUnits(LiveProviderGrants)) \in Nat
      /\ Cardinality(CallUnits(LiveProviderGrants)) \in Nat
      /\ Cardinality(CostUnits(LiveProviderGrants)) <= GoalBudget
      /\ Cardinality(CallUnits(LiveProviderGrants)) <= GoalCalls
  BY FS_CardinalityType DEF GoalInv, GoalReservation, ReservedCost,
                            ReservedCalls
<1>4. /\ IsFiniteSet(CostUnits(LiveProviderGrants)')
      /\ Cardinality(CostUnits(LiveProviderGrants)')
           <= Cardinality(CostUnits(LiveProviderGrants))
      /\ Cardinality(CostUnits(LiveProviderGrants)') \in Nat
  BY <1>1, UnitsShrink, FS_CardinalityType DEF GoalInv
<1>5. /\ IsFiniteSet(CallUnits(LiveProviderGrants)')
      /\ Cardinality(CallUnits(LiveProviderGrants)')
           <= Cardinality(CallUnits(LiveProviderGrants))
      /\ Cardinality(CallUnits(LiveProviderGrants)') \in Nat
  BY <1>2, UnitsShrink, FS_CardinalityType DEF GoalInv
<1>6. /\ Cardinality(CostUnits(LiveProviderGrants)') <= GoalBudget
      /\ Cardinality(CallUnits(LiveProviderGrants)') <= GoalCalls
  BY <1>3, <1>4, <1>5, GrantsAssumption
<1> QED BY <1>4, <1>5, <1>6 DEF GoalInv, GoalReservation, ReservedCost,
                                ReservedCalls

(* No use is recorded: what each task has spent is what it had spent. *)
LEMMA TaskSpendsNothing ==
  ASSUME TaskInv, UNCHANGED usage,
         \A t \in Bound : \A g \in GrantsOf(t)' :
           g \in GrantsOf(t) \/ usage[g] = {}
  PROVE  TaskInv'
<1> SUFFICES ASSUME NEW t \in Bound
             PROVE  /\ IsFiniteSet(SpentUnits(GrantsOf(t))')
                    /\ IsFiniteSet(UsesOf(GrantsOf(t))')
                    /\ Cardinality(SpentUnits(GrantsOf(t))') <= TaskBudget[t]
                    /\ Cardinality(UsesOf(GrantsOf(t))') <= TaskCalls[t]
  BY DEF TaskInv, TaskNeverOverspends, SpentCost, SpentCalls
<1>1. UsesOf(GrantsOf(t))' \subseteq UsesOf(GrantsOf(t))
  BY DEF UsesOf
<1>2. SpentUnits(GrantsOf(t))' \subseteq SpentUnits(GrantsOf(t))
  BY <1>1 DEF SpentUnits
<1>3. /\ IsFiniteSet(SpentUnits(GrantsOf(t)))
      /\ IsFiniteSet(UsesOf(GrantsOf(t)))
      /\ Cardinality(SpentUnits(GrantsOf(t))) <= TaskBudget[t]
      /\ Cardinality(UsesOf(GrantsOf(t))) <= TaskCalls[t]
  BY DEF TaskInv, TaskNeverOverspends, SpentCost, SpentCalls
<1>4. TaskBudget[t] \in Nat /\ TaskCalls[t] \in Nat
  BY GrantsAssumption
<1>5. /\ Cardinality(SpentUnits(GrantsOf(t))) \in Nat
      /\ Cardinality(UsesOf(GrantsOf(t))) \in Nat
  BY <1>3, FS_CardinalityType
<1>6. /\ IsFiniteSet(SpentUnits(GrantsOf(t))')
      /\ Cardinality(SpentUnits(GrantsOf(t))')
           <= Cardinality(SpentUnits(GrantsOf(t)))
      /\ Cardinality(SpentUnits(GrantsOf(t))') \in Nat
  BY <1>2, <1>3, UnitsShrink, FS_CardinalityType
<1>7. /\ IsFiniteSet(UsesOf(GrantsOf(t))')
      /\ Cardinality(UsesOf(GrantsOf(t))')
           <= Cardinality(UsesOf(GrantsOf(t)))
      /\ Cardinality(UsesOf(GrantsOf(t))') \in Nat
  BY <1>1, <1>3, UnitsShrink, FS_CardinalityType
<1> QED BY <1>3, <1>4, <1>5, <1>6, <1>7

(* A step that leaves approvals, grants and usage alone. *)
LEMMA ElsewhereKeeps ==
  ASSUME Inv, IdentityInv', UNCHANGED authority,
         run_state' \in LoopState, tasks' \in [Tasks -> TaskState],
         claim' \in [Tasks -> Principals \cup {NoOne}]
  PROVE  Inv'
<1>1. UNCHANGED approvals /\ UNCHANGED grants /\ UNCHANGED usage
  BY DEF authority
<1>2. AuthorityType'
  BY <1>1 DEF Inv, AuthorityType
<1>3. Counters' /\ ApprovalBehind'
  BY <1>1 DEF Inv, Counters, ApprovalBehind, Granted, Recorded
<1>4. SameRequests
  BY <1>1 DEF SameRequests, Granted, RequestOf
<1>5. LiveProviderGrants' = LiveProviderGrants
  BY <1>1, <1>4, SameProviders DEF LiveProviderGrants, LiveGrant, Granted
<1>6. GoalInv'
  BY <1>1, <1>5, GoalShrinks DEF Inv
<1>7. TaskInv'
  BY <1>1, <1>4, SameProviders, TaskSpendsNothing, GrantsAssumption DEF Inv
<1> QED BY <1>2, <1>3, <1>6, <1>7 DEF Inv

LEMMA RecordApprovalKeeps ==
  ASSUME Inv, NEW a \in Approvals, NEW q \in Requests,
         NEW r \in Principals, NEW o \in Principals,
         NEW decision \in {"approved", "denied"}, NEW ttl \in Nat,
         RecordApproval(a, q, r, o, decision, ttl)
  PROVE  Inv'
<1> DEFINE row == [request |-> q, requester |-> r, approver |-> o,
                   decision |-> decision, left |-> ttl]
<1>1. /\ ~ Recorded(a) /\ r # o
      /\ approvals' = [approvals EXCEPT ![a] = row]
      /\ UNCHANGED identity /\ UNCHANGED <<run_state, tasks, claim>>
      /\ UNCHANGED grants /\ UNCHANGED usage
  BY DEF RecordApproval, supervision
<1>2. row \in ApprovalRow /\ row.requester = r /\ row.approver = o
  BY DEF ApprovalRow
<1> HIDE DEF row
<1>3. IdentityInv'
  BY <1>1, IdentityKeeps DEF Inv
<1>4. AuthorityType'
  BY <1>1, <1>2 DEF Inv, AuthorityType
<1>5. \A b \in Approvals : b # a => approvals'[b] = approvals[b]
  BY <1>1 DEF Inv, AuthorityType
<1>6. approvals'[a] = row
  BY <1>1 DEF Inv, AuthorityType
<1>7. Counters'
  BY <1>1 DEF Inv, Counters, Granted
<1>8. \A g \in GrantIds : Granted(g) =>
        /\ grants[g].approval \in Approvals /\ grants[g].approval # a
        /\ approvals'[grants[g].approval] = approvals[grants[g].approval]
  BY <1>1, <1>5, GrantFacts DEF Inv, ApprovalBehind
<1>9. ApprovalBehind'
  <2>1. \A b \in Approvals :
          Recorded(b)' => approvals'[b].requester # approvals'[b].approver
    BY <1>1, <1>2, <1>5, <1>6 DEF Inv, ApprovalBehind, Recorded
  <2>2. \A g \in GrantIds : Granted(g)' =>
          LET b == grants'[g].approval IN
          /\ approvals'[b] # NoApproval
          /\ approvals'[b].decision = "approved"
          /\ approvals'[b].requester = grants'[g].principal
          /\ grants'[g].left <= approvals'[b].left
    BY <1>1, <1>8 DEF Inv, ApprovalBehind, Recorded, Granted
  <2> QED BY <2>1, <2>2 DEF ApprovalBehind, Recorded, Granted
<1>10. SameRequests
  BY <1>1, <1>8 DEF SameRequests, Granted, RequestOf
<1>11. LiveProviderGrants' = LiveProviderGrants
  BY <1>1, <1>10, SameProviders DEF LiveProviderGrants, LiveGrant, Granted
<1>12. GoalInv'
  BY <1>1, <1>11, GoalShrinks DEF Inv
<1>13. TaskInv'
  BY <1>1, <1>10, SameProviders, TaskSpendsNothing, GrantsAssumption DEF Inv
<1> QED BY <1>3, <1>4, <1>7, <1>9, <1>12, <1>13 DEF Inv

(* A new grant: within the approval, and what it reserves within the goal. *)
LEMMA IssueGrantKeeps ==
  ASSUME Inv, NEW g \in GrantIds, NEW a \in Approvals, NEW i \in Principals,
         NEW p \in Principals, NEW max_uses \in Nat, NEW cost_limit \in Nat,
         NEW ttl \in Nat,
         IssueGrant(g, a, i, p, max_uses, cost_limit, ttl)
  PROVE  Inv'
<1> DEFINE row == NewGrant(a, p, max_uses, cost_limit, ttl)
           q == approvals[a].request
<1>1. /\ ~ Granted(g) /\ LiveApproval(a)
      /\ approvals[a].approver = i /\ approvals[a].requester = p
      /\ CapabilityOf[q] = "provider_cost" =>
           ReservationFits(TaskOf[q], max_uses, cost_limit)
      /\ ttl <= approvals[a].left
      /\ grants' = [grants EXCEPT ![g] = row]
      /\ UNCHANGED identity /\ UNCHANGED <<run_state, tasks, claim>>
      /\ UNCHANGED approvals /\ UNCHANGED usage
  BY DEF IssueGrant, supervision, WithinApproval
<1>2. /\ row \in GrantRow /\ row.approval = a /\ row.principal = p
      /\ row.left = ttl /\ row.max_uses = max_uses /\ row.used_count = 0
      /\ row.cost_limit = cost_limit /\ row.cost_used = 0
  BY DEF GrantRow, NewGrant
<1> HIDE DEF row
<1>3. /\ grants'[g] = row
      /\ \A h \in GrantIds \ {g} : grants'[h] = grants[h]
  BY <1>1 DEF Inv, AuthorityType
<1>4. Recorded(a) /\ approvals[a].decision = "approved"
  BY <1>1 DEF LiveApproval
<1>5. IdentityInv'
  BY <1>1, IdentityKeeps DEF Inv
<1>6. AuthorityType'
  BY <1>1, <1>2 DEF Inv, AuthorityType
<1>7. usage[g] = {} /\ Granted(g)'
  BY <1>1, <1>2, <1>3, RowsAreRows DEF Inv, Counters, Granted
<1>8. Counters'
  <2> SUFFICES ASSUME NEW h \in GrantIds
               PROVE  Counters!(h)'
    BY DEF Counters
  <2>1. CASE h = g
    <3>1. Cardinality(usage'[g]) = 0 /\ IsFiniteSet(usage'[g])
      BY <1>1, <1>7, FS_EmptySet
    <3> QED BY <2>1, <3>1, <1>1, <1>2, <1>3, <1>7
  <2>2. CASE h # g
    BY <2>2, <1>1, <1>3 DEF Inv, Counters, Granted
  <2> QED BY <2>1, <2>2
<1>9. ApprovalBehind'
  <2>1. \A b \in Approvals :
          Recorded(b)' => approvals'[b].requester # approvals'[b].approver
    BY <1>1 DEF Inv, ApprovalBehind, Recorded
  <2>2. ASSUME NEW h \in GrantIds, Granted(h)'
        PROVE  LET b == grants'[h].approval IN
               /\ approvals'[b] # NoApproval
               /\ approvals'[b].decision = "approved"
               /\ approvals'[b].requester = grants'[h].principal
               /\ grants'[h].left <= approvals'[b].left
    <3>1. CASE h = g
      BY <3>1, <1>1, <1>2, <1>3, <1>4 DEF Recorded
    <3>2. CASE h # g
      BY <3>2, <2>2, <1>1, <1>3 DEF Inv, ApprovalBehind, Recorded, Granted
    <3> QED BY <3>1, <3>2
  <2> QED BY <2>1, <2>2 DEF ApprovalBehind, Recorded, Granted
<1>10. /\ g \notin ProviderGrants
       /\ \A h \in GrantIds \ {g} : /\ Granted(h)' <=> Granted(h)
                                    /\ RequestOf(h)' = RequestOf(h)
                                    /\ LiveGrant(h)' <=> LiveGrant(h)
       /\ RequestOf(g)' = q
  BY <1>1, <1>2, <1>3
     DEF ProviderGrants, Granted, RequestOf, LiveGrant
<1>11. /\ ProviderGrants' \subseteq ProviderGrants \cup {g}
       /\ LiveProviderGrants' \subseteq LiveProviderGrants \cup {g}
       /\ g \in ProviderGrants' => CapabilityOf[q] = "provider_cost"
       /\ g \notin LiveProviderGrants
  BY <1>10 DEF ProviderGrants, LiveProviderGrants
<1>12. GoalInv'
  <2>0. \A h \in LiveProviderGrants :
          /\ grants'[h].cost_limit = grants[h].cost_limit
          /\ grants'[h].max_uses = grants[h].max_uses
    BY <1>3, <1>11 DEF LiveProviderGrants, ProviderGrants
  <2>1. CASE g \notin LiveProviderGrants'
    BY <2>0, <2>1, <1>11, GoalShrinks DEF Inv
  <2>2. CASE g \in LiveProviderGrants'
    <3> DEFINE L == LiveProviderGrants
               cost == CostUnits(L)
               calls == CallUnits(L)
    <3>1. ReservationFits(TaskOf[q], max_uses, cost_limit)
      BY <2>2, <1>1, <1>11 DEF LiveProviderGrants
    <3>2. /\ Cardinality(cost) + cost_limit <= GoalBudget
          /\ Cardinality(calls) + max_uses <= GoalCalls
      BY <3>1 DEF ReservationFits, ReservedCost, ReservedCalls
    <3>3. /\ CostUnits(L)' \subseteq cost \cup ({g} \X (1..cost_limit))
          /\ CallUnits(L)' \subseteq calls \cup ({g} \X (1..max_uses))
      BY <2>0, <1>2, <1>3, <1>11 DEF CostUnits, CallUnits
    <3>4. /\ cost \cap ({g} \X (1..cost_limit)) = {}
          /\ calls \cap ({g} \X (1..max_uses)) = {}
      BY <1>11 DEF CostUnits, CallUnits
    <3>5. /\ IsFiniteSet(cost \cup ({g} \X (1..cost_limit)))
          /\ Cardinality(cost \cup ({g} \X (1..cost_limit)))
               = Cardinality(cost) + cost_limit
      BY <3>4, UnitsAdd DEF Inv, GoalInv
    <3>6. /\ IsFiniteSet(calls \cup ({g} \X (1..max_uses)))
          /\ Cardinality(calls \cup ({g} \X (1..max_uses)))
               = Cardinality(calls) + max_uses
      BY <3>4, UnitsAdd DEF Inv, GoalInv
    <3>7. /\ IsFiniteSet(CostUnits(L)') /\ IsFiniteSet(CallUnits(L)')
          /\ Cardinality(CostUnits(L)') <= Cardinality(cost) + cost_limit
          /\ Cardinality(CallUnits(L)') <= Cardinality(calls) + max_uses
      BY <3>3, <3>5, <3>6, UnitsShrink
    <3>8. /\ Cardinality(cost) \in Nat /\ Cardinality(calls) \in Nat
          /\ Cardinality(CostUnits(L)') \in Nat
          /\ Cardinality(CallUnits(L)') \in Nat
      BY <3>7, FS_CardinalityType DEF Inv, GoalInv
    <3>9. /\ Cardinality(CostUnits(L)') <= GoalBudget
          /\ Cardinality(CallUnits(L)') <= GoalCalls
      BY <3>2, <3>7, <3>8, GrantsAssumption
    <3> QED BY <3>7, <3>9 DEF GoalInv, GoalReservation, ReservedCost,
                              ReservedCalls
  <2> QED BY <2>1, <2>2
<1>13. TaskInv'
  <2>1. \A t \in Bound : \A h \in GrantsOf(t)' :
          h \in GrantsOf(t) \/ usage[h] = {}
    BY <1>7, <1>10 DEF GrantsOf, ProviderGrants
  <2> QED BY <2>1, <1>1, TaskSpendsNothing DEF Inv
<1> QED BY <1>5, <1>6, <1>8, <1>9, <1>12, <1>13 DEF Inv

LEMMA RevokeGrantKeeps ==
  ASSUME Inv, NEW g \in GrantIds, RevokeGrant(g)
  PROVE  Inv'
<1> DEFINE b == grants[g]
           row == [b EXCEPT !.revoked = TRUE]
<1>1. /\ Granted(g) /\ grants' = [grants EXCEPT ![g] = row]
      /\ UNCHANGED identity /\ UNCHANGED <<run_state, tasks, claim>>
      /\ UNCHANGED approvals /\ UNCHANGED usage
  BY DEF RevokeGrant, supervision
<1>2. b \in GrantRow
  BY <1>1, GrantFacts DEF Inv
<1>3. /\ row \in GrantRow /\ row.revoked = TRUE
      /\ row.approval = b.approval /\ row.principal = b.principal
      /\ row.left = b.left /\ row.max_uses = b.max_uses
      /\ row.used_count = b.used_count /\ row.cost_limit = b.cost_limit
      /\ row.cost_used = b.cost_used
  <2> HIDE DEF b
  <2> QED BY <1>2 DEF GrantRow
<1> HIDE DEF row
<1>4. /\ grants'[g] = row
      /\ \A h \in GrantIds \ {g} : grants'[h] = grants[h]
  BY <1>1 DEF Inv, AuthorityType
<1>5. IdentityInv' /\ AuthorityType'
  BY <1>1, <1>3, IdentityKeeps DEF Inv, AuthorityType
<1>6. \A h \in GrantIds :
        /\ Granted(h)' <=> Granted(h)
        /\ Granted(h) =>
             /\ grants'[h].approval = grants[h].approval
             /\ grants'[h].principal = grants[h].principal
             /\ grants'[h].left = grants[h].left
             /\ grants'[h].max_uses = grants[h].max_uses
             /\ grants'[h].used_count = grants[h].used_count
             /\ grants'[h].cost_limit = grants[h].cost_limit
             /\ grants'[h].cost_used = grants[h].cost_used
             /\ grants'[h].revoked = grants[h].revoked \/ grants'[h].revoked
  BY <1>1, <1>3, <1>4, RowsAreRows DEF Granted
<1>7. Counters'
  BY <1>1, <1>6 DEF Inv, Counters
<1>8. ApprovalBehind'
  <2>1. \A c \in Approvals :
          Recorded(c)' => approvals'[c].requester # approvals'[c].approver
    BY <1>1 DEF Inv, ApprovalBehind, Recorded
  <2>2. \A h \in GrantIds : Granted(h)' =>
          LET c == grants'[h].approval IN
          /\ approvals'[c] # NoApproval
          /\ approvals'[c].decision = "approved"
          /\ approvals'[c].requester = grants'[h].principal
          /\ grants'[h].left <= approvals'[c].left
    BY <1>1, <1>6 DEF Inv, ApprovalBehind, Recorded
  <2> QED BY <2>1, <2>2 DEF ApprovalBehind, Recorded
<1>9. SameRequests
  BY <1>1, <1>6 DEF SameRequests, RequestOf
<1>10. LiveProviderGrants' \subseteq LiveProviderGrants
  BY <1>6, <1>9, SameProviders DEF LiveProviderGrants, LiveGrant,
                                   ProviderGrants
<1>11. GoalInv'
  BY <1>6, <1>10, GoalShrinks DEF Inv, LiveProviderGrants, ProviderGrants
<1>12. TaskInv'
  BY <1>1, <1>9, SameProviders, TaskSpendsNothing, GrantsAssumption DEF Inv
<1> QED BY <1>5, <1>7, <1>8, <1>11, <1>12 DEF Inv

(* A use: one row and one charge, within the grant and the task budget. *)
LEMMA SpendKeeps ==
  ASSUME Inv, NEW g \in GrantIds, NEW key \in Keys \cup {"effect"},
         NEW cost \in Nat, Granted(g), Spend(g, key, cost)
  PROVE  Inv'
<1> DEFINE b == grants[g]
           c1 == [b EXCEPT !.used_count = b.used_count + 1]
           row == [c1 EXCEPT !.cost_used = c1.cost_used + cost]
           u == [key |-> key, cost |-> cost]
<1>1. /\ \A v \in usage[g] : v.key # key
      /\ b.used_count < b.max_uses /\ b.cost_used + cost <= b.cost_limit
      /\ CapabilityOf[RequestOf(g)] = "provider_cost" =>
           SpendFits(TaskOf[RequestOf(g)], cost)
      /\ usage' = [usage EXCEPT ![g] = usage[g] \cup {u}]
      /\ grants' = Charged(g, cost)
      /\ UNCHANGED identity /\ UNCHANGED <<run_state, tasks, claim>>
      /\ UNCHANGED approvals
  BY DEF Spend, supervision
<1>2. /\ b \in GrantRow /\ b.used_count \in Nat /\ b.cost_used \in Nat
      /\ b.max_uses \in Nat /\ b.cost_limit \in Nat
  BY GrantFacts DEF Inv
<1>3. grants' = [grants EXCEPT ![g] = row]
  BY <1>1 DEF Charged, Inv, AuthorityType
<1>4. /\ row \in GrantRow /\ row.revoked = b.revoked
      /\ row.approval = b.approval /\ row.principal = b.principal
      /\ row.left = b.left /\ row.max_uses = b.max_uses
      /\ row.used_count = b.used_count + 1 /\ row.cost_limit = b.cost_limit
      /\ row.cost_used = b.cost_used + cost
  <2> HIDE DEF b
  <2>1. b.used_count + 1 \in Nat /\ b.cost_used + cost \in Nat
    BY <1>2
  <2>2. /\ c1 \in GrantRow /\ c1.revoked = b.revoked
        /\ c1.approval = b.approval /\ c1.principal = b.principal
        /\ c1.left = b.left /\ c1.max_uses = b.max_uses
        /\ c1.used_count = b.used_count + 1
        /\ c1.cost_limit = b.cost_limit /\ c1.cost_used = b.cost_used
    BY <1>2, <2>1 DEF GrantRow
  <2> HIDE DEF c1
  <2> QED BY <2>1, <2>2 DEF GrantRow
<1>5. u \in UseRow /\ u.key = key /\ u.cost = cost
  BY DEF UseRow
<1>6. u \notin usage[g]
  BY <1>1, <1>5
<1> HIDE DEF row, u
<1>7. /\ grants'[g] = row /\ usage'[g] = usage[g] \cup {u}
      /\ \A h \in GrantIds \ {g} :
           grants'[h] = grants[h] /\ usage'[h] = usage[h]
  BY <1>1, <1>3 DEF Inv, AuthorityType
<1>8. IdentityInv' /\ AuthorityType'
  BY <1>1, <1>3, <1>4, <1>5, IdentityKeeps DEF Inv, AuthorityType
<1>9. \A h \in GrantIds :
        /\ Granted(h)' <=> Granted(h)
        /\ Granted(h) =>
             /\ grants'[h].approval = grants[h].approval
             /\ grants'[h].principal = grants[h].principal
             /\ grants'[h].left = grants[h].left
             /\ grants'[h].max_uses = grants[h].max_uses
             /\ grants'[h].cost_limit = grants[h].cost_limit
             /\ grants'[h].revoked = grants[h].revoked
  BY <1>4, <1>7, RowsAreRows DEF Granted
<1>10. Counters'
  <2> SUFFICES ASSUME NEW h \in GrantIds
               PROVE  Counters!(h)'
    BY DEF Counters
  <2>1. CASE h = g
    <3>1. /\ IsFiniteSet(usage[g]) /\ b.used_count = Cardinality(usage[g])
      BY DEF Inv, Counters
    <3>2. /\ IsFiniteSet(usage[g] \cup {u})
          /\ Cardinality(usage[g] \cup {u}) = Cardinality(usage[g]) + 1
      BY <3>1, <1>6, FS_AddElement
    <3>3. row.used_count = Cardinality(usage[g] \cup {u})
      BY <3>1, <3>2, <1>4
    <3>4. row.used_count <= row.max_uses /\ row.cost_used <= row.cost_limit
      BY <1>1, <1>2, <1>4
    <3> QED BY <2>1, <3>2, <3>3, <3>4, <1>7, <1>9
  <2>2. CASE h # g
    BY <2>2, <1>7, <1>9 DEF Inv, Counters
  <2> QED BY <2>1, <2>2
<1>11. ApprovalBehind'
  <2>1. \A c \in Approvals :
          Recorded(c)' => approvals'[c].requester # approvals'[c].approver
    BY <1>1 DEF Inv, ApprovalBehind, Recorded
  <2>2. \A h \in GrantIds : Granted(h)' =>
          LET c == grants'[h].approval IN
          /\ approvals'[c] # NoApproval
          /\ approvals'[c].decision = "approved"
          /\ approvals'[c].requester = grants'[h].principal
          /\ grants'[h].left <= approvals'[c].left
    BY <1>1, <1>9 DEF Inv, ApprovalBehind, Recorded
  <2> QED BY <2>1, <2>2 DEF ApprovalBehind, Recorded
<1>12. SameRequests
  BY <1>1, <1>9 DEF SameRequests, RequestOf
<1>13. LiveProviderGrants' \subseteq LiveProviderGrants
  BY <1>9, <1>12, SameProviders DEF LiveProviderGrants, LiveGrant,
                                    ProviderGrants
<1>14. GoalInv'
  BY <1>9, <1>13, GoalShrinks DEF Inv, LiveProviderGrants, ProviderGrants
<1>15. TaskInv'
  <2> SUFFICES ASSUME NEW t \in Bound
               PROVE  /\ IsFiniteSet(SpentUnits(GrantsOf(t))')
                      /\ IsFiniteSet(UsesOf(GrantsOf(t))')
                      /\ Cardinality(SpentUnits(GrantsOf(t))')
                           <= TaskBudget[t]
                      /\ Cardinality(UsesOf(GrantsOf(t))') <= TaskCalls[t]
    BY DEF TaskInv, TaskNeverOverspends, SpentCost, SpentCalls
  <2> DEFINE G == GrantsOf(t)
             uses == UsesOf(G)
             units == SpentUnits(G)
             new == <<g, u>>
  <2>1. GrantsOf(t)' = G
    BY <1>12, SameProviders, GrantsAssumption
  <2>2. /\ IsFiniteSet(units) /\ IsFiniteSet(uses)
        /\ Cardinality(units) <= TaskBudget[t]
        /\ Cardinality(uses) <= TaskCalls[t]
    BY DEF Inv, TaskInv, TaskNeverOverspends, SpentCost, SpentCalls
  <2>3. \A h \in G : h \in GrantIds
    BY DEF GrantsOf, ProviderGrants
  <2>4. CASE g \notin G
    <3>1. UsesOf(GrantsOf(t))' = uses
      BY <2>1, <2>3, <2>4, <1>7 DEF UsesOf
    <3>2. SpentUnits(GrantsOf(t))' = units
      BY <3>1 DEF SpentUnits
    <3> QED BY <2>2, <3>1, <3>2
  <2>5. CASE g \in G
    <3>1. /\ Cardinality(units) + cost <= TaskBudget[t]
          /\ Cardinality(uses) + 1 <= TaskCalls[t]
      BY <2>5, <1>1 DEF SpendFits, SpentCost, SpentCalls, GrantsOf,
                        ProviderGrants
    <3>2. UsesOf(GrantsOf(t))' = uses \cup {new}
      BY <2>1, <2>3, <2>5, <1>7 DEF UsesOf
    <3>3. new \notin uses
      BY <1>6 DEF UsesOf
    <3>4. new[2].cost = cost
      BY <1>5
    <3>5. SpentUnits(GrantsOf(t))' = units \cup ({new} \X (1..cost))
      BY <3>2, <3>4 DEF SpentUnits
    <3>6. units \cap ({new} \X (1..cost)) = {}
      BY <3>3 DEF SpentUnits
    <3>7. /\ IsFiniteSet(units \cup ({new} \X (1..cost)))
          /\ Cardinality(units \cup ({new} \X (1..cost)))
               = Cardinality(units) + cost
      BY <2>2, <3>6, UnitsAdd
    <3>8. /\ IsFiniteSet(uses \cup {new})
          /\ Cardinality(uses \cup {new}) = Cardinality(uses) + 1
      BY <2>2, <3>3, FS_AddElement
    <3> QED BY <3>1, <3>2, <3>5, <3>7, <3>8
  <2> QED BY <2>4, <2>5
<1> QED BY <1>8, <1>10, <1>11, <1>14, <1>15 DEF Inv
LEMMA OlderFacts ==
  /\ \A n \in Nat : Older(n) \in Nat /\ Older(n) <= n
  /\ \A m, n \in Nat : m <= n => Older(m) <= Older(n)
BY DEF Older

(* A tick ages approvals and grants alike: a grant still ends first. *)
LEMMA TickKeeps ==
  ASSUME Inv, Tick
  PROVE  Inv'
<1> DEFINE olderA(a) == [approvals[a] EXCEPT !.left = Older(approvals[a].left)]
           olderG(g) == [grants[g] EXCEPT !.left = Older(grants[g].left)]
<1>1. /\ approvals' = [a \in Approvals |-> IF Recorded(a) THEN olderA(a)
                                                          ELSE approvals[a]]
      /\ grants' = [g \in GrantIds |-> IF Granted(g) THEN olderG(g)
                                                     ELSE grants[g]]
      /\ UNCHANGED identity /\ UNCHANGED <<run_state, tasks, claim>>
      /\ UNCHANGED usage
  BY DEF Tick, supervision
<1>2. ASSUME NEW a \in Approvals, Recorded(a)
      PROVE  /\ olderA(a) \in ApprovalRow
             /\ olderA(a).request = approvals[a].request
             /\ olderA(a).requester = approvals[a].requester
             /\ olderA(a).approver = approvals[a].approver
             /\ olderA(a).decision = approvals[a].decision
             /\ olderA(a).left = Older(approvals[a].left)
  <2> DEFINE r == approvals[a]
  <2>1. r \in ApprovalRow /\ Older(r.left) \in Nat
    BY <1>2, ApprovalFacts, OlderFacts DEF Inv
  <2> HIDE DEF r
  <2>2. LET s == [r EXCEPT !.left = Older(r.left)] IN
        /\ s \in ApprovalRow /\ s.request = r.request
        /\ s.requester = r.requester /\ s.approver = r.approver
        /\ s.decision = r.decision /\ s.left = Older(r.left)
    BY <2>1 DEF ApprovalRow
  <2> QED BY <2>2 DEF r
<1>3. ASSUME NEW g \in GrantIds, Granted(g)
      PROVE  /\ olderG(g) \in GrantRow
             /\ olderG(g).approval = grants[g].approval
             /\ olderG(g).principal = grants[g].principal
             /\ olderG(g).max_uses = grants[g].max_uses
             /\ olderG(g).used_count = grants[g].used_count
             /\ olderG(g).cost_limit = grants[g].cost_limit
             /\ olderG(g).cost_used = grants[g].cost_used
             /\ olderG(g).revoked = grants[g].revoked
             /\ olderG(g).left = Older(grants[g].left)
  <2> DEFINE r == grants[g]
  <2>1. r \in GrantRow /\ Older(r.left) \in Nat
    BY <1>3, GrantFacts, OlderFacts DEF Inv
  <2> HIDE DEF r
  <2>2. LET s == [r EXCEPT !.left = Older(r.left)] IN
        /\ s \in GrantRow /\ s.approval = r.approval
        /\ s.principal = r.principal /\ s.max_uses = r.max_uses
        /\ s.used_count = r.used_count /\ s.cost_limit = r.cost_limit
        /\ s.cost_used = r.cost_used /\ s.revoked = r.revoked
        /\ s.left = Older(r.left)
    BY <2>1 DEF GrantRow
  <2> QED BY <2>2 DEF r
<1> HIDE DEF olderA, olderG
<1>4. \A a \in Approvals :
        /\ approvals'[a] # NoApproval <=> Recorded(a)
        /\ Recorded(a) =>
             /\ approvals'[a] \in ApprovalRow
             /\ approvals'[a].request = approvals[a].request
             /\ approvals'[a].requester = approvals[a].requester
             /\ approvals'[a].approver = approvals[a].approver
             /\ approvals'[a].decision = approvals[a].decision
             /\ approvals'[a].left = Older(approvals[a].left)
  BY <1>1, <1>2, RowsAreRows DEF Recorded
<1>5. \A g \in GrantIds :
        /\ Granted(g)' <=> Granted(g)
        /\ Granted(g) =>
             /\ grants'[g] \in GrantRow
             /\ grants'[g].approval = grants[g].approval
             /\ grants'[g].principal = grants[g].principal
             /\ grants'[g].max_uses = grants[g].max_uses
             /\ grants'[g].used_count = grants[g].used_count
             /\ grants'[g].cost_limit = grants[g].cost_limit
             /\ grants'[g].cost_used = grants[g].cost_used
             /\ grants'[g].revoked = grants[g].revoked
             /\ grants'[g].left = Older(grants[g].left)
  BY <1>1, <1>3, RowsAreRows DEF Granted
<1>6. AuthorityType'
  <2>1. approvals' \in [Approvals -> ApprovalRow \cup {NoApproval}]
    BY <1>1, <1>2 DEF Recorded
  <2>2. grants' \in [GrantIds -> GrantRow \cup {NoGrant}]
    BY <1>1, <1>3 DEF Granted
  <2> QED BY <1>1, <2>1, <2>2 DEF Inv, AuthorityType
<1>7. IdentityInv'
  BY <1>1, IdentityKeeps DEF Inv
<1>8. Counters'
  BY <1>1, <1>5 DEF Inv, Counters
<1>9. ASSUME NEW g \in GrantIds, Granted(g), NEW b, b = grants[g].approval
      PROVE  /\ b \in Approvals /\ Recorded(b)
             /\ approvals[b].decision = "approved"
             /\ approvals[b].requester = grants[g].principal
             /\ grants[g].left <= approvals[b].left
             /\ grants[g].left \in Nat /\ approvals[b].left \in Nat
             /\ grants'[g].left <= approvals'[b].left
  <2>1. /\ b \in Approvals /\ Recorded(b)
        /\ approvals[b].decision = "approved"
        /\ approvals[b].requester = grants[g].principal
        /\ grants[g].left <= approvals[b].left
    BY <1>9, GrantFacts DEF Inv, ApprovalBehind
  <2>2. grants[g].left \in Nat /\ approvals[b].left \in Nat
    BY <1>9, <2>1, GrantFacts, ApprovalFacts DEF Inv
  <2>3. Older(grants[g].left) <= Older(approvals[b].left)
    BY <2>1, <2>2, OlderFacts
  <2> QED BY <1>4, <1>5, <1>9, <2>1, <2>2, <2>3
<1>10. ApprovalBehind'
  <2>1. \A c \in Approvals :
          Recorded(c)' => approvals'[c].requester # approvals'[c].approver
    BY <1>4 DEF Inv, ApprovalBehind, Recorded
  <2>2. \A h \in GrantIds : Granted(h)' =>
          LET c == grants'[h].approval IN
          /\ approvals'[c] # NoApproval
          /\ approvals'[c].decision = "approved"
          /\ approvals'[c].requester = grants'[h].principal
          /\ grants'[h].left <= approvals'[c].left
    BY <1>4, <1>5, <1>9
  <2> QED BY <2>1, <2>2 DEF ApprovalBehind, Recorded
<1>11. SameRequests
  BY <1>4, <1>5, <1>9 DEF SameRequests, RequestOf
<1>12. LiveProviderGrants' \subseteq LiveProviderGrants
  <2>1. \A g \in GrantIds : LiveGrant(g)' => LiveGrant(g)
    <3> SUFFICES ASSUME NEW g \in GrantIds, Granted(g),
                        ~ grants'[g].revoked, grants'[g].left > 0
                 PROVE  ~ grants[g].revoked /\ grants[g].left > 0
      BY <1>5 DEF LiveGrant
    <3>1. grants[g].left \in Nat /\ grants'[g].left = Older(grants[g].left)
      BY <1>5, GrantFacts DEF Inv
    <3>2. grants[g].left > 0
      BY <3>1 DEF Older
    <3> QED BY <1>5, <3>2
  <2> QED BY <2>1, <1>11, SameProviders DEF LiveProviderGrants, ProviderGrants
<1>13. GoalInv'
  BY <1>5, <1>12, GoalShrinks DEF Inv, LiveProviderGrants, ProviderGrants
<1>14. TaskInv'
  BY <1>1, <1>11, SameProviders, TaskSpendsNothing, GrantsAssumption DEF Inv
<1> QED BY <1>6, <1>7, <1>8, <1>10, <1>13, <1>14 DEF Inv

-----------------------------------------------------------------------------
(* The invariant is inductive.                                             *)

LEMMA InvInit == Init => Inv
<1> SUFFICES ASSUME Init PROVE Inv
  OBVIOUS
<1>1. IdentityInv
  BY IdentityStarts DEF Init
<1>2. AuthorityType
  BY GrantsAssumption DEF Init, AuthorityType, LoopState
<1>3. /\ \A a \in Approvals : ~ Recorded(a)
      /\ \A g \in GrantIds : ~ Granted(g) /\ usage[g] = {}
  BY DEF Init, Recorded, Granted
<1>4. IsFiniteSet({}) /\ Cardinality({}) = 0
  BY FS_EmptySet
<1>5. Counters /\ ApprovalBehind
  BY <1>3, <1>4 DEF Counters, ApprovalBehind
<1>6. ProviderGrants = {} /\ LiveProviderGrants = {}
      /\ \A t \in Bound : GrantsOf(t) = {}
  BY <1>3 DEF ProviderGrants, LiveProviderGrants, GrantsOf
<1>7. /\ CostUnits({}) = {} /\ CallUnits({}) = {} /\ UsesOf({}) = {}
      /\ SpentUnits({}) = {}
  BY DEF CostUnits, CallUnits, UsesOf, SpentUnits
<1>8. GoalInv
  <2>1. 0 <= GoalBudget /\ 0 <= GoalCalls
    BY GrantsAssumption
  <2> QED BY <1>4, <1>6, <1>7, <2>1
             DEF GoalInv, GoalReservation, ReservedCost, ReservedCalls
<1>9. TaskInv
  <2>1. \A t \in Bound : 0 <= TaskBudget[t] /\ 0 <= TaskCalls[t]
    BY GrantsAssumption
  <2> QED BY <1>4, <1>6, <1>7, <2>1
             DEF TaskInv, TaskNeverOverspends, SpentCost, SpentCalls
<1> QED BY <1>1, <1>2, <1>5, <1>8, <1>9 DEF Inv

LEMMA InvStep == Inv /\ [Next]_vars => Inv'
<1> SUFFICES ASSUME Inv, [Next]_vars PROVE Inv'
  OBVIOUS
<1>1. CASE UNCHANGED vars
  <2>1. UNCHANGED identity /\ UNCHANGED authority
        /\ UNCHANGED <<run_state, tasks, claim>>
    BY <1>1 DEF vars, supervision
  <2>2. IdentityInv'
    BY <2>1, IdentityKeeps DEF Inv
  <2> QED BY <2>1, <2>2, ElsewhereKeeps DEF Inv, AuthorityType
<1>2. CASE IdentityNext /\ UNCHANGED <<supervision, authority>>
  <2>1. UNCHANGED authority /\ UNCHANGED <<run_state, tasks, claim>>
    BY <1>2 DEF supervision
  <2>2. IdentityInv'
    BY <1>2, IdentityKeeps DEF Inv
  <2> QED BY <2>1, <2>2, ElsewhereKeeps DEF Inv, AuthorityType
<1>3. ASSUME NEW a \in Approvals, NEW r \in Makers, NEW o \in Principals,
             NEW d \in Decisions, NEW ttl \in ApprovalTTLs,
             RecordApproval(a, d[1], r, o, d[2], ttl)
      PROVE  Inv'
  <2>1. /\ d[1] \in Requests /\ d[2] \in {"approved", "denied"}
        /\ r \in Principals /\ ttl \in Nat
    BY GrantsAssumption
  <2> QED BY <1>3, <2>1, RecordApprovalKeeps
<1>4. ASSUME NEW g \in GrantIds, NEW a \in Approvals, NEW i \in Principals,
             NEW p \in Principals, NEW limit \in Limits, NEW ttl \in GrantTTLs,
             IssueGrant(g, a, i, p, limit[1], limit[2], ttl)
      PROVE  Inv'
  <2>1. limit[1] \in Nat /\ limit[2] \in Nat /\ ttl \in Nat
    BY GrantsAssumption
  <2> QED BY <1>4, <2>1, IssueGrantKeeps
<1>5. ASSUME NEW g \in GrantIds, RevokeGrant(g)
      PROVE  Inv'
  BY <1>5, RevokeGrantKeeps
<1>6. ASSUME NEW g \in GrantIds, NEW key \in Keys, NEW cost \in Costs,
             Consume(g, key, cost)
      PROVE  Inv'
  <2>1. Granted(g) /\ Spend(g, key, cost) /\ cost \in Nat
    BY <1>6, GrantsAssumption DEF Consume
  <2> QED BY <2>1, SpendKeeps
<1>7. ASSUME NEW g \in GrantIds, ConsumeEffect(g)
      PROVE  Inv'
  <2>1. Granted(g) /\ Spend(g, "effect", 0) /\ 0 \in Nat
    BY <1>7 DEF ConsumeEffect
  <2> QED BY <2>1, SpendKeeps
<1>8. ASSUME NEW t \in Tasks, NEW to \in TaskState, MoveTask(t, to)
      PROVE  Inv'
  <2>1. /\ UNCHANGED identity /\ UNCHANGED authority
        /\ UNCHANGED <<run_state, claim>>
        /\ tasks' = [tasks EXCEPT ![t] = to]
    BY <1>8 DEF MoveTask
  <2>2. IdentityInv'
    BY <2>1, IdentityKeeps DEF Inv
  <2> QED BY <2>1, <2>2, ElsewhereKeeps DEF Inv, AuthorityType
<1>9. ASSUME NEW t \in Tasks, NEW holder \in Principals \cup {NoOne},
             ClaimChanges(t, holder)
      PROVE  Inv'
  <2>1. /\ UNCHANGED identity /\ UNCHANGED authority
        /\ UNCHANGED <<run_state, tasks>>
        /\ claim' = [claim EXCEPT ![t] = holder]
    BY <1>9 DEF ClaimChanges
  <2>2. IdentityInv'
    BY <2>1, IdentityKeeps DEF Inv
  <2> QED BY <2>1, <2>2, ElsewhereKeeps DEF Inv, AuthorityType
<1>10. CASE Tick
  BY <1>10, TickKeeps
<1> QED BY <1>1, <1>2, <1>3, <1>4, <1>5, <1>6, <1>7, <1>8, <1>9, <1>10
           DEF Next

LEMMA InvHolds == Spec => []Inv
BY InvInit, InvStep, PTL DEF Spec

-----------------------------------------------------------------------------
(* Sessions that no longer verify.                                         *)

(* An existing session that does not verify is a revoked one. *)
LEMMA DeadIsRevoked ==
  ASSUME IdentityInv, NEW s \in Sessions, sessions[s] # NoSession, ~ Valid(s)
  PROVE  sessions[s].revoked
<1> SUFFICES ASSUME ~ sessions[s].revoked PROVE FALSE
  OBVIOUS
<1> DEFINE p == sessions[s].principal
<1>1. /\ p \in Principals /\ principals[p].enabled
      /\ sessions[s].version = principals[p].version
  BY DEF IdentityInv, UnrevokedIsCurrent
<1>2. principals[p].roles # {}
  BY <1>1, EnabledIsRegistered, RegisteredRow
<1> QED BY <1>1, <1>2 DEF Valid

(* No command takes back a revocation: at most the row's time runs out. *)
LEMMA RevokedStays ==
  ASSUME IdentityInv, IdentityNext, NEW s \in Sessions,
         sessions[s] # NoSession, sessions[s].revoked
  PROVE  sessions'[s] = NoSession \/ sessions'[s].revoked
<1>1. ASSUME NEW t \in Sessions, sessions[t] = NoSession, NEW row,
             sessions' = [sessions EXCEPT ![t] = row]
      PROVE  sessions'[s].revoked
  BY <1>1 DEF IdentityInv
<1>2. ASSUME NEW p \in Principals, NEW t \in Sessions,
             BootstrapOwner(p, t) \/ Authenticate(p, t)
      PROVE  sessions'[s].revoked
  BY <1>1, <1>2 DEF BootstrapOwner, Authenticate
<1>3. ASSUME NEW p \in Principals
      PROVE  Revoked(p)[s].revoked
  BY <1>3, RevokedRows
<1>4. ASSUME NEW p \in Principals, NEW t \in Sessions, RotateCredential(p, t)
      PROVE  sessions'[s].revoked
  <2>1. s # t /\ \E row : sessions' = [Revoked(p) EXCEPT ![t] = row]
    BY <1>4 DEF RotateCredential
  <2>2. sessions'[s] = Revoked(p)[s]
    BY <2>1, RevokedRows
  <2> QED BY <2>2, <1>3
<1>5. ASSUME NEW p \in Principals, DisablePrincipal(p)
      PROVE  sessions'[s].revoked
  BY <1>3, <1>5 DEF DisablePrincipal
<1>6. ASSUME UNCHANGED sessions
      PROVE  sessions'[s].revoked
  BY <1>6
<1>7. ASSUME NEW t \in Sessions, RevokeSession(t)
      PROVE  sessions'[s].revoked
  <2>1. s # t /\ sessions' = [sessions EXCEPT ![t].revoked = TRUE]
    BY <1>7 DEF RevokeSession, Valid
  <2> QED BY <2>1 DEF IdentityInv
<1>8. ASSUME NEW t \in Sessions, Expire(t)
      PROVE  sessions'[s] = NoSession \/ sessions'[s].revoked
  BY <1>8 DEF Expire, IdentityInv
<1> QED BY <1>2, <1>4, <1>5, <1>6, <1>7, <1>8
           DEF IdentityNext, CreatePrincipal, SetRoles, EnablePrincipal

LEMMA SessionStep ==
  ASSUME Inv, [Next]_vars
  PROVE  [\A s \in Sessions :
            sessions[s] # NoSession /\ ~ Valid(s) => ~ Valid(s)']_identity
<1>1. IdentityNext \/ UNCHANGED identity
  <2>1. \A a, q, r, o, d, ttl :
          RecordApproval(a, q, r, o, d, ttl) => UNCHANGED identity
    BY DEF RecordApproval
  <2>2. \A g, a, i, p, m, c, ttl :
          IssueGrant(g, a, i, p, m, c, ttl) => UNCHANGED identity
    BY DEF IssueGrant
  <2>3. \A g : /\ RevokeGrant(g) => UNCHANGED identity
               /\ ConsumeEffect(g) => UNCHANGED identity
               /\ \A k, c : Consume(g, k, c) => UNCHANGED identity
    BY DEF RevokeGrant, Consume, ConsumeEffect, Spend
  <2>4. \A t, x : /\ MoveTask(t, x) => UNCHANGED identity
                  /\ ClaimChanges(t, x) => UNCHANGED identity
    BY DEF MoveTask, ClaimChanges
  <2>5. Tick => UNCHANGED identity
    BY DEF Tick
  <2> QED BY <2>1, <2>2, <2>3, <2>4, <2>5 DEF Next, vars
<1>2. ASSUME IdentityNext, NEW s \in Sessions, sessions[s] # NoSession,
             ~ Valid(s)
      PROVE  ~ Valid(s)'
  <2>1. sessions[s].revoked
    BY <1>2, DeadIsRevoked DEF Inv
  <2>2. sessions'[s] = NoSession \/ sessions'[s].revoked
    BY <1>2, <2>1, RevokedStays DEF Inv
  <2> QED BY <2>2 DEF Valid
<1> QED BY <1>1, <1>2

-----------------------------------------------------------------------------

(***************************************************************************)
(* Type correctness of the identity and grant tables: the used_count of    *)
(* every grant is the number of its usage rows and its cost is within the  *)
(* limit, whatever the number of principals, approvals, grants and uses.   *)
(* (policy.py)                                                             *)
(***************************************************************************)
THEOREM TypeCorrect == Spec => []TypeOK
<1>1. Inv => TypeOK
  <2> SUFFICES ASSUME Inv PROVE TypeOK
    OBVIOUS
  <2>1. IdentityTypeOK
    BY DEF Inv, IdentityInv
  <2>2. \A a \in Approvals : Recorded(a) => approvals[a] \in ApprovalRow
    BY ApprovalFacts DEF Inv
  <2>3. \A g \in GrantIds : Granted(g) => grants[g] \in GrantRow
    BY GrantFacts DEF Inv
  <2> QED BY <2>1, <2>2, <2>3 DEF Inv, AuthorityType, Counters, TypeOK
<1> QED BY <1>1, InvHolds, PTL

(***************************************************************************)
(* An initialised registry always keeps an enabled owner, whatever owners  *)
(* do to each other, with any number of principals and sessions.           *)
(* (identity.py, _assert_not_last_enabled_owner)                           *)
(***************************************************************************)
THEOREM OwnerCorrect == Spec => []OwnerRemains
<1>1. Inv => OwnerRemains
  BY DEF Inv, IdentityInv
<1> QED BY <1>1, InvHolds, PTL

(***************************************************************************)
(* A session that stopped verifying never verifies again, across           *)
(* disabling, enabling and credential rotation.  (identity.py,             *)
(* _verify_session, enable_principal)                                      *)
(***************************************************************************)
THEOREM SessionsCorrect == Spec => DeadSessionsStayDead
<1>1. Inv /\ [Next]_vars =>
        [\A s \in Sessions :
           sessions[s] # NoSession /\ ~ Valid(s) => ~ Valid(s)']_identity
  BY SessionStep
<1> QED BY <1>1, InvHolds, PTL DEF Spec, DeadSessionsStayDead

(***************************************************************************)
(* Whoever may still spend a grant was approved by another principal, and  *)
(* the approval outlasts the grant.  (policy.py, issue_grant)              *)
(***************************************************************************)
THEOREM WithinApprovalCorrect == Spec => []GrantsWithinApproval
<1>1. Inv => GrantsWithinApproval
  <2> SUFFICES ASSUME Inv, NEW g \in GrantIds, LiveGrant(g),
                      NEW a, a = grants[g].approval
               PROVE  /\ LiveApproval(a)
                      /\ grants[g].left <= approvals[a].left
                      /\ approvals[a].requester = grants[g].principal
                      /\ approvals[a].approver # grants[g].principal
    BY DEF GrantsWithinApproval
  <2>1. /\ Granted(g) /\ grants[g].left > 0 /\ grants[g].left \in Nat
        /\ a \in Approvals
    BY GrantFacts DEF Inv, LiveGrant
  <2>2. /\ Recorded(a) /\ approvals[a].decision = "approved"
        /\ approvals[a].requester = grants[g].principal
        /\ grants[g].left <= approvals[a].left
        /\ approvals[a].requester # approvals[a].approver
    BY <2>1 DEF Inv, ApprovalBehind
  <2>3. approvals[a].left \in Nat
    BY <2>1, <2>2, ApprovalFacts DEF Inv
  <2>4. approvals[a].left > 0
    BY <2>1, <2>2, <2>3
  <2> QED BY <2>2, <2>4 DEF LiveApproval
<1> QED BY <1>1, InvHolds, PTL

(***************************************************************************)
(* What the live grants of a run may still cost stays within the goal's    *)
(* budget and call limit, for any budgets, limits and number of grants.    *)
(* (policy.py, issue_grant)                                                *)
(***************************************************************************)
THEOREM GoalCorrect == Spec => []GoalReservation
<1>1. Inv => GoalReservation
  BY DEF Inv, GoalInv
<1> QED BY <1>1, InvHolds, PTL

(***************************************************************************)
(* What a bound task has ever spent, through every grant it was issued,    *)
(* stays within its own budget.  (policy.py, _consume_as_principal)        *)
(***************************************************************************)
THEOREM TaskCorrect == Spec => []TaskNeverOverspends
<1>1. Inv => TaskNeverOverspends
  BY DEF Inv, TaskInv
<1> QED BY <1>1, InvHolds, PTL


=============================================================================
