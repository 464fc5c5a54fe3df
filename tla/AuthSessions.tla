---------------------------- MODULE AuthSessions ----------------------------
(***************************************************************************)
(* Local accounts: sign-in with password and one-time code, sessions, and   *)
(* what the administrator provisions (src/radhouse/auth/local.py).          *)
(*                                                                         *)
(* Every method reads the clock before it opens its transaction, so a       *)
(* caller that waits decides by an older time. Sign-in attempts of one      *)
(* user name hold one advisory lock until their transaction ends;           *)
(* provisioning takes no such lock.                                         *)
(***************************************************************************)
EXTENDS Base, FiniteSets

CONSTANTS
  Accounts, Sources, Tokens, Callers, Projects,
  MaxTime,                             \* the clock stops here
  IdleTtl, AbsoluteTtl, RememberedTtl, AssuranceTtl,
  Window, LockFor, MaxFailures         \* of the throttle

ASSUME AuthAssumption ==
  /\ None \notin Accounts \cup Tokens \cup Callers
  /\ {MaxTime, IdleTtl, AbsoluteTtl, RememberedTtl, AssuranceTtl} \subseteq Nat
  /\ IdleTtl <= AbsoluteTtl

VARIABLES
  clock,     \* the deployment's time, in code intervals
  cred,      \* cred[a]: the credential row and its actor
  throttle,  \* throttle[a][src]: failures of a source on a user name
  sess,      \* sess[k]: the session under token k
  owner,     \* owner[p]: the project's owner
  mutex,     \* mutex[a]: the caller that holds a's advisory lock
  call       \* call[x]: where caller x is

authVars == <<clock, cred, throttle, sess, owner, mutex, call>>

NoSession == [a |-> None, idle |-> 0, abs |-> 0, assured |-> 0, remembered |-> FALSE, revoked |-> FALSE]
NoFailures == [start |-> 0, failures |-> 0, until |-> 0]
NoCall == [pc |-> "idle", a |-> None, src |-> None, k |-> None, now |-> 0, right |-> FALSE,
           code |-> 0, remember |-> FALSE]

AuthInit ==
  /\ clock = 1
  /\ cred = [a \in Accounts |-> [known |-> FALSE, active |-> FALSE, last |-> 0]]
  /\ throttle = [a \in Accounts |-> [s \in Sources |-> NoFailures]]
  /\ sess = [k \in Tokens |-> NoSession]
  /\ owner = [p \in Projects |-> None]
  /\ mutex = [a \in Accounts |-> None]
  /\ call = [x \in Callers |-> NoCall]

AuthTypeOK ==
  /\ clock \in 1..MaxTime
  /\ cred \in [Accounts -> [known : BOOLEAN, active : BOOLEAN, last : 0..MaxTime + 1]]
  /\ \A k \in Tokens : sess[k].a \in Accounts \cup {None}
  /\ mutex \in [Accounts -> Callers \cup {None}]

Earlier(a, b) == IF a < b THEN a ELSE b
Goes(x, pc) == call' = [call EXCEPT ![x].pc = pc]
Quit(x) == call' = [call EXCEPT ![x] = NoCall]
At(x, pc) == call[x].pc = pc

(* session: what every authenticated request asks of the row.               *)
Valid(k, now) ==
  /\ sess[k].a # None /\ cred[sess[k].a].active /\ ~sess[k].revoked
  /\ now < sess[k].idle /\ now < sess[k].abs
Renewed(k, now) ==
  [sess[k] EXCEPT !.idle = Earlier(now + IF sess[k].remembered THEN RememberedTtl ELSE IdleTtl,
                                   sess[k].abs)]

Tick ==
  /\ clock < MaxTime /\ clock' = clock + 1
  /\ UNCHANGED <<cred, throttle, sess, owner, mutex, call>>

-----------------------------------------------------------------------------
(* provision_local_user: the account, its project and its new credential    *)
(* commit together; every session of the account is revoked.                *)
Provision(a, p) ==
  /\ owner[p] \in {None, a}
  /\ owner' = [owner EXCEPT ![p] = a]
  /\ cred' = [cred EXCEPT ![a] = [known |-> TRUE, active |-> TRUE, last |-> 0]]
  /\ sess' = [k \in Tokens |-> IF sess[k].a = a THEN [sess[k] EXCEPT !.revoked = TRUE] ELSE sess[k]]
  /\ UNCHANGED <<clock, throttle, mutex, call>>
(* The administrator's SQL makes an actor inactive. *)
Deactivate(a) ==
  /\ cred[a].active /\ cred' = [cred EXCEPT ![a].active = FALSE]
  /\ UNCHANGED <<clock, throttle, sess, owner, mutex, call>>

-----------------------------------------------------------------------------
(* A request with a session: the clock is read, then the row is locked.     *)
BeginSession(x, k, purpose) ==
  /\ At(x, "idle") /\ sess[k].a # None
  /\ call' = [call EXCEPT ![x] = [NoCall EXCEPT !.pc = purpose, !.k = k, !.a = sess[k].a, !.now = clock]]
  /\ UNCHANGED <<clock, cred, throttle, sess, owner, mutex>>
(* Each of session, refresh, revoke and reauthenticate starts with session. *)
Session(x) ==
  LET k == call[x].k  now == call[x].now IN
  /\ call[x].pc \in {"session", "signout", "assure"}
  /\ IF ~Valid(k, now) THEN Quit(x) /\ UNCHANGED sess
     ELSE /\ sess' = [sess EXCEPT ![k] = Renewed(k, now)]
          /\ CASE At(x, "session") -> Quit(x)
               [] At(x, "signout") -> Goes(x, "revoke")
               [] OTHER -> Goes(x, "code")
  /\ UNCHANGED <<clock, cred, throttle, owner, mutex>>
(* revoke: the second transaction. *)
Revoke(x) ==
  /\ At(x, "revoke") /\ Quit(x)
  /\ sess' = [sess EXCEPT ![call[x].k].revoked = TRUE]
  /\ UNCHANGED <<clock, cred, throttle, owner, mutex>>

-----------------------------------------------------------------------------
(* login, and the credential step of reauthenticate.                        *)
BeginSignIn(x, a, src, k, right, code, remember) ==
  /\ At(x, "idle") /\ sess[k].a = None
  /\ \A y \in Callers : call[y].k # k
  /\ call' = [call EXCEPT ![x] = [pc |-> "verify", a |-> a, src |-> src, k |-> k, now |-> clock,
                                  right |-> right, code |-> code, remember |-> remember]]
  /\ UNCHANGED <<clock, cred, throttle, sess, owner, mutex>>
EnterCode(x, src, right, code) ==
  /\ At(x, "code")
  /\ call' = [call EXCEPT ![x].pc = "recheck", ![x].src = src, ![x].right = right,
                          ![x].code = code, ![x].now = clock]
  /\ UNCHANGED <<clock, cred, throttle, sess, owner, mutex>>

(* _totp_counter: the interval of now or a neighbour, later than the last.  *)
Accepts(a, now, right, code) ==
  /\ cred[a].known /\ cred[a].active /\ right
  /\ code + 1 >= now /\ code <= now + 1 /\ code > cred[a].last
(* _record_failure *)
Failed(row, now) ==
  LET fresh == row.failures = 0 \/ row.start + Window <= now
      n == IF fresh THEN 1 ELSE row.failures + 1
  IN [start |-> IF fresh THEN now ELSE row.start, failures |-> n,
      until |-> IF n >= MaxFailures THEN now + LockFor ELSE 0]

\* Mutant: attempts of one user name are not ordered.
LockFree_Ignored(a) == TRUE
LockFree(a) == mutex[a] = None
(* _verify_credentials, up to its writes; a failure is committed, a locked  *)
(* source is refused without one.                                           *)
Verify(x) ==
  LET a == call[x].a  src == call[x].src  now == call[x].now
      row == throttle[a][src] IN
  /\ call[x].pc \in {"verify", "recheck"} /\ LockFree(a)
  /\ IF row.until > now
     THEN Quit(x) /\ UNCHANGED <<throttle, mutex>>
     ELSE IF Accepts(a, now, call[x].right, call[x].code)
          THEN /\ mutex' = [mutex EXCEPT ![a] = x] /\ UNCHANGED throttle
               /\ Goes(x, IF At(x, "verify") THEN "admit" ELSE "extend")
          ELSE /\ throttle' = [throttle EXCEPT ![a][src] = Failed(row, now)]
               /\ Quit(x) /\ UNCHANGED mutex
  /\ UNCHANGED <<clock, cred, sess, owner>>
(* The code is spent and the failures forgotten. *)
Spent(x) ==
  /\ cred' = [cred EXCEPT ![call[x].a].last = call[x].code]
  /\ throttle' = [throttle EXCEPT ![call[x].a][call[x].src] = NoFailures]
  /\ mutex' = [mutex EXCEPT ![call[x].a] = None]
  /\ Quit(x)
  /\ UNCHANGED <<clock, owner>>
Login(x) ==
  LET now == call[x].now IN
  /\ At(x, "admit")
  /\ sess' = [sess EXCEPT ![call[x].k] =
       [a |-> call[x].a, remembered |-> call[x].remember, revoked |-> FALSE,
        assured |-> now + AssuranceTtl,
        idle |-> now + IF call[x].remember THEN RememberedTtl ELSE IdleTtl,
        abs |-> now + IF call[x].remember THEN RememberedTtl ELSE AbsoluteTtl]]
  /\ Spent(x)
(* reauthenticate: a session that ended meanwhile rolls the code back too.  *)
Reauthenticate(x) ==
  LET k == call[x].k  now == call[x].now IN
  /\ At(x, "extend")
  /\ IF ~sess[k].revoked /\ now < sess[k].idle /\ now < sess[k].abs
     THEN sess' = [sess EXCEPT ![k].assured = now + AssuranceTtl] /\ Spent(x)
     ELSE /\ mutex' = [mutex EXCEPT ![call[x].a] = None] /\ Quit(x)
          /\ UNCHANGED <<clock, cred, throttle, sess, owner>>
(* A lost connection rolls the transaction back and frees its lock. *)
Disconnect(x) ==
  /\ ~At(x, "idle") /\ Quit(x)
  /\ mutex' = [a \in Accounts |-> IF mutex[a] = x THEN None ELSE mutex[a]]
  /\ UNCHANGED <<clock, cred, throttle, sess, owner>>

Answers == (BOOLEAN \X {1}) \cup ({TRUE} \X (1..MaxTime + 1))
SignIn(x) ==
  \E src \in Sources, answer \in Answers :
    \/ EnterCode(x, src, answer[1], answer[2])
    \/ \E a \in Accounts, k \in Tokens, remember \in BOOLEAN :
         BeginSignIn(x, a, src, k, answer[1], answer[2], remember)
AuthNext ==
  \/ Tick
  \/ \E a \in Accounts : Deactivate(a) \/ \E p \in Projects : Provision(a, p)
  \/ \E x \in Callers :
       \/ SignIn(x)
       \/ \E k \in Tokens, purpose \in {"session", "signout", "assure"} : BeginSession(x, k, purpose)
       \/ Session(x) \/ Revoke(x) \/ Verify(x) \/ Login(x) \/ Reauthenticate(x) \/ Disconnect(x)

-----------------------------------------------------------------------------
(* A one-time code is spent once, whoever signs in with it at the same      *)
(* moment: whatever starts a session or extends its assurance moves the     *)
(* account's last counter forward. A revoked session stays revoked, and no  *)
(* renewal outlasts the absolute end it was given.                          *)
CodesAreSpentOnce ==
  [][part = "auth" => \A k \in Tokens :
       /\ (sess[k].a = None /\ sess'[k].a # None) \/ sess'[k].assured # sess[k].assured
            => cred'[sess'[k].a].last > cred[sess'[k].a].last
       /\ sess[k].revoked => sess'[k].revoked
       /\ sess[k].a # None => sess'[k].abs = sess[k].abs /\ sess'[k].idle <= sess[k].abs]_authVars
=============================================================================
