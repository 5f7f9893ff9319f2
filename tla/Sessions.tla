------------------------------ MODULE Sessions ------------------------------
(***************************************************************************)
(* The sessions of one user (services/auth.py): login with its counter of  *)
(* failed attempts, refresh with rotation, the revocation of all tokens    *)
(* when a replaced one comes back, and logout, under concurrent requests.  *)
(*                                                                         *)
(* A request is one transaction (core/db.py transaction_session).  The     *)
(* revocation is a second transaction of the same request, opened while    *)
(* the first still holds its row: PostgreSQL cannot see that the first     *)
(* waits for the second.                                                   *)
(*                                                                         *)
(* Passwords, hashes, cookies, the access token and the audit rows are     *)
(* left out: nothing here depends on them.                                 *)
(***************************************************************************)
EXTENDS Integers, FiniteSets

CONSTANTS Caller,        \* requests under way at once
          MaxToken,      \* rows refresh_token may have
          InitialToken,  \* the sessions there are already
          MaxAttempts,   \* login_max_attempts
          Connections,   \* size of the connection pool
          MaxCalls,      \* bound on the requests made
          MaxFaults      \* bound on lost requests and Redis errors

Token == 1..MaxToken
NoToken == 0

VARIABLES token,      \* refresh_token
          active,     \* app_user.is_active and tenant.is_active
          attempts,   \* the counter login_fail:<tenant>:<email> in Redis
          expiring,   \* has that key a time to live
          call,       \* what each request is doing
          calls, faults

vars == <<token, active, attempts, expiring, call, calls, faults>>

(* login: the session a token belongs to, named by its first token. *)
TokenRow == [known : BOOLEAN, revoked : BOOLEAN,
             replacedBy : Token \cup {NoToken}, login : Token \cup {NoToken}]
CallRow == [pc : {"ready", "verifying", "verified", "issued", "asking", "rotating", "reused",
                  "revoking", "leaving"},
            token : Token \cup {NoToken},   \* the token the request brings
            new : Token \cup {NoToken},     \* the token it has inserted
            seen : SUBSET Token,            \* the snapshot of the revocation's UPDATE
            todo : SUBSET Token,            \* the rows it has still to reach
            held : SUBSET Token]            \* the rows it has written

ASSUME SessionAssumption ==
  /\ MaxToken \in Nat /\ MaxAttempts \in Nat \ {0} /\ Connections \in Nat /\ MaxCalls \in Nat /\ MaxFaults \in Nat
  /\ InitialToken \in [Token -> TokenRow]
  /\ \A t \in Token :
       IF InitialToken[t].known
       THEN /\ InitialToken[t].login \in Token /\ InitialToken[InitialToken[t].login].known
            /\ InitialToken[t].replacedBy # NoToken =>
                 /\ InitialToken[t].revoked /\ InitialToken[InitialToken[t].replacedBy].known
                 /\ InitialToken[InitialToken[t].replacedBy].login = InitialToken[t].login
            /\ \A u \in Token : (/\ InitialToken[u].known /\ ~InitialToken[u].revoked /\ ~InitialToken[t].revoked
                                 /\ InitialToken[u].login = InitialToken[t].login) => u = t
       ELSE ~InitialToken[t].revoked

TypeOK ==
  /\ token \in [Token -> TokenRow] /\ active \in BOOLEAN
  /\ attempts \in Nat /\ expiring \in BOOLEAN
  /\ call \in [Caller -> CallRow] /\ calls \in 0..MaxCalls /\ faults \in 0..MaxFaults

-----------------------------------------------------------------------------
Live(t) == token[t].known /\ ~token[t].revoked
Known == {t \in Token : token[t].known}
Fresh == Token \ (Known \cup {call[c].new : c \in Caller})
NewToken(n) == n \in Fresh /\ \A m \in Fresh : n <= m

(* The rows the transaction of request c has locked: FOR UPDATE in refresh, the    *)
(* UPDATE in logout.  The rows of its revocation are locked by the transaction     *)
(* of their own, so that the request's row is somebody else's to it.               *)
RequestHolds(c, t) == call[c].token = t /\ call[c].pc \in {"rotating", "reused", "revoking", "leaving"}
\* mutant: refresh reads the row without FOR UPDATE
RowFreeUnlocked(t) == TRUE
RowFree(t) == \A d \in Caller : ~RequestHolds(d, t) /\ t \notin call[d].held
UserHeld == \E d \in Caller : call[d].pc = "issued"

NoCall == [pc |-> "ready", token |-> NoToken, new |-> NoToken, seen |-> {}, todo |-> {}, held |-> {}]

Init ==
  /\ token = InitialToken /\ active = TRUE /\ attempts = 0 /\ expiring = FALSE
  /\ call = [c \in Caller |-> NoCall] /\ calls = 0 /\ faults = 0

Becomes(c, row) == call' = [call EXCEPT ![c] = row]
Ends(c) == Becomes(c, NoCall)
Fault == faults < MaxFaults /\ faults' = faults + 1
(* Each transaction has a connection of the pool; the revocation has a second one. *)
InUse == Cardinality({c \in Caller : call[c].pc # "ready"})
           + Cardinality({c \in Caller : call[c].pc = "revoking"})
Begins(c) == /\ call[c].pc = "ready" /\ InUse < Connections
             /\ calls < MaxCalls /\ calls' = calls + 1

-----------------------------------------------------------------------------
(* login                                                                    *)

(* _failed_attempts: too many end the login; Redis that fails counts as none. *)
BeginLogin(c) ==
  /\ Begins(c)
  /\ \/ /\ faults' = faults
        /\ IF attempts >= MaxAttempts THEN Ends(c) ELSE Becomes(c, [NoCall EXCEPT !.pc = "verifying"])
     \/ Fault /\ Becomes(c, [NoCall EXCEPT !.pc = "verifying"])
  /\ UNCHANGED <<token, active, attempts, expiring>>

(* _record_failure: MULTI; INCR; EXPIRE NX; EXEC. *)
\* mutant: the key is counted up without a time to live
CountsForEver == attempts' = attempts + 1 /\ expiring' = expiring
Counts == attempts' = attempts + 1 /\ expiring' = TRUE
Forgets == attempts' = 0 /\ expiring' = FALSE
RedisFails == Fault /\ UNCHANGED <<attempts, expiring>>

(* The user is read and the password verified; a failure is counted and ends the   *)
(* login, a success deletes the counter.                                           *)
Verify(c) ==
  /\ call[c].pc = "verifying"
  /\ \/ Ends(c) /\ ((Counts /\ faults' = faults) \/ RedisFails)
     \/ /\ active /\ Becomes(c, [NoCall EXCEPT !.pc = "verified"])
        /\ (Forgets /\ faults' = faults) \/ RedisFails
  /\ UNCHANGED <<token, active, calls>>

(* _issue_tokens: last_login_at is flushed first and locks the user's row. *)
IssueLogin(c) ==
  /\ call[c].pc = "verified" /\ ~UserHeld
  /\ \E n \in Token : NewToken(n) /\ Becomes(c, [NoCall EXCEPT !.pc = "issued", !.new = n])
  /\ UNCHANGED <<token, active, attempts, expiring, calls, faults>>

Issued(n, login) == [known |-> TRUE, revoked |-> FALSE, replacedBy |-> NoToken,
                     login |-> login]
CommitLogin(c) ==
  LET n == call[c].new IN
  /\ call[c].pc = "issued"
  /\ token' = [token EXCEPT ![n] = Issued(n, n)]
  /\ Ends(c)
  /\ UNCHANGED <<active, attempts, expiring, calls, faults>>

-----------------------------------------------------------------------------
(* refresh                                                                  *)

(* The row is read FOR UPDATE.  A revoked one starts the revocation of all; an    *)
(* expired one (the clock is left out: any may be), or an inactive user, ends the *)
(* request; else the successor is inserted.                                       *)
BeginRefresh(c, t) ==
  /\ token[t].known /\ Begins(c) /\ Becomes(c, [NoCall EXCEPT !.pc = "asking", !.token = t])
  /\ UNCHANGED <<token, active, attempts, expiring, faults>>

ReadToken(c, t) ==
  /\ call[c].pc = "asking" /\ call[c].token = t /\ RowFree(t)
  /\ IF token[t].revoked THEN Becomes(c, [NoCall EXCEPT !.pc = "reused", !.token = t])
     ELSE \/ Ends(c)
          \/ /\ active
             /\ \E n \in Token :
                  NewToken(n) /\ Becomes(c, [NoCall EXCEPT !.pc = "rotating", !.token = t, !.new = n])
  /\ UNCHANGED <<token, active, attempts, expiring, calls, faults>>

CommitRefresh(c) ==
  LET t == call[c].token
      n == call[c].new
  IN
  /\ call[c].pc = "rotating"
  /\ token' = [token EXCEPT ![t].revoked = TRUE, ![t].replacedBy = n,
                            ![n] = Issued(n, token[t].login)]
  /\ Ends(c)
  /\ UNCHANGED <<active, attempts, expiring, calls, faults>>

(* _revoke_all_for_user: the UPDATE takes its snapshot of the tokens not revoked. *)
\* mutant: the UPDATE has no revoked_at IS NULL
TargetsAll == Known
Targets == {t \in Token : Live(t)}
BeginRevoke(c) ==
  /\ call[c].pc = "reused" /\ InUse < Connections
  /\ Becomes(c, [call[c] EXCEPT !.pc = "revoking", !.seen = Targets, !.todo = Targets])
  /\ UNCHANGED <<token, active, attempts, expiring, calls, faults>>

(* Every connection is in use, by requests that may all wait for a second one: the    *)
(* pool gives up, and the request ends with nothing revoked.                          *)
\* mutant: who waits for a connection waits for ever
PoolTimeoutNever(c) == FALSE
PoolTimeout(c) ==
  /\ call[c].pc = "reused" /\ InUse >= Connections
  /\ Ends(c)
  /\ UNCHANGED <<token, active, attempts, expiring, calls, faults>>

(* It reaches them one by one, waits for a row another transaction has locked,     *)
(* this request's included, and leaves a row that is revoked by then.              *)
\* mutant: a locked row is passed over
ReachSkipsLocked(c, t) ==
  Becomes(c, [call[c] EXCEPT !.todo = @ \ {t},
                             !.held = IF token[t].revoked \/ ~RowFree(t) THEN @ ELSE @ \cup {t}])
Reach(c, t) ==
  /\ RowFree(t)
  /\ Becomes(c, [call[c] EXCEPT !.todo = @ \ {t},
                                !.held = IF token[t].revoked THEN @ ELSE @ \cup {t}])
RevokeRow(c, t) ==
  /\ call[c].pc = "revoking" /\ t \in call[c].todo /\ Reach(c, t)
  /\ UNCHANGED <<token, active, attempts, expiring, calls, faults>>

(* It commits; then the request itself ends with an error and is rolled back. *)
CommitRevoke(c) ==
  /\ call[c].pc = "revoking" /\ call[c].todo = {}
  /\ token' = [t \in Token |-> IF t \in call[c].held THEN [token[t] EXCEPT !.revoked = TRUE]
                               ELSE token[t]]
  /\ Ends(c)
  /\ UNCHANGED <<active, attempts, expiring, calls, faults>>

(* Revocations that reach the rows in different order: PostgreSQL aborts one. *)
WaitFor(c) == {d \in Caller : call[c].todo \cap call[d].held # {}}
Deadlocked(c) ==
  \E S \in SUBSET Caller :
    /\ c \in S
    /\ \A d \in S : WaitFor(d) \cap S # {} /\ \E e \in S : d \in WaitFor(e)
BreakDeadlock(c) ==
  /\ Deadlocked(c) /\ Ends(c)
  /\ UNCHANGED <<token, active, attempts, expiring, calls, faults>>

-----------------------------------------------------------------------------
(* logout: one UPDATE of the token where it is not revoked. *)
BeginLogout(c, t) ==
  /\ token[t].known /\ (token[t].revoked \/ RowFree(t)) /\ Begins(c)
  /\ IF token[t].revoked THEN Ends(c)
     ELSE Becomes(c, [NoCall EXCEPT !.pc = "leaving", !.token = t])
  /\ UNCHANGED <<token, active, attempts, expiring, faults>>

CommitLogout(c) ==
  /\ call[c].pc = "leaving"
  /\ token' = [token EXCEPT ![call[c].token].revoked = TRUE]
  /\ Ends(c)
  /\ UNCHANGED <<active, attempts, expiring, calls, faults>>

-----------------------------------------------------------------------------
(* A request that fails before its commit, or whose process dies, leaves nothing. *)
Rollback(c) ==
  /\ call[c].pc # "ready" /\ Fault /\ Ends(c)
  /\ UNCHANGED <<token, active, attempts, expiring, calls>>

(* The time to live ends. *)
ExpireAttempts ==
  /\ expiring /\ Forgets
  /\ UNCHANGED <<token, active, call, calls, faults>>

(* An operator switches the user off in the database. *)
Deactivate ==
  /\ active /\ active' = FALSE
  /\ UNCHANGED <<token, attempts, expiring, call, calls, faults>>

Step(c) ==
  \/ Verify(c) \/ IssueLogin(c) \/ CommitLogin(c) \/ CommitRefresh(c) \/ BeginRevoke(c)
  \/ PoolTimeout(c) \/ CommitRevoke(c) \/ BreakDeadlock(c) \/ CommitLogout(c)
  \/ \E t \in Token : ReadToken(c, t) \/ RevokeRow(c, t)

Next ==
  \/ \E c \in Caller : \/ BeginLogin(c) \/ Step(c) \/ Rollback(c)
                       \/ \E t \in Token : BeginRefresh(c, t) \/ BeginLogout(c, t)
  \/ ExpireAttempts \/ Deactivate

Spec == Init /\ [][Next]_vars
(* A statement that can proceed does, and Redis drops keys whose time is over. *)
FairSpec == Spec /\ WF_vars(ExpireAttempts) /\ \A c \in Caller : WF_vars(Step(c))

-----------------------------------------------------------------------------
(* What the rows are to a request x, row by row: a token it has locked or written is not     *)
(* revoked yet, one it has inserted is not known yet, and of its snapshot it has written or *)
(* found revoked all that it has passed.                                                    *)
Sound(x) ==
  /\ x.pc = "asking" => x.token \in Known
  /\ x.pc \in {"rotating", "leaving"} => x.token \in Token /\ Live(x.token)
  /\ x.pc \in {"reused", "revoking"} => x.token \in Known /\ token[x.token].revoked
  /\ IF x.pc \in {"issued", "rotating"} THEN x.new \in Token \ Known ELSE x.new = NoToken
  /\ x.pc # "revoking" => x.held = {} /\ x.todo = {} /\ x.seen = {}
  /\ x.held \subseteq x.seen \ x.todo /\ x.todo \subseteq x.seen /\ x.seen \subseteq Known
  /\ \A t \in x.held : Live(t)
  /\ \A t \in (x.seen \ x.todo) \ x.held : token[t].revoked

(* What one request has locked, written or inserted, another has not. *)
Keeps(x, t) == x.token = t /\ x.pc \in {"rotating", "reused", "revoking", "leaving"}
Apart(x, y) ==
  /\ x.held \cap y.held = {}
  /\ (x.new = y.new) => (x.new = NoToken)
  /\ \A t \in Token : /\ ~(Keeps(x, t) /\ Keeps(y, t))
                      /\ (t \in x.held) => ~Keeps(y, t)
                      /\ (t \in y.held) => ~Keeps(x, t)

CallsApart == /\ \A c \in Caller : Sound(call[c])
              /\ \A c, d \in Caller : c # d => Apart(call[c], call[d])

(* A token is replaced only when it is revoked, by a token of the same login, and the *)
(* first token of its login is there.                                                 *)
Chained ==
  \A t \in Token : IF token[t].known
    THEN /\ token[t].login \in Token /\ token[token[t].login].known
         /\ token[t].replacedBy # NoToken =>
              /\ token[t].revoked /\ token[token[t].replacedBy].known
              /\ token[token[t].replacedBy].login = token[t].login
    ELSE ~token[t].revoked

(* refresh: one login has at most one token that is not revoked, although the same   *)
(* token is brought by several requests at once, some of them lost.                  *)
OneLivePerLogin ==
  \A t, u \in Token : (Live(t) /\ Live(u) /\ token[t].login = token[u].login) => t = u

SessionInv == TypeOK /\ CallsApart /\ Chained /\ OneLivePerLogin

(* services/auth.py _revoke_all_for_user: when it commits, a token that is not revoked  *)
(* was committed after its snapshot, by a request that overlapped it: not one that was  *)
(* there is missed, in whichever order rows are locked, rotated and rolled back.        *)
RevocationMissesNone ==
  [][\A c \in Caller : CommitRevoke(c) => \A t \in Token : Live(t)' => t \notin call[c].seen]_vars

(* A revocation that waits for the row another request holds open while its own       *)
(* revocation waits, perhaps through others, for this one: PostgreSQL sees no ring,   *)
(* as the row's holder is not waiting in it.                                          *)
HiddenRing ==
  \E S \in SUBSET Caller :
    /\ S # {}
    /\ \A c \in S : \E d \in S \ {c} :
         call[d].pc = "revoking" /\ call[c].todo \cap (call[d].held \cup {call[d].token}) # {}

(* Every request ends, when rows are locked in any order, the pool is empty or a      *)
(* revocation meets the row of its own request, except in a hidden ring.              *)
CallsEnd == \A c \in Caller : (call[c].pc # "ready") ~> (call[c].pc = "ready" \/ HiddenRing)

(* docs/decisions/006 point 4, "Kalau token lama dipakai ulang, semua refresh token user *)
(* itu dicabut": every token there is when a replaced one comes back is revoked.         *)
Reused == \E c \in Caller : call[c].pc = "reused"
ReuseRevokesAll == \A t \in Token : (Reused /\ Live(t)) ~> ~Live(t)

(* services/auth.py _record_failure: who is locked out is not for ever. *)
LockoutEnds == (attempts >= MaxAttempts) ~> (attempts < MaxAttempts)
=============================================================================
