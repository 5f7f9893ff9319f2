--------------------------- MODULE SessionsProofs ---------------------------
(***************************************************************************)
(* Theorems of Sessions, for any number of requests, tokens, connections   *)
(* and faults.                                                             *)
(*                                                                         *)
(* SessionInv is inductive.  A step changes the row of one request, and    *)
(* either leaves the tokens alone (SameTokens) or is a commit that inserts *)
(* the token it has reserved and revokes rows it has locked (Commits): a   *)
(* row that another request has locked or written is none of them.         *)
(***************************************************************************)
EXTENDS Sessions, TLAPS

(* The row of a request that is not under way fits every state. *)
LEMMA NoCallFits ==
  /\ NoCall \in CallRow /\ Sound(NoCall)
  /\ \A x \in CallRow : Apart(NoCall, x)
BY DEF NoCall, CallRow, Sound, Apart, Keeps, NoToken, Token

(* Apart does not depend on the order of the two. *)
LEMMA ApartSymmetric == ASSUME NEW x \in CallRow, NEW y \in CallRow, Apart(x, y)
                        PROVE  Apart(y, x)
BY DEF Apart, CallRow

(* A step of one request that leaves the tokens alone. *)
LEMMA SameTokens ==
  ASSUME TypeOK, CallsApart, NEW c \in Caller, token' = token, call' \in [Caller -> CallRow],
         \A d \in Caller : d # c => call'[d] = call[d],
         Sound(call'[c]), \A d \in Caller : d # c => Apart(call'[c], call[d])
  PROVE  CallsApart'
<1>1. ASSUME NEW d \in Caller PROVE Sound(call[d])'
  <2>1. Sound(call'[d]) BY DEF CallsApart
  <2>2. QED BY <2>1 DEF Sound, Known, Live
<1>2. ASSUME NEW d \in Caller, NEW e \in Caller, d # e PROVE Apart(call'[d], call'[e])
  <2>1. CASE d # c /\ e # c BY <1>2, <2>1 DEF CallsApart
  <2>2. CASE d = c BY <1>2, <2>2
  <2>3. CASE e = c
    <3>1. Apart(call'[e], call'[d]) BY <1>2, <2>3
    <3>2. QED BY <3>1, ApartSymmetric
  <2>4. QED BY <2>1, <2>2, <2>3
<1>3. ASSUME NEW d \in Caller, NEW e \in Caller, d # e PROVE Apart(call[d], call[e])'
  BY <1>2, <1>3 DEF Apart, Keeps
<1>4. QED BY <1>1, <1>3 DEF CallsApart

(* A request that ends and leaves the tokens alone. *)
LEMMA EndsEmpty ==
  ASSUME TypeOK, CallsApart, NEW c \in Caller, Ends(c), token' = token
  PROVE  CallsApart' /\ call' \in [Caller -> CallRow]
<1>1. call' \in [Caller -> CallRow] /\ call'[c] = NoCall /\ \A d \in Caller : d # c => call'[d] = call[d]
  BY NoCallFits DEF Ends, Becomes, TypeOK
<1>2. \A d \in Caller : Apart(call'[c], call[d])
  BY <1>1, NoCallFits DEF TypeOK
<1>3. Sound(call'[c]) BY <1>1, NoCallFits
<1>4. CallsApart' BY <1>1, <1>2, <1>3, SameTokens
<1>5. QED BY <1>1, <1>4

(* What a commit of request c may do to a token. *)
Committed(c, t) ==
  \/ token'[t] = token[t]
  \/ t = call[c].new /\ t \notin Known /\ token'[t].known /\ ~token'[t].revoked
  \/ /\ Live(t) /\ token'[t].known /\ token'[t].revoked
     /\ Keeps(call[c], t) \/ t \in call[c].held

(* A request that ends with a commit. *)
LEMMA Commits ==
  ASSUME TypeOK, CallsApart, NEW c \in Caller, Ends(c), \A t \in Token : Committed(c, t),
         token' \in [Token -> TokenRow]
  PROVE  CallsApart' /\ call' \in [Caller -> CallRow]
<1>1. call' \in [Caller -> CallRow] /\ call'[c] = NoCall /\ \A d \in Caller : d # c => call'[d] = call[d]
  BY NoCallFits DEF Ends, Becomes, TypeOK
<1>2. ASSUME NEW d \in Caller PROVE Sound(call[d])'
  <2>1. CASE d = c BY <1>1, <2>1 DEF Sound, NoCall
  <2>2. CASE d # c
    <3>1. Sound(call[d]) /\ Apart(call[c], call[d]) /\ call'[d] = call[d] /\ call[d] \in CallRow /\ call[c] \in CallRow
      BY <1>1, <2>2 DEF CallsApart, TypeOK
    <3>2. ASSUME NEW t \in Token
          PROVE  /\ token[t].known => token'[t].known
                 /\ (token[t].known /\ token[t].revoked) => token'[t].revoked
                 /\ (Live(t) /\ (Keeps(call[d], t) \/ t \in call[d].held)) => ~token'[t].revoked
                 /\ (t = call[d].new /\ ~token[t].known) => ~token'[t].known
      <4>1. CASE token'[t] = token[t] BY <4>1 DEF Live
      <4>2. CASE t = call[c].new /\ t \notin Known /\ token'[t].known /\ ~token'[t].revoked
        <5>1. ~token[t].known BY <4>2 DEF Known
        <5>2. t # NoToken BY SessionAssumption DEF Token, NoToken
        <5>3. t # call[d].new BY <3>1, <4>2, <5>2 DEF Apart
        <5>4. QED BY <4>2, <5>1, <5>3
      <4>3. CASE /\ Live(t) /\ token'[t].known /\ token'[t].revoked
                 /\ Keeps(call[c], t) \/ t \in call[c].held
        <5>1. ~Keeps(call[d], t) /\ t \notin call[d].held BY <3>1, <4>3 DEF Apart
        <5>2. QED BY <4>3, <5>1 DEF Live
      <4>4. QED BY <4>1, <4>2, <4>3 DEF Committed
    <3>3. /\ call[d].pc = "asking" => call[d].token \in Known'
          /\ call[d].pc \in {"reused", "revoking"} => call[d].token \in Known' /\ token'[call[d].token].revoked
      BY <3>1, <3>2 DEF Sound, Known
    <3>4. call[d].pc \in {"rotating", "leaving"} => call[d].token \in Token /\ Live(call[d].token)'
      BY <3>1, <3>2 DEF Sound, Live, Keeps
    <3>5. IF call[d].pc \in {"issued", "rotating"} THEN call[d].new \in Token \ Known' ELSE call[d].new = NoToken
      BY <3>1, <3>2 DEF Sound, Known
    <3>6. call[d].seen \subseteq Known' BY <3>1, <3>2 DEF Sound, Known
    <3>7. \A t \in call[d].held : Live(t)' BY <3>1, <3>2 DEF Sound, Live, Known, CallRow
    <3>8. \A t \in (call[d].seen \ call[d].todo) \ call[d].held : token'[t].revoked
      BY <3>1, <3>2 DEF Sound, Known, CallRow
    <3>9. QED BY <3>1, <3>3, <3>4, <3>5, <3>6, <3>7, <3>8 DEF Sound
  <2>3. QED BY <2>1, <2>2
<1>3. ASSUME NEW d \in Caller, NEW e \in Caller, d # e PROVE Apart(call[d], call[e])'
  <2>1. Apart(call'[d], call'[e])
    <3>1. CASE d # c /\ e # c BY <1>1, <1>3, <3>1 DEF CallsApart
    <3>2. CASE d = c BY <1>1, <1>3, <3>2, NoCallFits
    <3>3. CASE e = c
      <4>1. Apart(call'[e], call'[d]) BY <1>1, <1>3, <3>3, NoCallFits
      <4>2. QED BY <1>1, <4>1, ApartSymmetric
    <3>4. QED BY <3>1, <3>2, <3>3
  <2>2. QED BY <2>1 DEF Apart, Keeps
<1>4. QED BY <1>1, <1>2, <1>3 DEF CallsApart
-----------------------------------------------------------------------------
(* The steps that leave the tokens alone. *)

(* What does not look at the tokens stays true. *)
LEMMA TokensStay ==
  ASSUME SessionInv, token' = token, CallsApart', call' \in [Caller -> CallRow],
         active' \in BOOLEAN, attempts' \in Nat, expiring' \in BOOLEAN,
         calls' \in 0..MaxCalls, faults' \in 0..MaxFaults
  PROVE  SessionInv'
BY DEF SessionInv, TypeOK, Chained, OneLivePerLogin, Live

(* A request that ends and changes no token. *)
LEMMA EndsStay ==
  ASSUME SessionInv, NEW c \in Caller, Ends(c), token' = token,
         active' \in BOOLEAN, attempts' \in Nat, expiring' \in BOOLEAN,
         calls' \in 0..MaxCalls, faults' \in 0..MaxFaults
  PROVE  SessionInv'
BY EndsEmpty, TokensStay DEF SessionInv

(* A request that takes a new row and changes no token. *)
LEMMA BecomesStays ==
  ASSUME SessionInv, NEW c \in Caller, NEW STATE x, x \in CallRow, Becomes(c, x), token' = token,
         Sound(x), \A d \in Caller : d # c => Apart(x, call[d]),
         active' \in BOOLEAN, attempts' \in Nat, expiring' \in BOOLEAN,
         calls' \in 0..MaxCalls, faults' \in 0..MaxFaults
  PROVE  SessionInv'
<1>1. call' \in [Caller -> CallRow] /\ call'[c] = x /\ \A d \in Caller : d # c => call'[d] = call[d]
  BY DEF Becomes, SessionInv, TypeOK
<1>2. Sound(call'[c]) /\ \A d \in Caller : d # c => Apart(call'[c], call[d])
  BY <1>1
<1>3. CallsApart' BY <1>1, <1>2, SameTokens DEF SessionInv
<1>4. QED BY <1>1, <1>3, TokensStay

(* The bounded counters after a step. *)
LEMMA CallCounted == ASSUME TypeOK, NEW c \in Caller, Begins(c) PROVE calls' \in 0..MaxCalls
BY SessionAssumption DEF TypeOK, Begins
LEMMA FaultCounted == ASSUME TypeOK, Fault PROVE faults' \in 0..MaxFaults
BY SessionAssumption DEF TypeOK, Fault

LEMMA BeginLoginStep ==
  ASSUME SessionInv, NEW c \in Caller, BeginLogin(c) PROVE SessionInv'
<1> DEFINE x == [NoCall EXCEPT !.pc = "verifying"]
<1>1. x \in CallRow /\ Sound(x) /\ \A y \in CallRow : Apart(x, y)
  BY DEF NoCall, CallRow, Sound, Apart, Keeps, NoToken, Token
<1>2. /\ token' = token /\ active' \in BOOLEAN /\ attempts' \in Nat /\ expiring' \in BOOLEAN
      /\ calls' \in 0..MaxCalls /\ faults' \in 0..MaxFaults
  BY CallCounted, FaultCounted DEF BeginLogin, SessionInv, TypeOK
<1>3. CASE Ends(c) BY <1>2, <1>3, EndsStay
<1>4. CASE Becomes(c, x)
  <2>1. \A d \in Caller : d # c => Apart(x, call[d]) BY <1>1 DEF SessionInv, TypeOK
  <2>2. QED BY <1>1, <1>2, <1>4, <2>1, BecomesStays
<1>5. QED BY <1>3, <1>4 DEF BeginLogin

LEMMA VerifyStep ==
  ASSUME SessionInv, NEW c \in Caller, Verify(c) PROVE SessionInv'
<1> DEFINE x == [NoCall EXCEPT !.pc = "verified"]
<1>1. x \in CallRow /\ Sound(x) /\ \A y \in CallRow : Apart(x, y)
  BY DEF NoCall, CallRow, Sound, Apart, Keeps, NoToken, Token
<1>2. /\ token' = token /\ active' \in BOOLEAN /\ attempts' \in Nat /\ expiring' \in BOOLEAN
      /\ calls' \in 0..MaxCalls /\ faults' \in 0..MaxFaults
  <2>1. token' = token /\ active' = active /\ calls' = calls BY DEF Verify
  <2>2. (faults' = faults /\ (Counts \/ Forgets)) \/ RedisFails BY DEF Verify
  <2>3. attempts' \in Nat
    <3>1. attempts \in Nat BY DEF SessionInv, TypeOK
    <3>2. attempts' \in {attempts + 1, 0, attempts} BY <2>2 DEF Counts, Forgets, RedisFails
    <3>3. QED BY <3>1, <3>2
  <2>4. expiring' \in BOOLEAN
    <3>1. expiring \in BOOLEAN BY DEF SessionInv, TypeOK
    <3>2. expiring' = TRUE \/ expiring' = FALSE \/ expiring' = expiring
      BY <2>2 DEF Counts, Forgets, RedisFails
    <3>3. QED BY <3>1, <3>2
  <2>5. faults' \in 0..MaxFaults BY <2>2, FaultCounted DEF RedisFails, SessionInv, TypeOK
  <2>6. QED BY <2>1, <2>3, <2>4, <2>5 DEF SessionInv, TypeOK
<1>3. CASE Ends(c) BY <1>2, <1>3, EndsStay
<1>4. CASE Becomes(c, x)
  <2>1. \A d \in Caller : d # c => Apart(x, call[d]) BY <1>1 DEF SessionInv, TypeOK
  <2>2. QED BY <1>1, <1>2, <1>4, <2>1, BecomesStays
<1>5. QED BY <1>3, <1>4 DEF Verify

(* A token that is new is no request's. *)
LEMMA FreshIsNew ==
  ASSUME TypeOK, NEW n \in Token, NewToken(n)
  PROVE  n \notin Known /\ n # NoToken /\ \A d \in Caller : n # call[d].new
BY SessionAssumption DEF NewToken, Fresh, Known, NoToken, Token

LEMMA IssueLoginStep ==
  ASSUME SessionInv, NEW c \in Caller, IssueLogin(c) PROVE SessionInv'
<1>1. PICK n \in Token : NewToken(n) /\ Becomes(c, [NoCall EXCEPT !.pc = "issued", !.new = n])
  BY DEF IssueLogin
<1> DEFINE x == [NoCall EXCEPT !.pc = "issued", !.new = n]
<1>2. n \notin Known /\ n # NoToken /\ \A d \in Caller : n # call[d].new
  BY <1>1, FreshIsNew DEF SessionInv
<1>3. x \in CallRow /\ Sound(x) BY <1>2 DEF NoCall, CallRow, Sound, NoToken, Token
<1>4. \A d \in Caller : d # c => Apart(x, call[d])
  BY <1>2 DEF NoCall, Apart, Keeps, NoToken, Token
<1>5. QED BY <1>1, <1>3, <1>4, BecomesStays DEF IssueLogin, SessionInv, TypeOK

LEMMA BeginRefreshStep ==
  ASSUME SessionInv, NEW c \in Caller, NEW t \in Token, BeginRefresh(c, t) PROVE SessionInv'
<1> DEFINE x == [NoCall EXCEPT !.pc = "asking", !.token = t]
<1>1. x \in CallRow /\ Sound(x) BY DEF NoCall, CallRow, Sound, NoToken, Token, BeginRefresh, Known
<1>2. \A d \in Caller : d # c => Apart(x, call[d]) BY DEF NoCall, Apart, Keeps, NoToken, Token
<1>3. Becomes(c, x) /\ calls' \in 0..MaxCalls BY CallCounted DEF BeginRefresh, SessionInv
<1>4. QED BY <1>1, <1>2, <1>3, BecomesStays DEF BeginRefresh, SessionInv, TypeOK

LEMMA ReadTokenStep ==
  ASSUME SessionInv, NEW c \in Caller, NEW t \in Token, ReadToken(c, t) PROVE SessionInv'
<1>1. /\ token' = token /\ active' \in BOOLEAN /\ attempts' \in Nat /\ expiring' \in BOOLEAN
      /\ calls' \in 0..MaxCalls /\ faults' \in 0..MaxFaults
  BY DEF ReadToken, SessionInv, TypeOK
<1>2. token[t].known BY DEF ReadToken, SessionInv, CallsApart, Sound, Known
<1>3. \A d \in Caller : ~Keeps(call[d], t) /\ t \notin call[d].held
  BY DEF ReadToken, RowFree, RequestHolds, Keeps
<1>4. CASE Ends(c) BY <1>1, <1>4, EndsStay
<1>5. CASE token[t].revoked /\ Becomes(c, [NoCall EXCEPT !.pc = "reused", !.token = t])
  <2> DEFINE x == [NoCall EXCEPT !.pc = "reused", !.token = t]
  <2>1. x \in CallRow /\ Sound(x) BY <1>2, <1>5 DEF NoCall, CallRow, Sound, NoToken, Token, Known
  <2>2. \A d \in Caller : d # c => Apart(x, call[d])
    BY <1>3 DEF NoCall, Apart, Keeps, NoToken, Token
  <2>3. QED BY <1>1, <1>5, <2>1, <2>2, BecomesStays
<1>6. CASE /\ ~token[t].revoked
           /\ \E n \in Token : NewToken(n) /\ Becomes(c, [NoCall EXCEPT !.pc = "rotating", !.token = t, !.new = n])
  <2>1. PICK n \in Token : NewToken(n) /\ Becomes(c, [NoCall EXCEPT !.pc = "rotating", !.token = t, !.new = n])
    BY <1>6
  <2> DEFINE x == [NoCall EXCEPT !.pc = "rotating", !.token = t, !.new = n]
  <2>2. n \notin Known /\ n # NoToken /\ \A d \in Caller : n # call[d].new
    BY <2>1, FreshIsNew DEF SessionInv
  <2>3. x \in CallRow /\ Sound(x)
    BY <1>2, <1>6, <2>2 DEF NoCall, CallRow, Sound, NoToken, Token, Live
  <2>4. \A d \in Caller : d # c => Apart(x, call[d])
    BY <1>3, <2>2 DEF NoCall, Apart, Keeps, NoToken, Token
  <2>5. QED BY <1>1, <2>1, <2>3, <2>4, BecomesStays
<1>7. QED BY <1>4, <1>5, <1>6 DEF ReadToken
LEMMA BeginRevokeStep ==
  ASSUME SessionInv, NEW c \in Caller, BeginRevoke(c) PROVE SessionInv'
<1> DEFINE x == [call[c] EXCEPT !.pc = "revoking", !.seen = Targets, !.todo = Targets]
<1>1. call[c] \in CallRow /\ Sound(call[c]) /\ call[c].pc = "reused" /\ Targets \subseteq Known /\ Targets \subseteq Token
  BY DEF BeginRevoke, SessionInv, TypeOK, CallsApart, Targets, Live, Known
<1>2. /\ x \in CallRow /\ x.pc = "revoking" /\ x.seen = Targets /\ x.todo = Targets
      /\ x.held = {} /\ x.token = call[c].token /\ x.new = NoToken
  BY <1>1 DEF CallRow, Sound
<1>3. Sound(x) BY <1>1, <1>2 DEF Sound
<1>4. ASSUME NEW d \in Caller, d # c PROVE Apart(x, call[d])
  <2>1. Apart(call[c], call[d]) BY <1>4 DEF SessionInv, CallsApart
  <2>2. QED BY <1>1, <1>2, <2>1 DEF Apart, Keeps
<1>5. QED BY <1>2, <1>3, <1>4, BecomesStays DEF BeginRevoke, SessionInv, TypeOK

LEMMA RevokeRowStep ==
  ASSUME SessionInv, NEW c \in Caller, NEW t \in Token, RevokeRow(c, t) PROVE SessionInv'
<1> DEFINE h == IF token[t].revoked THEN call[c].held ELSE call[c].held \cup {t}
           x == [call[c] EXCEPT !.todo = @ \ {t}, !.held = h]
<1>1. /\ call[c] \in CallRow /\ Sound(call[c]) /\ call[c].pc = "revoking" /\ t \in call[c].todo
      /\ \A d \in Caller : ~Keeps(call[d], t) /\ t \notin call[d].held
  BY DEF RevokeRow, Reach, RowFree, RequestHolds, Keeps, SessionInv, TypeOK, CallsApart
<1>2. /\ x \in CallRow /\ x.pc = "revoking" /\ x.seen = call[c].seen /\ x.todo = call[c].todo \ {t}
      /\ x.held = h /\ x.token = call[c].token /\ x.new = call[c].new
  BY <1>1 DEF CallRow
<1>3. Sound(x)
  <2>1. t \in Known BY <1>1 DEF Sound
  <2>2. \A u \in h : Live(u) BY <1>1, <2>1 DEF Sound, Live, Known
  <2>3. h \subseteq x.seen \ x.todo BY <1>1, <1>2 DEF Sound
  <2>4. \A u \in (x.seen \ x.todo) \ h : token[u].revoked BY <1>1, <1>2 DEF Sound
  <2>5. QED BY <1>1, <1>2, <2>2, <2>3, <2>4 DEF Sound
<1>4. ASSUME NEW d \in Caller, d # c PROVE Apart(x, call[d])
  <2>1. Apart(call[c], call[d]) BY <1>4 DEF SessionInv, CallsApart
  <2>2. QED BY <1>1, <1>2, <2>1 DEF Apart, Keeps
<1>5. Becomes(c, x) BY DEF RevokeRow, Reach
<1>6. QED BY <1>2, <1>3, <1>4, <1>5, BecomesStays DEF RevokeRow, SessionInv, TypeOK

LEMMA BeginLogoutStep ==
  ASSUME SessionInv, NEW c \in Caller, NEW t \in Token, BeginLogout(c, t) PROVE SessionInv'
<1>1. /\ token' = token /\ active' \in BOOLEAN /\ attempts' \in Nat /\ expiring' \in BOOLEAN
      /\ calls' \in 0..MaxCalls /\ faults' \in 0..MaxFaults
  BY CallCounted DEF BeginLogout, SessionInv, TypeOK
<1>2. CASE Ends(c) BY <1>1, <1>2, EndsStay
<1>3. CASE ~token[t].revoked /\ Becomes(c, [NoCall EXCEPT !.pc = "leaving", !.token = t])
  <2> DEFINE x == [NoCall EXCEPT !.pc = "leaving", !.token = t]
  <2>1. \A d \in Caller : ~Keeps(call[d], t) /\ t \notin call[d].held
    BY <1>3 DEF BeginLogout, RowFree, RequestHolds, Keeps
  <2>2. x \in CallRow /\ Sound(x)
    BY <1>3 DEF BeginLogout, NoCall, CallRow, Sound, NoToken, Token, Live
  <2>3. \A d \in Caller : d # c => Apart(x, call[d])
    BY <2>1 DEF NoCall, Apart, Keeps, NoToken, Token
  <2>4. QED BY <1>1, <1>3, <2>2, <2>3, BecomesStays
<1>4. QED BY <1>2, <1>3 DEF BeginLogout

-----------------------------------------------------------------------------
(* The commits. *)

(* The tokens that a known token names. *)
LEMMA Names ==
  ASSUME SessionInv, NEW t \in Token, token[t].known
  PROVE  /\ token[t].login \in Token /\ token[token[t].login].known
         /\ token[t].replacedBy # NoToken =>
              /\ token[t].replacedBy \in Token /\ token[t].revoked /\ token[token[t].replacedBy].known
              /\ token[token[t].replacedBy].login = token[t].login
BY DEF SessionInv, TypeOK, TokenRow, Chained

(* The rows a commit has to leave in order. *)
LEMMA CommitsStay ==
  ASSUME SessionInv, NEW c \in Caller, Ends(c), \A t \in Token : Committed(c, t),
         token' \in [Token -> TokenRow], Chained', OneLivePerLogin',
         UNCHANGED <<active, attempts, expiring, calls, faults>>
  PROVE  SessionInv'
BY Commits DEF SessionInv, TypeOK

LEMMA CommitLoginStep ==
  ASSUME SessionInv, NEW c \in Caller, CommitLogin(c) PROVE SessionInv'
<1> DEFINE n == call[c].new
<1>1. n \in Token /\ ~token[n].known /\ token \in [Token -> TokenRow]
  BY DEF CommitLogin, SessionInv, CallsApart, Sound, Known, TypeOK
<1>2. /\ token' \in [Token -> TokenRow]
      /\ \A t \in Token : token'[t] = IF t = n THEN Issued(n, n) ELSE token[t]
  BY <1>1 DEF CommitLogin, TokenRow, Issued
<1>3. \A t \in Token : Committed(c, t) BY <1>1, <1>2 DEF Committed, Issued, Known
<1>4. Chained'
  <2>1. \A t \in Token : token[t].known => token'[t] = token[t] BY <1>1, <1>2
  <2>2. \A t \in Token : ~token[t].known => ~token[t].revoked BY DEF SessionInv, Chained
  <2>3. QED BY <1>1, <1>2, <2>1, <2>2, Names DEF Chained, Issued, NoToken
<1>5. OneLivePerLogin'
  <2>1. \A t \in Token : (t # n /\ token[t].known) => token[t].login # n
    BY <1>1 DEF SessionInv, Chained
  <2>2. QED BY <1>2, <2>1 DEF OneLivePerLogin, SessionInv, Live, Issued
<1>6. QED BY <1>2, <1>3, <1>4, <1>5, CommitsStay DEF CommitLogin

LEMMA CommitRefreshStep ==
  ASSUME SessionInv, NEW c \in Caller, CommitRefresh(c) PROVE SessionInv'
<1> DEFINE n == call[c].new
           t == call[c].token
<1>1. /\ n \in Token /\ ~token[n].known /\ t \in Token /\ Live(t) /\ t # n
      /\ token \in [Token -> TokenRow]
  BY DEF CommitRefresh, SessionInv, CallsApart, Sound, Known, TypeOK, Live
<1>2. /\ token[t] \in TokenRow /\ token[t].login \in Token /\ token[t].known /\ ~token[t].revoked
  BY <1>1 DEF SessionInv, Chained, Live
<1> DEFINE r == [token[t] EXCEPT !.revoked = TRUE, !.replacedBy = n]
<1>3. /\ token' \in [Token -> TokenRow] /\ token'[n] = Issued(n, token[t].login)
      /\ token'[t].known /\ token'[t].revoked /\ token'[t].replacedBy = n /\ token'[t].login = token[t].login
      /\ \A u \in Token : (u # n /\ u # t) => token'[u] = token[u]
  BY <1>1, <1>2 DEF CommitRefresh, TokenRow, Issued, NoToken
<1>4. \A u \in Token : Committed(c, u)
  BY <1>1, <1>3 DEF Committed, Issued, Known, Keeps, CommitRefresh
<1>5. Chained'
  <2>1. \A u \in Token : token[u].known => token'[u].known /\ token'[u].login = token[u].login
    BY <1>1, <1>3
  <2>2. \A u \in Token : ~token[u].known => ~token[u].revoked BY DEF SessionInv, Chained
  <2>3. token'[n].known /\ token'[n].login = token[t].login /\ token'[n].replacedBy = NoToken
    BY <1>3 DEF Issued
  <2>4. QED BY <1>1, <1>2, <1>3, <2>1, <2>2, <2>3, Names DEF Chained
<1>6. OneLivePerLogin' BY <1>1, <1>2, <1>3 DEF OneLivePerLogin, SessionInv, Live, Issued
<1>7. QED BY <1>3, <1>4, <1>5, <1>6, CommitsStay DEF CommitRefresh

(* A commit that only revokes leaves the logins in order. *)
LEMMA RevokingKeepsOrder ==
  ASSUME SessionInv, NEW S \in SUBSET Token,
         \A t \in S : Live(t),
         token' = [t \in Token |-> IF t \in S THEN [token[t] EXCEPT !.revoked = TRUE] ELSE token[t]]
  PROVE  token' \in [Token -> TokenRow] /\ Chained' /\ OneLivePerLogin'
<1>1. ASSUME NEW t \in Token
      PROVE  /\ token'[t] \in TokenRow /\ token'[t].known = token[t].known
             /\ token'[t].replacedBy = token[t].replacedBy /\ token'[t].login = token[t].login
             /\ token'[t].revoked = (token[t].revoked \/ t \in S)
  <2>1. token[t] \in TokenRow BY DEF SessionInv, TypeOK
  <2>2. CASE t \in S
    <3>1. token'[t] = [token[t] EXCEPT !.revoked = TRUE] BY <2>2
    <3>2. QED BY <2>1, <2>2, <3>1 DEF TokenRow
  <2>3. CASE t \notin S
    <3>1. token'[t] = token[t] BY <2>3
    <3>2. QED BY <2>1, <2>3, <3>1 DEF TokenRow
  <2>4. QED BY <2>2, <2>3
<1>2. token' \in [Token -> TokenRow] BY <1>1
<1>3. Chained'
  <2>1. \A t \in Token : ~token[t].known => ~token[t].revoked BY DEF SessionInv, Chained
  <2>2. QED BY <1>1, <2>1, Names DEF Chained, Live
<1>4. OneLivePerLogin' BY <1>1 DEF OneLivePerLogin, SessionInv, Live
<1>5. QED BY <1>2, <1>3, <1>4

LEMMA CommitRevokeStep ==
  ASSUME SessionInv, NEW c \in Caller, CommitRevoke(c) PROVE SessionInv'
<1>1. call[c].held \in SUBSET Token /\ \A t \in call[c].held : Live(t)
  BY DEF SessionInv, TypeOK, CallRow, CallsApart, Sound
<1>2. token' = [t \in Token |-> IF t \in call[c].held THEN [token[t] EXCEPT !.revoked = TRUE] ELSE token[t]]
  BY DEF CommitRevoke
<1>3. token' \in [Token -> TokenRow] /\ Chained' /\ OneLivePerLogin'
  BY <1>1, <1>2, RevokingKeepsOrder
<1>4. \A t \in Token : Committed(c, t)
  BY <1>1, <1>2 DEF Committed, Live, SessionInv, TypeOK, TokenRow
<1>5. QED BY <1>3, <1>4, CommitsStay DEF CommitRevoke

LEMMA CommitLogoutStep ==
  ASSUME SessionInv, NEW c \in Caller, CommitLogout(c) PROVE SessionInv'
<1> DEFINE S == {call[c].token}
<1>1. S \in SUBSET Token /\ \A t \in S : Live(t)
  BY DEF CommitLogout, SessionInv, CallsApart, Sound
<1>2. token' = [t \in Token |-> IF t \in S THEN [token[t] EXCEPT !.revoked = TRUE] ELSE token[t]]
  BY <1>1 DEF CommitLogout, SessionInv, TypeOK
<1>3. token' \in [Token -> TokenRow] /\ Chained' /\ OneLivePerLogin'
  BY <1>1, <1>2, RevokingKeepsOrder
<1>4. \A t \in Token : Committed(c, t)
  BY <1>1, <1>2 DEF Committed, Live, Keeps, CommitLogout, SessionInv, TypeOK, TokenRow
<1>5. QED BY <1>3, <1>4, CommitsStay DEF CommitLogout

-----------------------------------------------------------------------------
(* Every step. *)

(* A request that ends by itself, or is rolled back. *)
LEMMA GivesUp ==
  ASSUME SessionInv, NEW c \in Caller, PoolTimeout(c) \/ BreakDeadlock(c) \/ Rollback(c) PROVE SessionInv'
<1>1. Ends(c) /\ token' = token /\ UNCHANGED <<active, attempts, expiring, calls>>
  BY DEF PoolTimeout, BreakDeadlock, Rollback
<1>2. faults' \in 0..MaxFaults
  BY FaultCounted DEF PoolTimeout, BreakDeadlock, Rollback, SessionInv, TypeOK
<1>3. QED BY <1>1, <1>2, EndsStay DEF SessionInv, TypeOK

(* The steps that no request makes, and those that change nothing. *)
LEMMA OthersKeepSessions ==
  ASSUME SessionInv, ExpireAttempts \/ Deactivate \/ UNCHANGED vars PROVE SessionInv'
<1>1. token' = token /\ call' = call /\ calls' = calls /\ faults' = faults
  BY DEF ExpireAttempts, Deactivate, vars
<1>2. CallsApart' BY <1>1 DEF SessionInv, CallsApart, Sound, Apart, Keeps, Known, Live
<1>3. active' \in BOOLEAN /\ attempts' \in Nat /\ expiring' \in BOOLEAN
  <2>1. active \in BOOLEAN /\ attempts \in Nat /\ expiring \in BOOLEAN BY DEF SessionInv, TypeOK
  <2>2. active' = active \/ active' = FALSE BY DEF ExpireAttempts, Deactivate, vars
  <2>3. attempts' = attempts \/ attempts' = 0 BY DEF ExpireAttempts, Deactivate, Forgets, vars
  <2>4. expiring' = expiring \/ expiring' = FALSE BY DEF ExpireAttempts, Deactivate, Forgets, vars
  <2>5. active' \in BOOLEAN BY <2>1, <2>2
  <2>6. attempts' \in Nat BY <2>1, <2>3
  <2>7. expiring' \in BOOLEAN BY <2>1, <2>4
  <2>8. QED BY <2>5, <2>6, <2>7
<1>4. QED BY <1>1, <1>2, <1>3, TokensStay DEF SessionInv, TypeOK

LEMMA SessionStep == SessionInv /\ [Next]_vars => SessionInv'
<1> SUFFICES ASSUME SessionInv, [Next]_vars PROVE SessionInv'
  OBVIOUS
<1>1. ASSUME NEW c \in Caller, BeginLogin(c) PROVE SessionInv' BY <1>1, BeginLoginStep
<1>2. ASSUME NEW c \in Caller, Verify(c) PROVE SessionInv' BY <1>2, VerifyStep
<1>3. ASSUME NEW c \in Caller, IssueLogin(c) PROVE SessionInv' BY <1>3, IssueLoginStep
<1>4. ASSUME NEW c \in Caller, CommitLogin(c) PROVE SessionInv' BY <1>4, CommitLoginStep
<1>5. ASSUME NEW c \in Caller, NEW t \in Token, BeginRefresh(c, t) PROVE SessionInv' BY <1>5, BeginRefreshStep
<1>6. ASSUME NEW c \in Caller, NEW t \in Token, ReadToken(c, t) PROVE SessionInv' BY <1>6, ReadTokenStep
<1>7. ASSUME NEW c \in Caller, CommitRefresh(c) PROVE SessionInv' BY <1>7, CommitRefreshStep
<1>8. ASSUME NEW c \in Caller, BeginRevoke(c) PROVE SessionInv' BY <1>8, BeginRevokeStep
<1>9. ASSUME NEW c \in Caller, NEW t \in Token, RevokeRow(c, t) PROVE SessionInv' BY <1>9, RevokeRowStep
<1>10. ASSUME NEW c \in Caller, CommitRevoke(c) PROVE SessionInv' BY <1>10, CommitRevokeStep
<1>11. ASSUME NEW c \in Caller, NEW t \in Token, BeginLogout(c, t) PROVE SessionInv' BY <1>11, BeginLogoutStep
<1>12. ASSUME NEW c \in Caller, CommitLogout(c) PROVE SessionInv' BY <1>12, CommitLogoutStep
<1>13. ASSUME NEW c \in Caller, PoolTimeout(c) \/ BreakDeadlock(c) \/ Rollback(c) PROVE SessionInv'
  BY <1>13, GivesUp
<1>14. ASSUME ExpireAttempts \/ Deactivate \/ UNCHANGED vars PROVE SessionInv' BY <1>14, OthersKeepSessions
<1>15. QED
  BY <1>1, <1>2, <1>3, <1>4, <1>5, <1>6, <1>7, <1>8, <1>9, <1>10, <1>11, <1>12, <1>13, <1>14 DEF Next, Step

LEMMA SessionStart == Init => SessionInv
<1> SUFFICES ASSUME Init PROVE SessionInv
  OBVIOUS
<1>1. TypeOK
  <2>1. active \in BOOLEAN /\ expiring \in BOOLEAN BY DEF Init
  <2>2. attempts \in Nat /\ calls \in 0..MaxCalls /\ faults \in 0..MaxFaults BY SessionAssumption DEF Init
  <2>3. token \in [Token -> TokenRow] /\ call \in [Caller -> CallRow]
    BY SessionAssumption, NoCallFits DEF Init
  <2>4. QED BY <2>1, <2>2, <2>3 DEF TypeOK
<1>2. CallsApart
  <2>1. \A c \in Caller : call[c] = NoCall BY DEF Init
  <2>2. QED BY <2>1, NoCallFits DEF CallsApart
<1>3. Chained BY SessionAssumption DEF Init, Chained
<1>4. OneLivePerLogin BY SessionAssumption DEF Init, OneLivePerLogin, Live
<1>5. QED BY <1>1, <1>2, <1>3, <1>4 DEF SessionInv

-----------------------------------------------------------------------------
(* Theorems *)

(* services/auth.py: every reachable state fits SessionInv: requests lock, write and *)
(* insert different tokens, and tokens are chained by their logins.                  *)
THEOREM SessionInvariant == Spec => []SessionInv
<1>1. QED BY SessionStart, SessionStep, PTL DEF Spec

(* refresh and login: one login never has two tokens that are usable, whatever *)
(* requests bring one token at once.                                           *)
THEOREM OneUsableToken == Spec => []OneLivePerLogin
<1>1. SessionInv => OneLivePerLogin BY DEF SessionInv
<1>2. QED BY <1>1, SessionInvariant, PTL

(* _revoke_all_for_user: a revocation that commits has revoked every token its *)
(* snapshot had, in whichever order the rows were locked and rotated.          *)
THEOREM RevocationComplete == Spec => RevocationMissesNone
<1>1. SessionInv /\ [Next]_vars =>
        [\A c \in Caller : CommitRevoke(c) => \A t \in Token : Live(t)' => t \notin call[c].seen]_vars
  <2> SUFFICES ASSUME SessionInv, NEW c \in Caller, CommitRevoke(c), NEW t \in Token, t \in call[c].seen
               PROVE  ~Live(t)'
    OBVIOUS
  <2>1. t \in call[c].held \/ token[t].revoked
    BY DEF CommitRevoke, SessionInv, CallsApart, Sound
  <2>2. token[t] \in TokenRow BY DEF SessionInv, TypeOK
  <2>3. token'[t].revoked BY <2>1, <2>2 DEF CommitRevoke, TokenRow
  <2>4. QED BY <2>3 DEF Live
<1>2. QED BY <1>1, SessionInvariant, PTL DEF Spec, RevocationMissesNone
=============================================================================
