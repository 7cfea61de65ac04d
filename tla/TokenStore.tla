----------------------------- MODULE TokenStore -----------------------------
(***************************************************************************)
(* The OAuth tokens of the wiresteward agent: GetToken, saveToken and      *)
(* ExchangeToken of oauth2.go, and their callers in agent.go.              *)
(*                                                                         *)
(* The refresh loop and the handlers of / and /oauth2/callback fetch tokens*)
(* concurrently.  GetToken runs under mu, a login does not.  Tokens are    *)
(* numbered in the order the agent gets them from the identity provider;   *)
(* redeeming the refresh token of one yields the next and uses it up.      *)
(***************************************************************************)
EXTENDS Integers

CONSTANTS
  Handlers,   \* goroutines serving / and /oauth2/callback
  Loop,       \* the goroutine of tokenRefreshLoop
  MaxTokens,  \* bound on the tokens issued
  MaxLogins,  \* bound on the logins begun
  Faults,     \* may the file fail, or an answer of the provider be lost?
  Kills,      \* may the process be killed?
  Nobody,     \* mu is free
  Missing,    \* the token file does not exist
  Torn        \* the token file does not decode

Threads == Handlers \cup {Loop}
Token   == 1 .. MaxTokens

ASSUME StoreAssumption ==
  /\ MaxTokens \in Nat /\ MaxLogins \in Nat
  /\ Faults \in BOOLEAN /\ Kills \in BOOLEAN
  /\ Loop \notin Handlers /\ Nobody \notin Threads
  /\ Missing \notin Nat /\ Torn \notin Nat /\ Missing # Torn

VARIABLES
  up,          \* is the agent running?
  first,       \* is the refresh loop's check on startup still to come?
  mu,          \* the holder of oa.mu
  pc,          \* pc[h]: what thread h does next
  tok,         \* tok[h]: the token in its hands, or 0
  file,        \* the token file
  cachedToken, \* the token of the last renewAllLeases, or 0
  verifier,    \* the login oa.codeVerifier belongs to, or 0
  logins,      \* logins begun so far
  answers,     \* logins whose callback is still to come
  issued,      \* tokens received so far
  age,         \* age[t]: fresh, near its expiry or expired
  redeemed,    \* tokens whose refresh token is used up
  (*************************************************************************)
  (* History, read by properties and never by a guard.                     *)
  (*************************************************************************)
  settled,     \* tokens passed to renewAllLeases, or lost with a process
  orphaned     \* tokens whose refresh token is used up and that are still in
               \* the file, because their successor was never saved

threadVars   == <<pc, tok>>
loginVars    == <<verifier, logins, answers>>
providerVars == <<issued, age, redeemed>>
vars == <<up, first, mu, threadVars, file, cachedToken, loginVars,
          providerVars, settled, orphaned>>

Goto(h, next) == pc' = [pc EXCEPT ![h] = next]
Unlock(h)     == mu' = IF mu = h THEN Nobody ELSE mu

(* Thread h is done with its token; the loop's first check is over.        *)
Leave(h) ==
  /\ Goto(h, "idle") /\ tok' = [tok EXCEPT ![h] = 0]
  /\ first' = (first /\ h # Loop)

(* The provider issues the next token, into the hands of h.                *)
Issue(h) ==
  /\ issued < MaxTokens
  /\ issued' = issued + 1
  /\ age' = [age EXCEPT ![issued + 1] = "fresh"]
  /\ tok' = [tok EXCEPT ![h] = issued + 1]
  /\ Goto(h, "open") /\ UNCHANGED first

---------------------------------------------------------------------------
(* GetToken, called by the loop on startup and every minute and by         *)
(* mainHandler on a visit.                                                 *)

(* Mutant: GetToken does not wait for another one. *)
LockUnchecked(h) ==
  /\ up /\ pc[h] = "idle"
  /\ mu' = h
  /\ Goto(h, "read")
  /\ UNCHANGED <<up, first, tok, file, cachedToken, loginVars, providerVars,
                 settled, orphaned>>

Lock(h) ==
  /\ up /\ pc[h] = "idle" /\ mu = Nobody
  /\ mu' = h
  /\ Goto(h, "read")
  /\ UNCHANGED <<up, first, tok, file, cachedToken, loginVars, providerVars,
                 settled, orphaned>>

(* Hand the token of the file to thread h.                                 *)
Take(h, next) ==
  Goto(h, next) /\ tok' = [tok EXCEPT ![h] = file] /\ UNCHANGED first

(* A token that is not near its expiry is returned as it is, and only the  *)
(* startup check renews leases with it.                                    *)
ReadToken(h) ==
  /\ pc[h] = "read"
  /\ \/ /\ Faults \/ file \in {Missing, Torn}
        /\ Unlock(h) /\ Leave(h)
     \/ /\ file \in Token /\ age[file] = "fresh"
        /\ Unlock(h)
        /\ IF h = Loop /\ first THEN Take(h, "deliver") ELSE Leave(h)
     \/ /\ file \in Token /\ age[file] # "fresh"
        /\ Take(h, "redeem") /\ UNCHANGED mu
  /\ UNCHANGED <<up, file, cachedToken, loginVars, providerVars, settled,
                 orphaned>>

(* Mutant: the file is written after mu has been released. *)
RedeemAndUnlock(h) ==
  /\ pc[h] = "redeem"
  /\ \/ /\ tok[h] \notin redeemed
        /\ redeemed' = redeemed \cup {tok[h]}
        /\ Issue(h) /\ Unlock(h)
     \/ /\ Unlock(h) /\ Leave(h)
        /\ UNCHANGED providerVars
  /\ UNCHANGED <<up, file, cachedToken, loginVars, settled, orphaned>>

(* The refresh fails when the provider does not answer, and on a refresh   *)
(* token that has been redeemed.  It also fails when the provider does     *)
(* redeem the token but its answer is lost: then the file keeps a token    *)
(* that is used up.                                                        *)
Redeem(h) ==
  /\ pc[h] = "redeem"
  /\ \/ /\ tok[h] \notin redeemed
        /\ redeemed' = redeemed \cup {tok[h]}
        /\ Issue(h)
        /\ UNCHANGED <<mu, orphaned>>
     \/ /\ Unlock(h) /\ Leave(h)
        /\ UNCHANGED <<providerVars, orphaned>>
     \/ /\ Faults /\ tok[h] \notin redeemed
        /\ redeemed' = redeemed \cup {tok[h]}
        /\ orphaned' = orphaned \cup {tok[h]}
        /\ Unlock(h) /\ Leave(h)
        /\ UNCHANGED <<issued, age>>
  /\ UNCHANGED <<up, file, cachedToken, loginVars, settled>>

---------------------------------------------------------------------------
(* Logins.                                                                 *)

(* renewHandler: a new code verifier replaces the one before.              *)
BeginLogin ==
  /\ up /\ logins < MaxLogins
  /\ logins' = logins + 1
  /\ verifier' = logins + 1
  /\ answers' = answers \cup {logins + 1}
  /\ UNCHANGED <<up, first, mu, threadVars, file, cachedToken, providerVars,
                 settled, orphaned>>

(* callbackHandler and ExchangeToken: the provider answers only to the     *)
(* verifier of that login.                                                 *)
ExchangeToken(h) ==
  /\ up /\ pc[h] = "idle" /\ h # Loop
  /\ \E l \in answers :
       /\ answers' = answers \ {l}
       /\ (verifier = l /\ Issue(h))
            \/ UNCHANGED <<threadVars, issued, age, first>>
  /\ UNCHANGED <<up, mu, file, cachedToken, verifier, logins,
                 redeemed, settled, orphaned>>

---------------------------------------------------------------------------
(* saveToken and renewAllLeases.                                           *)

(* Mutant: only the refresh loop renews leases with a refreshed token. *)
LoopDelivers(h) ==
  /\ Unlock(h)
  /\ IF h = Loop THEN Goto(h, "deliver") /\ UNCHANGED <<tok, first>>
     ELSE Leave(h)

Saved(h) == Unlock(h) /\ Goto(h, "deliver") /\ UNCHANGED <<tok, first>>

(* History: the successor of the token in the file, in the hands of the    *)
(* holder of mu, is not saved.                                             *)
Orphan(h) ==
  orphaned' = orphaned \cup (IF mu = h THEN redeemed \cap {file} ELSE {})

OpenFile(h) ==
  /\ pc[h] = "open"
  /\ \/ /\ file' = Torn \* O_TRUNC
        /\ Goto(h, "write")
        /\ UNCHANGED <<first, mu, tok, orphaned>>
     \/ /\ Faults
        /\ Saved(h) /\ Orphan(h)
        /\ UNCHANGED file
  /\ UNCHANGED <<up, cachedToken, loginVars, providerVars, settled>>

WriteFile(h) ==
  /\ pc[h] = "write"
  /\ file' = tok[h] \/ (Faults /\ file' = Torn)
  /\ Saved(h)
  /\ UNCHANGED <<up, cachedToken, loginVars, providerVars, settled, orphaned>>

(* renewAllLeases; AgentRenewal has what follows.                          *)
renewAllLeases(h) ==
  /\ pc[h] = "deliver"
  /\ cachedToken' = tok[h]
  /\ settled' = settled \cup {tok[h]}
  /\ Leave(h)
  /\ UNCHANGED <<up, mu, file, loginVars, providerVars, orphaned>>

---------------------------------------------------------------------------
(* The process and time.                                                   *)

StartAgent ==
  /\ ~up
  /\ up' = TRUE /\ first' = TRUE
  /\ UNCHANGED <<mu, threadVars, file, cachedToken, loginVars, providerVars,
                 settled, orphaned>>

(* Tokens in the hands of threads are lost; the file keeps what it has.    *)
Kill ==
  /\ Kills /\ up
  /\ up' = FALSE /\ first' = FALSE
  /\ mu' = Nobody
  /\ pc' = [h \in Threads |-> "idle"]
  /\ tok' = [h \in Threads |-> 0]
  /\ cachedToken' = 0 /\ verifier' = 0
  /\ settled' = 1 .. issued
  /\ orphaned' = orphaned \cup
       (IF \E h \in Threads : mu = h /\ pc[h] \in {"open", "write"}
        THEN redeemed \cap {file} ELSE {})
  /\ UNCHANGED <<file, logins, answers, providerVars>>

Ages(t) ==
  /\ t =< issued
  /\ \/ age[t] = "fresh" /\ age' = [age EXCEPT ![t] = "near"]
     \/ age[t] = "near" /\ age' = [age EXCEPT ![t] = "expired"]
  /\ UNCHANGED <<up, first, mu, threadVars, file, cachedToken, loginVars,
                 issued, redeemed, settled, orphaned>>

---------------------------------------------------------------------------
Init ==
  /\ up = FALSE /\ first = FALSE /\ mu = Nobody
  /\ pc = [h \in Threads |-> "idle"] /\ tok = [h \in Threads |-> 0]
  /\ file = Missing /\ cachedToken = 0
  /\ verifier = 0 /\ logins = 0 /\ answers = {}
  /\ issued = 0 /\ age = [t \in Token |-> "fresh"] /\ redeemed = {}
  /\ settled = {} /\ orphaned = {}

Step(h) ==
  \/ Lock(h) \/ ReadToken(h) \/ Redeem(h) \/ ExchangeToken(h)
  \/ OpenFile(h) \/ WriteFile(h) \/ renewAllLeases(h)

Next ==
  \/ StartAgent \/ Kill \/ BeginLogin
  \/ \E h \in Threads : Step(h)
  \/ \E t \in Token : Ages(t)

Spec == Init /\ [][Next]_vars
---------------------------------------------------------------------------
(* Properties *)

(* Types, and the discipline of mu: a thread reads the file and redeems a  *)
(* token only while it holds mu, and nobody goes on without a token.       *)
TypeOK ==
  /\ up \in BOOLEAN /\ first \in BOOLEAN
  /\ mu \in Threads \cup {Nobody}
  /\ pc \in [Threads ->
       {"idle", "read", "redeem", "open", "write", "deliver"}]
  /\ tok \in [Threads -> 0 .. issued]
  /\ file \in (1 .. issued) \cup {Missing, Torn}
  /\ cachedToken \in 0 .. issued
  /\ logins \in Nat /\ verifier \in 0 .. logins
  /\ answers \in SUBSET (1 .. logins)
  /\ issued \in 0 .. MaxTokens
  /\ age \in [Token -> {"fresh", "near", "expired"}]
  /\ redeemed \in SUBSET (1 .. issued)
  /\ settled \in SUBSET (1 .. issued) /\ orphaned \in SUBSET redeemed
  /\ \A h \in Threads : pc[h] \in {"read", "redeem"} => mu = h
  /\ \A h \in Threads :
       pc[h] \in {"redeem", "open", "write", "deliver"} => tok[h] # 0

(* While nobody is refreshing it, the token in the file can still be       *)
(* refreshed: concurrent GetTokens and logins never leave a refresh token  *)
(* behind that has been used up, except one whose successor was lost with  *)
(* an answer, a failing save or a process.                                 *)
FileTokenUsable == mu = Nobody => file \notin redeemed \ orphaned

(* A refresh token is presented to the provider once: whoever is about to  *)
(* redeem one, however many callbacks have saved tokens since it was read, *)
(* is the first to do so, unless its successor was lost.                   *)
RedeemedOnce ==
  \A h \in Threads : pc[h] = "redeem" => tok[h] \notin redeemed \ orphaned

(* A token that was received reaches the devices: GetToken reports a       *)
(* refresh to one caller only, and that caller passes the token on.        *)
TokensDelivered ==
  \A t \in 1 .. issued :
    \/ t \in settled
    \/ \E h \in Threads : tok[h] = t /\ pc[h] \in {"open", "write", "deliver"}

(* oauth2.go:80, mu "protects token file reads and writes": a reader never *)
(* sees a file that is being written.                                      *)
ReadersSeeWholeFile == \A h \in Threads : pc[h] = "read" => file # Torn
=============================================================================
